----------------------------- MODULE MCNoInterupt -----------------------------
(***************************************************************************)
(* One thread, as in every program but rman-mount; or workers beside the   *)
(* main thread, as there.                                                  *)
(***************************************************************************)
EXTENDS NoInterupt
CONSTANTS main, w1, w2

Workers == {main, w1, w2}
MCPrograms ==
    {[threads |-> {main}, static |-> FALSE], [threads |-> Workers, static |-> TRUE]}
=============================================================================
