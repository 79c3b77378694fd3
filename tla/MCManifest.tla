------------------------------ MODULE MCManifest ------------------------------
(***************************************************************************)
(* A manifest in binary form, and a later one of the same files, as text:  *)
(* they are merged and compared, into a third or over one of them, added   *)
(* to, listed and downloaded.  And the binary manifests, and the manifests *)
(* of releases, that differ from the first in a row or two, each for one   *)
(* program.                                                                *)
(***************************************************************************)
EXTENDS Manifest
CONSTANTS a, b, o, p, q, Q, r, u, v, en, de, no, dots, odd,
          pdir, sdir, rdir, fdir, rlsman, slnman, noname

Row(id, compressed, size) == [id |-> id, compressed |-> compressed, size |-> size]
File(up, name, flags, ids, size) ==
    [id |-> 1, dir |-> up, name |-> name, flags |-> flags, ids |-> ids, size |-> size]

\* The chunks 1 of 2 bytes and 2 of 3, in a bundle of each; u/p in English, q.
OldRaw ==
    [langs |-> <<[id |-> 1, name |-> en], [id |-> 3, name |-> de]>>,
     dirs |-> <<[id |-> 1, name |-> u], [id |-> 2, name |-> v, parent |-> 1]>>,
     params |-> <<[hash |-> 1], [hash |-> 3]>>,
     bundles |-> <<[id |-> 8, chunks |-> <<Row(1, 4, 2)>>],
                   [id |-> 9, chunks |-> <<Row(3, 1, 1), Row(2, 5, 3)>>]>>,
     files |-> <<File(1, p, {0}, <<1, 2>>, 5) @@ [params |-> 1], File(0, q, {}, <<1>>, 2)>>]

Dirs(rows) == [OldRaw EXCEPT !.dirs = rows]
Bundles(rows) == [OldRaw EXCEPT !.bundles = rows]
One(file) == [OldRaw EXCEPT !.files = <<file>>]

Dir(id, name, parent) == [id |-> id, name |-> name, parent |-> parent]
SomeDirs ==
    {<<Dir(1, u, 0)>>, <<Dir(1, no, 0)>>, <<[id |-> 1]>>, <<>>, <<Dir(2, u, 0)>>, <<[name |-> v]>>,
     <<Dir(1, u, 2), Dir(2, v, 0)>>, <<Dir(1, no, 2), Dir(2, v, 0)>>, <<Dir(1, u, 2)>>,
     <<Dir(1, u, 2), Dir(2, v, 1)>>, <<Dir(1, u, 1)>>, <<Dir(1, u, 0), Dir(1, v, 0)>>,
     <<Dir(1, u, 2), Dir(2, v, 0), Dir(2, u, 0)>>, <<Dir(2, dots, 0), Dir(1, u, 0)>>,
     <<Dir(1, u, 2), Dir(2, v, 3), Dir(3, u, 0)>>}

Bundle(id, chunks) == [id |-> id, chunks |-> chunks]
SomeBundles ==
    {<<Bundle(8, <<Row(1, 4, 2), Row(2, 5, 3)>>)>>, <<Bundle(8, <<Row(2, 5, 3), Row(1, 4, 2)>>)>>,
     <<Bundle(8, <<Row(2, 5, 3)>>), Bundle(9, <<Row(2, 5, 3), Row(1, 4, 2)>>)>>,
     <<Bundle(8, <<Row(1, 4, 2)>>), Bundle(8, <<Row(2, 5, 3), Row(1, 4, 2)>>)>>,
     <<Bundle(8, <<Row(1, 4, 2), Row(2, 5, 3), Row(1, 4, 2)>>)>>, <<Bundle(8, <<Row(1, 4, 2)>>)>>,
     <<Bundle(8, <<Row(1, 4, 2), Row(2, 5, 4)>>)>>, <<Bundle(0, <<Row(1, 4, 2), Row(2, 5, 3)>>)>>,
     <<[id |-> 8], Bundle(9, <<Row(1, 4, 2), Row(2, 5, 3)>>)>>,
     <<Bundle(8, <<Row(1, 4, 2), Row(2, 5, 3), Row(0, 1, 1)>>)>>, <<>>}

SomeFiles ==
    {One(File(d, p, f, <<1, 2>>, 5)) : d \in {0, 1, 2, 3}, f \in {{}, {0}, {2}, {0, 2}, {1}}}
    \cup {One(f) : f \in
        {File(1, p, {}, <<1, 2>>, 4), File(1, p, {}, <<2, 2, 1>>, 8), File(1, p, {}, <<3, 1>>, 3),
         File(1, p, {}, <<4>>, 5), File(1, no, {}, <<1>>, 2), File(0, p, {}, <<>>, 0),
         [id |-> 1, name |-> p], [name |-> p],
         File(1, p, {}, <<1>>, 2) @@ [params |-> 1], File(1, p, {}, <<1>>, 2) @@ [params |-> 2]}}
    \cup {[OldRaw EXCEPT !.files = <<>>]}

\* The manifests that differ from the old one.
SomeRaw ==
    {Dirs(rows) : rows \in SomeDirs} \cup {Bundles(rows) : rows \in SomeBundles} \cup SomeFiles
    \cup {[OldRaw EXCEPT !.langs = rows] : rows \in
            {<<>>, <<[id |-> 1, name |-> de], [id |-> 1, name |-> en]>>, <<[id |-> 1, name |-> odd]>>}}
    \cup {[OldRaw EXCEPT !.params = rows] : rows \in {<<>>, <<[hash |-> 2]>>, <<[hash |-> 1], [hash |-> 5]>>, <<[id |-> 1]>>}}

Binary(raw, whole) == [form |-> "rman", raw |-> raw, whole |-> whole]

Text1(path, data) ==
    [path |-> path, langs |-> {no}, data |-> data, places |-> <<>>, stripped |-> FALSE, hash |-> 1, fits |-> TRUE]
Text(files) ==
    [form |-> "jrman", lines |-> <<Header>> \o [i \in DOMAIN files |-> Line(files[i])], whole |-> TRUE]

Later == <<Text1(<<q>>, <<2>>), Text1(<<u, p>>, <<2, 1>>), Text1(<<q>>, <<1>>)>>
With1(m) == [n \in Name |-> CASE n = a -> m [] n = b -> Text(Later) [] OTHER -> Missing]

Folder(name, folders, inside) == [name |-> name, folders |-> folders, files |-> inside]
Rls(name, folders, rows) ==
    [is |-> "rls", whole |-> TRUE, name |-> name, folders |-> folders,
     files |-> [i \in DOMAIN rows |-> [name |-> rows[i][1], version |-> rows[i][2]]]]

\* The project p: its files p, q/r and q/u/p, the last of an older version.
Project == Rls(p, <<Folder(no, <<1, 1>>, <<0, 1>>), Folder(q, <<2, 1>>, <<1, 1>>), Folder(u, <<0, 0>>, <<2, 1>>)>>,
               <<<<p, v>>, <<r, v>>, <<p, u>>>>)
Folders(rows) == [Project EXCEPT !.folders = rows]
SomeProjects ==
    <<Project, [Project EXCEPT !.whole = FALSE], [Project EXCEPT !.name = noname],
      [Project EXCEPT !.name = r], [Project EXCEPT !.files[2].name = noname],
      Folders(<<>>), [Folders(<<>>) EXCEPT !.files = <<>>],
      Folders([Project.folders EXCEPT ![2].name = noname]),
      Folders([Project.folders EXCEPT ![2].folders = <<2, 2>>]),
      Folders([Project.folders EXCEPT ![3].files = <<3, 1>>]),
      Folders([Project.folders EXCEPT ![3].files = <<3, 0>>]),
      Folders([Project.folders EXCEPT ![3].folders = <<1, 1>>]),
      Folders([Project.folders EXCEPT ![3].folders = <<2, 1>>]),
      Folders([Project.folders EXCEPT ![3].files = <<0, 3>>]),
      Folders([Project.folders EXCEPT ![3].folders = <<0, 2>>]),
      Folders([Project.folders EXCEPT ![1].folders = <<0, 3>>, ![2].files = <<0, 2>>])>>

Solution(rows, locales, whole) ==
    [is |-> "sln", whole |-> whole,
     projects |-> [i \in DOMAIN rows |-> [name |-> rows[i][1], version |-> rows[i][2]]],
     locales |-> [i \in DOMAIN locales |-> [name |-> locales[i][1], projects |-> locales[i][2]]]]
Rows == <<<<p, v>>, <<Q, v>>, <<r, v>>>>
SomeSolutions ==
    <<Solution(Rows, <<<<en, <<p>>>>, <<de, <<p, Q>>>>>>, TRUE),
      Solution(Rows, <<<<en, <<p>>>>, <<de, <<Q, Q>>>>>>, TRUE),
      Solution(Rows, <<<<en, <<p>>>>>>, FALSE), Solution(Rows, <<>>, TRUE), Solution(<<>>, <<>>, TRUE),
      Solution(Rows, <<<<en, <<Q>>>>, <<de, <<Q>>>>>>, TRUE),
      Solution(<<<<q, v>>, <<p, u>>, <<p, v>>>>, <<<<en, <<p>>>>, <<de, <<>>>>, <<en, <<Q, q>>>>>>, TRUE)>>

\* The data of the release manifests.
MCContents ==
    [data \in {<<10, i>> : i \in DOMAIN SomeProjects} \cup {<<20, i>> : i \in DOMAIN SomeSolutions} \cup {<<30>>} |->
        CASE data[1] = 10 -> SomeProjects[data[2]]
          [] data[1] = 20 -> SomeSolutions[data[2]]
          [] data[1] = 30 -> Rls(Q, <<Folder(no, <<0, 0>>, <<0, 1>>)>>, <<<<r, v>>>>)]
MCLower == [w \in Word |-> IF w = Q THEN q ELSE w]

\* A release manifest in the directory u, and the files of the projects.
ProjectPath == RlsPath(<<u>>, p, v)
SolutionPath == <<u, sdir, p, rdir, v, slnman>>
At(name, version, file) == FilePath(<<u>>, name, [version |-> version, name |-> file])
ReleaseOf(project, solution) ==
    LET In(path, data) == Text1(path, data)
    IN  <<In(ProjectPath, project), In(SolutionPath, solution), In(RlsPath(<<u>>, q, v), <<30>>),
          In(At(p, v, <<p>>), <<1>>), In(At(p, v, <<r>>), <<2>>), In(At(p, v, <<q, r>>), <<1, 2>>),
          In(At(p, v, <<Q, r>>), <<2, 1>>), In(At(p, u, <<q, u, p>>), <<2>>), In(At(q, v, <<r>>), <<1>>),
          In(Tail(At(p, v, <<p>>)), <<2, 2>>), In(At(p, u, <<u, p>>), <<1, 1>>)>>
With2(project, solution) ==
    [n \in Name |-> IF n = r THEN Text(ReleaseOf(project, solution)) ELSE Missing]

MCFirst ==
    {[disk |-> With1(Binary(OldRaw, TRUE)), runs |-> 0]}
    \cup {[disk |-> With1(Binary(raw, TRUE)), runs |-> MaxRuns - 1] : raw \in SomeRaw}
    \cup {[disk |-> With1(Binary(OldRaw, FALSE)), runs |-> MaxRuns - 1]}
    \cup {[disk |-> With2(<<10, i>>, <<20, 1>>), runs |-> MaxRuns - 1] : i \in DOMAIN SomeProjects}
    \cup {[disk |-> With2(<<10, 1>>, <<20, i>>), runs |-> MaxRuns - 1] : i \in DOMAIN SomeSolutions}
    \cup {[disk |-> With2(<<1>>, <<3>>), runs |-> MaxRuns - 1]}
MCNew == {[Text1(<<q>>, <<1, 1>>) EXCEPT !.stripped = TRUE], Text1(<<q>>, <<2>>)}

Every == {p, q, r, u, v, a, b, o}
EveryLang == {no, en, de}
Commanded(is, outs, caches, prefixes, inputs) ==
    [is : {is}, out : outs, append : {FALSE}, path : {Every}, langs : {EveryLang},
     cache : caches, prefix : prefixes, release : {<<>>}, bundle : {NoFile}, ins : inputs]
Released(is, files, bundles) ==
    [is : {is}, out : {o}, append : {FALSE}, path : {Every}, langs : {EveryLang},
     cache : {FALSE}, prefix : {FALSE}, release : files, bundle : bundles, ins : {<<r>>}]
Narrow(commands, paths, langs) == {[command EXCEPT !.path = paths, !.langs = langs] : command \in commands}
Filtered(commands) == commands \cup Narrow(commands, {p}, EveryLang) \cup Narrow(commands, {u, b}, {no})
MCCommands ==
    Commanded("merge", {a, o}, BOOLEAN, {FALSE}, {<<a>>, <<a, b>>, <<b, o>>})
    \cup Filtered(Commanded("merge", {o}, {FALSE}, {TRUE}, {<<a, b>>}))
    \cup Filtered(Commanded("diff", {o}, {FALSE}, {FALSE}, {<<a, b>>, <<b, a>>}))
    \cup Filtered(Commanded("dl", {NoFile}, {FALSE}, {FALSE}, {<<a>>, <<a, b>>}))
    \cup Commanded("dl", {NoFile}, BOOLEAN, {FALSE}, {<<o>>})
    \cup Commanded("ls", {NoFile}, {FALSE}, {FALSE}, {<<b>>})
    \cup Commanded("bl", {NoFile}, {FALSE}, {FALSE}, {<<a>>, <<a, o>>})
    \cup [is : {"cut"}, out : {b, o}, append : BOOLEAN, path : {Every}, langs : {EveryLang},
          cache : {TRUE}, prefix : {FALSE}, release : {<<>>}, bundle : {NoFile}, ins : {<<>>}]
    \cup Released("rads", {ProjectPath, SolutionPath}, {0 .. 30, 2 .. 30})
    \cup Released("rads", {ProjectPath}, {NoFile}) \cup Released("rads", {Tail(SolutionPath), <<u>>}, {0 .. 30})
    \cup Released("split", {<<u>>, <<u, pdir, p>>}, {NoFile})

\* A manifest of a program that hashes with BLAKE3.
WithBlake3 ==
    {[disk |-> [n \in Name |-> IF n = a THEN Binary([OldRaw EXCEPT !.params[2].hash = 4], TRUE) ELSE Missing],
      runs |-> 0]}
=============================================================================
