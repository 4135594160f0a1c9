-------------------------- MODULE ListFiles_proofs --------------------------
(***************************************************************************)
(* Proofs about ListFiles, for all names and lists of any length: it       *)
(* implements NameLists, and wherever a command stops every name on an     *)
(* unspoilt list has its source.                                           *)
(*                                                                         *)
(* The inductive invariant says of each step of a command what it has      *)
(* done: the copy is the list up to the line that is read, without the     *)
(* first line that equals the name.                                        *)
(***************************************************************************)
EXTENDS ListFiles, TLAPS

AllNames == Names \cup {Joined}
Files == [there : BOOLEAN, lines : Seq(AllNames), ended : BOOLEAN]
Jobs == {NoJob}
        \cup [step : {"append"}, list : Lists, name : Names]
        \cup [step : {"copy", "rename", "source"}, list : Lists, name : Names,
              at : Nat, removed : BOOLEAN]

Types ==
    /\ file \in [Lists -> Files]
    /\ \A l \in Lists : ~file[l].there => file[l] = NoFile
    /\ temp \in Files
    /\ tempOf \in Lists
    /\ sources \in [Lists -> SUBSET Names]
    /\ job \in Jobs
    /\ struck \in SUBSET Lists

Short == /\ \A l \in Lists : Len(file[l].lines) <= MaxLines
         /\ Len(temp.lines) <= MaxLines
         /\ job.step = "append" => Len(file[job.list].lines) < MaxLines
         /\ job.step = "copy" => Len(temp.lines) < job.at

(* f[i] is the first line that equals n. *)
FirstAt(f, n, i) == f[i] = n /\ \A j \in 1 .. i - 1 : f[j] # n

(* The lines of f before number `at`, without number i. *)
Kept(f, i, at) == [j \in 1 .. (IF i < at THEN at - 2 ELSE at - 1) |->
                      IF j < i THEN f[j] ELSE f[j + 1]]

Copied(f, t, n, at, removed) ==
    \E i \in DOMAIN f : FirstAt(f, n, i) /\ removed = (i < at) /\ t = Kept(f, i, at)

Distinct(f) == \A i, j \in DOMAIN f : f[i] = f[j] => i = j
Of(f) == {f[i] : i \in DOMAIN f}

Appending ==
    job.step = "append" => /\ job.name \in sources[job.list]
                           /\ job.name \notin Of(file[job.list].lines)
Copying ==
    job.step = "copy" =>
        /\ file[job.list].there /\ temp.there /\ tempOf = job.list
        /\ job.at \in 1 .. Len(file[job.list].lines) + 1
        /\ job.list \notin struck =>
              Copied(file[job.list].lines, temp.lines, job.name, job.at, job.removed)
Renaming ==
    job.step = "rename" =>
        /\ temp.there /\ tempOf = job.list
        /\ job.list \notin struck => job.name \notin Of(temp.lines)
Sourcing ==
    job.step = "source" =>
        /\ ~temp.there
        /\ job.list \notin struck => job.name \notin Of(file[job.list].lines)

Sound == \A l \in Lists \ struck : Distinct(Entries(l)) /\ Of(Entries(l)) \subseteq sources[l]

IInv == Types /\ Short /\ Appending /\ Copying /\ Renaming /\ Sourcing /\ Sound

-----------------------------------------------------------------------------
(* The lemmas about sequences. *)

LEMMA KeptOne ==
    ASSUME NEW S, NEW f \in Seq(S), NEW i \in DOMAIN f, NEW at \in DOMAIN f
    PROVE  /\ at # i => Append(Kept(f, i, at), f[at]) = Kept(f, i, at + 1)
           /\ at = i => Kept(f, i, at) = Kept(f, i, at + 1)
           /\ Kept(f, i, at) \in Seq(S)
<1>1. Kept(f, i, at) \in Seq(S)
  BY SMTT(30) DEF Kept
<1>2. CASE at = i
  BY <1>1, <1>2 DEF Kept
<1>3. CASE at < i
  <2>1. Len(Kept(f, i, at)) = at - 1
    BY <1>3 DEF Kept
  <2> QED BY <1>1, <1>3, <2>1 DEF Kept
<1>4. CASE at > i
  <2>1. Len(Kept(f, i, at)) = at - 2
    BY <1>4 DEF Kept
  <2> QED BY <1>1, <1>4, <2>1 DEF Kept
<1> QED BY <1>1, <1>2, <1>3, <1>4

LEMMA KeptAll ==
    ASSUME NEW S, NEW f \in Seq(S), NEW i \in DOMAIN f
    PROVE  /\ Kept(f, i, Len(f) + 1) = Abstract!Removed(f, i)
           /\ Distinct(f) => Distinct(Kept(f, i, Len(f) + 1))
           /\ Distinct(f) => f[i] \notin Of(Kept(f, i, Len(f) + 1))
           /\ Of(Kept(f, i, Len(f) + 1)) \subseteq Of(f)
<1> DEFINE k == Kept(f, i, Len(f) + 1)
<1>1. k = [j \in 1 .. Len(f) - 1 |-> IF j < i THEN f[j] ELSE f[j + 1]]
  BY DEF Kept
<1>2. DOMAIN k = 1 .. Len(f) - 1 /\ DOMAIN f = 1 .. Len(f) /\ Len(f) \in Nat
  BY <1>1
<1>3. \A j \in DOMAIN k : \E m \in DOMAIN f : k[j] = f[m] /\ m # i /\ m = (IF j < i THEN j ELSE j + 1)
  BY <1>1, <1>2
<1>4. k = Abstract!Removed(f, i)
  BY <1>1 DEF Abstract!Removed
<1>5. ASSUME Distinct(f) PROVE Distinct(k) /\ f[i] \notin Of(k)
  BY <1>2, <1>3, <1>5 DEF Distinct, Of
<1>6. Of(k) \subseteq Of(f)
  BY <1>3 DEF Of
<1> QED BY <1>4, <1>5, <1>6

LEMMA AppendOne ==
    ASSUME NEW S, NEW f \in Seq(S), NEW n \in S
    PROVE  /\ Append(f, n) \in Seq(S) /\ Len(Append(f, n)) = Len(f) + 1
           /\ Of(Append(f, n)) = Of(f) \cup {n}
           /\ Distinct(f) /\ n \notin Of(f) => Distinct(Append(f, n))
<1> DEFINE g == Append(f, n)
<1>1. g \in Seq(S) /\ Len(g) = Len(f) + 1 /\ DOMAIN g = 1 .. Len(f) + 1
      /\ DOMAIN f = 1 .. Len(f) /\ Len(f) \in Nat
  OBVIOUS
<1>2. g[Len(f) + 1] = n /\ \A j \in DOMAIN f : g[j] = f[j]
  OBVIOUS
<1>3. Of(g) = Of(f) \cup {n}
  BY <1>1, <1>2 DEF Of
<1>4. ASSUME Distinct(f), n \notin Of(f) PROVE Distinct(g)
  BY <1>1, <1>2, <1>4 DEF Of, Distinct
<1> QED BY <1>1, <1>3, <1>4

-----------------------------------------------------------------------------
(* The invariant. *)

LEMMA InitInv == Init => IInv
<1> SUFFICES ASSUME Init PROVE IInv
  OBVIOUS
<1> USE DEF Init
<1>1. \A f \in WrittenFiles : /\ f \in Files /\ f.there /\ Len(f.lines) <= MaxLines
                              /\ Distinct(f.lines)
                              /\ \A i \in DOMAIN f.lines : f.lines[i] \in Names
  <2> TAKE f \in WrittenFiles
  <2>3. PICK s \in UNION {[1 .. k -> Names] : k \in 0 .. MaxLines}, e \in BOOLEAN : f = Holding(s, e)
    BY DEF WrittenFiles
  <2>4. \A i, j \in DOMAIN f.lines : f.lines[i] = f.lines[j] => i = j
    BY DEF WrittenFiles
  <2>1. PICK k \in 0 .. MaxLines : s \in [1 .. k -> Names]
    OBVIOUS
  <2>2. k \in Nat /\ s \in Seq(AllNames) /\ Len(s) = k
    <3>1. k \in Nat
      BY LinesAssumption
    <3>2. s \in [1 .. k -> AllNames]
      BY <2>1 DEF AllNames
    <3> QED BY <3>1, <3>2
  <2> QED BY <2>1, <2>2, <2>3, <2>4, LinesAssumption DEF Holding, Files, Distinct
<1>2. \A l \in Lists : /\ file[l] \in Files /\ file[l].there /\ Len(file[l].lines) <= MaxLines
                       /\ Distinct(file[l].lines)
                       /\ \A i \in DOMAIN file[l].lines : file[l].lines[i] \in Names
  BY <1>1
<1>3. Types
  <2>1. temp \in Files
    BY DEF NoFile, Files
  <2>2. sources \in [Lists -> SUBSET Names]
    BY <1>2 DEF Line
  <2> QED BY <1>2, <2>1, <2>2 DEF Types, Lists, Jobs, NoJob
<1>4. Short
  BY <1>2, LinesAssumption DEF Short, NoFile, NoJob
<1>5. Appending /\ Copying /\ Renaming /\ Sourcing
  BY DEF Appending, Copying, Renaming, Sourcing, NoJob
<1>6. Sound
  <2>1. \A l \in Lists : Entries(l) = file[l].lines
    BY DEF Entries, Mislaid, NoFile
  <2> QED BY <2>1, <1>2 DEF Sound, Of, Line
<1> QED BY <1>3, <1>4, <1>5, <1>6 DEF IInv

LEMMA JobTypes ==
    ASSUME Types
    PROVE  /\ job.step \in {"none", "append", "copy", "rename", "source"}
           /\ job.step = "none" <=> job = NoJob
           /\ job.step = "append" => job \in [step : {"append"}, list : Lists, name : Names]
           /\ job.step \in {"copy", "rename", "source"} =>
                 job \in [step : {"copy", "rename", "source"}, list : Lists, name : Names,
                          at : Nat, removed : BOOLEAN]
BY DEF Types, Jobs, NoJob

CopyJobs == [step : {"copy", "rename", "source"}, list : Lists, name : Names,
             at : Nat, removed : BOOLEAN]

LEMMA CopyJobStep ==
    ASSUME NEW j \in CopyJobs, NEW a \in Nat
    PROVE  LET g == [j EXCEPT !.at = a]
               h == [j EXCEPT !.at = a, !.removed = TRUE]
           IN  /\ g \in CopyJobs /\ g.step = j.step /\ g.list = j.list /\ g.name = j.name
               /\ g.at = a /\ g.removed = j.removed
               /\ h \in CopyJobs /\ h.step = j.step /\ h.list = j.list /\ h.name = j.name
               /\ h.at = a /\ h.removed = TRUE
BY DEF CopyJobs

LEMMA CopyJobMove ==
    ASSUME NEW j \in CopyJobs, NEW p \in {"rename", "source"}
    PROVE  LET g == [j EXCEPT !.step = p]
           IN  /\ g \in CopyJobs /\ g.step = p /\ g.list = j.list /\ g.name = j.name
BY DEF CopyJobs

LEMMA StartNewInv ==
    ASSUME IInv, NEW l \in Lists, NEW n \in Names, StartNew(l, n) PROVE IInv'
<1> USE DEF StartNew
<1>1. Types' /\ job'.step = "append" /\ job'.list = l /\ job'.name = n
  BY DEF IInv, Types, Jobs
<1>2. \A m \in Lists : Entries(m)' = Entries(m)
  BY DEF Entries, Mislaid
<1>3. Short' /\ Copying' /\ Renaming' /\ Sourcing'
  BY <1>1 DEF IInv, Short, Copying, Renaming, Sourcing
<1>4. Appending'
  BY <1>1 DEF IInv, Appending, Types, Line, Of, Lists
<1>5. Sound'
  BY <1>2 DEF IInv, Types, Sound
<1> QED BY <1>1, <1>3, <1>4, <1>5 DEF IInv

(* What may stand in a list after an append, on a disk that is full or not. *)
LEMMA UnfinishedLine ==
    ASSUME NEW f \in Files
    PROVE  LET g == [f.lines EXCEPT ![Len(f.lines)] = Joined]
           IN  g \in Seq(AllNames) /\ Len(g) = Len(f.lines)
<1> DEFINE g == [f.lines EXCEPT ![Len(f.lines)] = Joined]
<1>1. Len(f.lines) \in Nat /\ f.lines \in [1 .. Len(f.lines) -> AllNames] /\ Joined \in AllNames
  BY DEF AllNames, Files
<1>2. g \in [1 .. Len(f.lines) -> AllNames]
  BY <1>1
<1> QED BY <1>1, <1>2

LEMMA AppendedFile ==
    ASSUME IInv, job.step = "append",
           NEW g \in {Appended(file[job.list], job.name)}
                     \cup CutAppended(file[job.list], job.name)
    PROVE  /\ job.list \in Lists /\ job.name \in Names
           /\ g \in Files
           /\ Len(g.lines) <= MaxLines
           /\ g.there
           /\ \/ g.lines = file[job.list].lines
              \/ g.lines = Append(file[job.list].lines, job.name)
              \/ Joined \in Line(g)
<1> DEFINE f == file[job.list]
           n == job.name
<1>1. /\ job.list \in Lists /\ n \in Names /\ n \in AllNames /\ Joined \in AllNames
      /\ f \in Files /\ f.lines \in Seq(AllNames)
      /\ Len(f.lines) \in Nat /\ Len(f.lines) < MaxLines
      /\ ~f.there => f = NoFile
  BY JobTypes DEF IInv, Types, Short, AllNames, Files
<1>2. ASSUME NEW m \in AllNames, NEW e \in BOOLEAN, g = Holding(Append(f.lines, m), e)
      PROVE  g \in Files /\ g.there /\ g.lines = Append(f.lines, m) /\ Len(g.lines) <= MaxLines
             /\ m \in Line(g)
  <2>1. /\ Append(f.lines, m) \in Seq(AllNames)
        /\ Len(Append(f.lines, m)) = Len(f.lines) + 1
        /\ m \in Of(Append(f.lines, m))
    BY <1>1, AppendOne
  <2>2. g \in Files /\ g.there /\ g.lines = Append(f.lines, m)
    BY <1>2, <2>1 DEF Holding, Files
  <2>3. Len(g.lines) <= MaxLines
    BY <1>1, <2>1, <2>2, LinesAssumption
  <2> QED BY <2>1, <2>2, <2>3 DEF Line, Of
<1>3. CASE f.ended /\ g = Holding(f.lines, TRUE)
  BY <1>1, <1>3, LinesAssumption DEF Holding, Files
<1>4. CASE f.ended /\ \E m \in {n, Joined}, e \in BOOLEAN : g = Holding(Append(f.lines, m), e)
  BY <1>1, <1>2, <1>4
<1>5. CASE ~f.ended /\ g = f
  BY <1>1, <1>5, LinesAssumption DEF NoFile
<1>6. CASE ~f.ended /\ \E e \in BOOLEAN : g = Holding([f.lines EXCEPT ![Len(f.lines)] = Joined], e)
  <2> DEFINE h == [f.lines EXCEPT ![Len(f.lines)] = Joined]
  <2>1. h \in Seq(AllNames) /\ Len(h) = Len(f.lines)
    BY <1>1, UnfinishedLine
  <2>2. PICK e \in BOOLEAN : g = Holding(h, e)
    BY <1>6
  <2> HIDE DEF h
  <2>3. g \in Files /\ g.there /\ g.lines = h
    BY <2>1, <2>2 DEF Holding, Files
  <2>4. CASE Len(f.lines) > 0
    <3>1. Len(f.lines) \in DOMAIN h /\ h[Len(f.lines)] = Joined
      BY <1>1, <2>4 DEF h
    <3> QED BY <1>1, <2>1, <2>3, <3>1, LinesAssumption DEF Line
  <2>5. CASE Len(f.lines) = 0
    <3>1. h = f.lines
      BY <1>1, <2>5 DEF h
    <3> QED BY <1>1, <2>1, <2>3, <3>1, LinesAssumption
  <2> QED BY <1>1, <2>4, <2>5
<1> QED BY <1>3, <1>4, <1>5, <1>6 DEF Appended, CutAppended

(* An append, or what a full disk leaves of one. *)
LEMMA AnyAppendInv ==
    ASSUME IInv, job.step = "append",
           NEW g \in {Appended(file[job.list], job.name)}
                     \cup CutAppended(file[job.list], job.name),
           Replace(job.list, g), job' = NoJob, UNCHANGED <<temp, tempOf, sources>>,
           struck \subseteq struck', struck' \subseteq struck \cup {job.list},
           job.list \notin struck' =>
               /\ ~Mislaid(job.list)
               /\ \/ g.lines = file[job.list].lines
                  \/ g.lines = Append(file[job.list].lines, job.name)
    PROVE  IInv'
<1> PICK l, f, n : l = job.list /\ f = file[l] /\ n = job.name
  OBVIOUS
<1>1. /\ l \in Lists /\ n \in Names /\ f \in Files /\ n \in AllNames /\ f.lines \in Seq(AllNames)
      /\ g \in Files /\ Len(g.lines) <= MaxLines /\ g.there
  BY AppendedFile DEF IInv, Types, AllNames, Files
<1>2. /\ file' = [file EXCEPT ![l] = g] /\ file'[l] = g
      /\ \A m \in Lists \ {l} : file'[m] = file[m]
  BY <1>1 DEF Replace, IInv, Types
<1>3. Types'
  <2>1. file' \in [Lists -> Files]
    BY <1>1, <1>2 DEF IInv, Types
  <2>2. \A m \in Lists : ~file'[m].there => file'[m] = NoFile
    BY <1>1, <1>2 DEF IInv, Types
  <2>3. job' \in Jobs /\ struck' \in SUBSET Lists
    BY <1>1 DEF IInv, Types, Jobs
  <2> QED BY <2>1, <2>2, <2>3 DEF IInv, Types
<1>4. Short' /\ Appending' /\ Copying' /\ Renaming' /\ Sourcing'
  <2>1. \A m \in Lists : Len(file'[m].lines) <= MaxLines
    BY <1>1, <1>2 DEF IInv, Short
  <2> QED BY <2>1 DEF IInv, Short, Appending, Copying, Renaming, Sourcing, NoJob
<1>5. \A m \in Lists \ {l} : Entries(m)' = Entries(m)
  BY <1>2 DEF Entries, Mislaid
<1>6. ASSUME l \notin struck' PROVE Distinct(Entries(l)') /\ Of(Entries(l)') \subseteq sources[l]
  <2>1. ~Mislaid(l) /\ l \notin struck /\ Entries(l) = f.lines
    BY <1>6 DEF Entries
  <2>2. Distinct(f.lines) /\ Of(f.lines) \subseteq sources[l]
    BY <1>1, <2>1 DEF IInv, Sound
  <2>3. Entries(l)' = g.lines
    BY <1>1, <1>2 DEF Entries, Mislaid
  <2>4. n \in sources[l] /\ n \notin Of(f.lines)
    BY DEF IInv, Appending
  <2>5. g.lines = f.lines \/ g.lines = Append(f.lines, n)
    BY <1>6
  <2>6. /\ Of(Append(f.lines, n)) = Of(f.lines) \cup {n}
        /\ Distinct(f.lines) /\ n \notin Of(f.lines) => Distinct(Append(f.lines, n))
    BY <1>1, AppendOne
  <2>7. CASE g.lines = f.lines
    BY <2>2, <2>3, <2>7
  <2>8. CASE g.lines = Append(f.lines, n)
    BY <2>2, <2>3, <2>4, <2>6, <2>8
  <2> QED BY <2>5, <2>7, <2>8
<1>7. Sound'
  BY <1>5, <1>6 DEF IInv, Sound
<1> QED BY <1>3, <1>4, <1>7 DEF IInv

LEMMA AppendEntryInv == ASSUME IInv, AppendEntry PROVE IInv'
<1> DEFINE f == file[job.list]
           g == Appended(f, job.name)
<1>1. /\ job.step = "append" /\ Replace(job.list, g) /\ job' = NoJob
      /\ UNCHANGED <<temp, tempOf, sources>>
  BY DEF AppendEntry
<1>2. struck \subseteq struck' /\ struck' \subseteq struck \cup {job.list}
  BY DEF AppendEntry, Strike
<1>3. ASSUME job.list \notin struck'
      PROVE  ~Mislaid(job.list) /\ g.lines = Append(f.lines, job.name)
  BY <1>3 DEF AppendEntry, Strike, Appended, Holding
<1> HIDE DEF g
<1>4. g \in {Appended(file[job.list], job.name)} \cup CutAppended(file[job.list], job.name)
  BY DEF g
<1> QED BY <1>1, <1>2, <1>3, <1>4, AnyAppendInv

LEMMA AppendOnFullDiskInv == ASSUME IInv, AppendOnFullDisk PROVE IInv'
<1>1. PICK g \in CutAppended(file[job.list], job.name) :
          /\ Replace(job.list, g)
          /\ IF Mislaid(job.list) \/ Joined \in Line(g)
             THEN Strike(job.list) ELSE UNCHANGED struck
  BY DEF AppendOnFullDisk
<1>2. job.step = "append" /\ job' = NoJob /\ UNCHANGED <<temp, tempOf, sources>>
  BY DEF AppendOnFullDisk
<1>3. struck \subseteq struck' /\ struck' \subseteq struck \cup {job.list}
  BY <1>1 DEF Strike
<1>4. ASSUME job.list \notin struck'
      PROVE  /\ ~Mislaid(job.list)
             /\ g.lines = file[job.list].lines \/ g.lines = Append(file[job.list].lines, job.name)
  <2>1. ~Mislaid(job.list) /\ Joined \notin Line(g)
    BY <1>1, <1>4 DEF Strike
  <2> QED BY <1>2, <2>1, AppendedFile
<1> QED BY <1>1, <1>2, <1>3, <1>4, AnyAppendInv

LEMMA StartDeleteInv ==
    ASSUME IInv, NEW l \in Lists, NEW n \in Names, StartDelete(l, n) PROVE IInv'
<1> USE DEF StartDelete
<1>1. /\ job' \in Jobs /\ job'.step = "copy" /\ job'.list = l /\ job'.name = n
      /\ job'.at = 1 /\ job'.removed = FALSE
  BY DEF Jobs
<1>2. struck \subseteq struck' /\ struck' \subseteq struck \cup {tempOf}
  BY DEF Strike
<1>3. temp' \in Files /\ temp'.lines = <<>> /\ temp'.there
  BY DEF Holding, Files
<1>4. file[l] \in Files /\ file[l].lines \in Seq(AllNames) /\ file[l].there
  BY DEF IInv, Types, Files, NoFile, Line
<1>5. Types'
  BY <1>1, <1>2, <1>3 DEF IInv, Types
<1>6. Short' /\ Appending' /\ Renaming' /\ Sourcing'
  <2>1. Len(temp'.lines) = 0
    BY <1>3
  <2>2. Short'
    <3>1. (\A m \in Lists : Len(file[m].lines) <= MaxLines)'
      BY DEF IInv, Short
    <3>2. Len(temp'.lines) <= MaxLines /\ Len(temp'.lines) < job'.at
      <4> HIDE DEF StartDelete
      <4> QED BY <2>1, <1>1, LinesAssumption
    <3> QED BY <3>1, <3>2, <1>1 DEF Short
  <2>3. Appending' /\ Renaming' /\ Sourcing'
    BY <1>1 DEF Appending, Renaming, Sourcing
  <2> QED BY <2>2, <2>3
<1>7. ASSUME l \notin struck' PROVE Copied(file[l].lines, <<>>, n, 1, FALSE)
  <2>1. PICK i \in DOMAIN file[l].lines : file[l].lines[i] = n
    BY DEF Line
  <2>2. Distinct(file[l].lines)
    BY <1>2, <1>4, <1>7 DEF IInv, Sound, Entries, Mislaid
  <2>3. FirstAt(file[l].lines, n, i)
    BY <1>4, <2>1, <2>2 DEF FirstAt, Distinct
  <2>4. ~(i < 1) /\ Kept(file[l].lines, i, 1) = <<>>
    BY <1>4 DEF Kept
  <2> QED BY <2>3, <2>4 DEF Copied
<1>8. Copying'
  <2>1. 1 \in 1 .. Len(file[l].lines) + 1
    BY <1>4
  <2> QED BY <2>1, <1>1, <1>3, <1>4, <1>7 DEF Copying
<1>9. \A m \in Lists \ struck' : Entries(m)' = Entries(m)
  BY <1>4 DEF Entries, Mislaid, Strike, IInv, Types
<1>10. Sound'
  BY <1>2, <1>9 DEF IInv, Sound
<1> QED BY <1>5, <1>6, <1>8, <1>10 DEF IInv

LEMMA CopyLineInv == ASSUME IInv, CopyLine PROVE IInv'
<1> USE DEF CopyLine
<1> PICK l, f, n, at : l = job.list /\ f = file[l].lines /\ n = job.name /\ at = job.at
  OBVIOUS
<1>1. /\ l \in Lists /\ n \in Names /\ at \in Nat /\ job.removed \in BOOLEAN
      /\ file[l] \in Files /\ f \in Seq(AllNames) /\ temp \in Files /\ temp.lines \in Seq(AllNames)
      /\ file[l].there /\ temp.there /\ tempOf = l
  BY JobTypes DEF IInv, Types, Files, Copying
<1>2. at \in 1 .. Len(f) /\ at \in DOMAIN f /\ Len(f) \in Nat /\ f[at] \in AllNames
  BY <1>1 DEF IInv, Copying
<1>3. /\ job' \in Jobs /\ job'.step = "copy" /\ job'.list = l /\ job'.name = n
      /\ job'.at = at + 1
      /\ job'.removed = (job.removed \/ f[at] = n)
      /\ IF ~job.removed /\ f[at] = n THEN temp' = temp
         ELSE temp' = Holding(Append(temp.lines, f[at]), at < Len(f) \/ file[l].ended)
  <2>1. job \in CopyJobs /\ at + 1 \in Nat
    BY <1>1, JobTypes DEF IInv, CopyJobs
  <2>2. CASE ~job.removed /\ f[at] = n
    <3>1. job' = [job EXCEPT !.at = at + 1, !.removed = TRUE] /\ temp' = temp
      BY <2>2
    <3> QED BY <2>1, <2>2, <3>1, CopyJobStep DEF Jobs, CopyJobs
  <2>3. CASE ~(~job.removed /\ f[at] = n)
    <3>1. /\ job' = [job EXCEPT !.at = at + 1]
          /\ temp' = Holding(Append(temp.lines, f[at]), at < Len(f) \/ file[l].ended)
      BY <2>3
    <3> QED BY <1>1, <2>1, <2>3, <3>1, CopyJobStep DEF Jobs, CopyJobs
  <2> QED BY <2>2, <2>3
<1>4. /\ Append(temp.lines, f[at]) \in Seq(AllNames)
      /\ Len(Append(temp.lines, f[at])) = Len(temp.lines) + 1
      /\ Len(temp.lines) \in Nat
  BY <1>1, <1>2, AppendOne
<1>5. temp' \in Files /\ temp'.there /\ Len(temp'.lines) <= Len(temp.lines) + 1
  <2>1. CASE temp' = temp
    BY <1>1, <1>4, <2>1
  <2>2. CASE temp' = Holding(Append(temp.lines, f[at]), at < Len(f) \/ file[l].ended)
    <3>1. (at < Len(f) \/ file[l].ended) \in BOOLEAN
      BY <1>1 DEF Files
    <3> HIDE DEF CopyLine
    <3> QED BY <1>4, <2>2, <3>1 DEF Holding, Files
  <2> QED BY <1>3, <2>1, <2>2
<1>6. Types'
  BY <1>3, <1>5 DEF IInv, Types
<1>7. Short'
  <2>1. Len(temp.lines) < at /\ Len(f) <= MaxLines /\ at <= Len(f)
    BY <1>1, <1>2 DEF IInv, Short
  <2>2. Len(temp'.lines) < at + 1 /\ Len(temp'.lines) <= MaxLines
    <3>1. Len(temp'.lines) \in Nat
      BY <1>5 DEF Files
    <3> QED BY <1>2, <1>4, <1>5, <2>1, <3>1, LinesAssumption, SMTT(30)
  <2> QED BY <1>3, <2>2 DEF IInv, Short
<1>8. Appending' /\ Renaming' /\ Sourcing'
  BY <1>3 DEF Appending, Renaming, Sourcing
<1>9. ASSUME l \notin struck PROVE Copied(f, temp'.lines, n, at + 1, job'.removed)
  <2> HIDE DEF CopyLine
  <2>1. PICK i \in DOMAIN f : FirstAt(f, n, i) /\ job.removed = (i < at)
                              /\ temp.lines = Kept(f, i, at)
    BY <1>9 DEF IInv, Copying, Copied, CopyLine
  <2>2. i \in Nat /\ at \in Nat /\ f[i] = n /\ \A j \in 1 .. i - 1 : f[j] # n
    BY <1>1, <1>2, <2>1, SMTT(30) DEF FirstAt
  <2>3. CASE at = i
    <3>0. ~(i < at) /\ f[at] = n
      BY <2>2, <2>3
    <3>1. ~job.removed /\ f[at] = n /\ temp' = temp
      BY <1>3, <2>1, <3>0
    <3>2. job'.removed = (i < at + 1)
      BY <1>3, <2>2, <2>3, <3>1
    <3>3. temp'.lines = Kept(f, i, at + 1)
      BY <1>1, <1>2, <2>1, <2>3, <3>1, KeptOne
    <3> QED BY <2>1, <3>2, <3>3 DEF Copied
  <2>4. CASE at # i
    <3>1. ~(~job.removed /\ f[at] = n)
      <4>1. i < at \/ at \in 1 .. i - 1
        BY <1>2, <2>2, <2>4
      <4> QED BY <2>1, <2>2, <4>1
    <3>2. temp'.lines = Append(temp.lines, f[at])
      BY <1>3, <3>1 DEF Holding
    <3>3. temp'.lines = Kept(f, i, at + 1)
      <4>1. Append(Kept(f, i, at), f[at]) = Kept(f, i, at + 1)
        <5>1. f \in Seq(AllNames) /\ i \in DOMAIN f /\ at \in DOMAIN f
          BY <1>1, <1>2
        <5> QED BY <5>1, <2>4, KeptOne, ZenonT(30)
      <4> QED BY <2>1, <3>2, <4>1
    <3>4. job'.removed = (i < at + 1)
      <4>1. f[at] = n => i < at
        BY <2>1, <3>1
      <4>2. job'.removed = (i < at)
        BY <1>1, <1>3, <2>1, <4>1
      <4> QED BY <2>2, <2>4, <4>2
    <3> QED BY <2>1, <3>3, <3>4 DEF Copied
  <2> QED BY <2>3, <2>4
<1>10. Copying'
  BY <1>1, <1>2, <1>3, <1>5, <1>9 DEF Copying
<1>11. \A m \in Lists : Entries(m)' = Entries(m)
  BY <1>1 DEF Entries, Mislaid
<1>12. Sound'
  BY <1>11 DEF IInv, Sound
<1> QED BY <1>6, <1>7, <1>8, <1>10, <1>12 DEF IInv

LEMMA CopyOnFullDiskInv == ASSUME IInv, CopyOnFullDisk PROVE IInv'
<1> USE DEF CopyOnFullDisk
<1> PICK l : l = job.list
  OBVIOUS
<1>1. /\ l \in Lists /\ file[l] \in Files /\ file[l].there /\ temp.there /\ tempOf = l
      /\ Len(file[l].lines) \in Nat
  BY JobTypes DEF IInv, Types, Files, Copying
<1>2. /\ job' \in Jobs /\ job'.step = "copy" /\ job'.list = l /\ job'.name = job.name
      /\ job'.at = Len(file[l].lines) + 1
  <2>1. job \in CopyJobs /\ Len(file[l].lines) + 1 \in Nat
    BY <1>1, JobTypes DEF IInv, CopyJobs
  <2>2. job' = [job EXCEPT !.at = Len(file[l].lines) + 1, !.removed = TRUE] /\ job.step = "copy"
    OBVIOUS
  <2> HIDE DEF CopyOnFullDisk
  <2>3. /\ job' \in CopyJobs /\ job'.step = job.step /\ job'.list = job.list
        /\ job'.name = job.name /\ job'.at = Len(file[l].lines) + 1
    BY <2>1, <2>2, CopyJobStep
  <2> QED BY <2>2, <2>3 DEF Jobs, CopyJobs
<1>3. struck' = struck \cup {l}
  BY DEF Strike
<1>4. Types'
  BY <1>1, <1>2, <1>3 DEF IInv, Types
<1>5. Short'
  <2>1. Len(temp.lines) < job.at /\ job.at \in Nat /\ Len(temp.lines) \in Nat
    BY <1>1, JobTypes DEF IInv, Short, Types, Files
  <2> QED BY <1>1, <1>2, <2>1 DEF IInv, Short
<1>6. Appending' /\ Copying' /\ Renaming' /\ Sourcing'
  BY <1>1, <1>2, <1>3 DEF Appending, Copying, Renaming, Sourcing
<1>7. \A m \in Lists : Entries(m)' = Entries(m)
  BY DEF Entries, Mislaid
<1>8. Sound'
  BY <1>3, <1>7 DEF IInv, Sound
<1> QED BY <1>4, <1>5, <1>6, <1>8 DEF IInv

LEMMA Unspoilt ==
    ASSUME IInv, struck \subseteq struck', Sound,
           \A l \in Lists \ struck' : /\ Distinct(Entries(l)')
                                      /\ Of(Entries(l)') \subseteq sources'[l]
    PROVE  Sound'
BY DEF Sound

LEMMA RemoveListInv == ASSUME IInv, RemoveList PROVE IInv'
<1> USE DEF RemoveList
<1> PICK l, f, n : l = job.list /\ f = file[l].lines /\ n = job.name
  OBVIOUS
<1>1. /\ l \in Lists /\ n \in Names /\ f \in Seq(AllNames) /\ Len(f) \in Nat
      /\ file[l].there /\ temp.there /\ tempOf = l /\ job \in CopyJobs /\ job.at \in Nat
  BY JobTypes DEF IInv, Types, Files, Copying, CopyJobs
<1>2. job.at = Len(f) + 1
  BY <1>1 DEF IInv, Copying
<1>3. job' \in Jobs /\ job'.step = "rename" /\ job'.list = l /\ job'.name = n
  <2>1. job' = [job EXCEPT !.step = "rename"]
    OBVIOUS
  <2> HIDE DEF RemoveList
  <2>2. job' \in CopyJobs /\ job'.step = "rename" /\ job'.list = job.list /\ job'.name = job.name
    BY <1>1, <2>1, CopyJobMove
  <2> QED BY <2>2 DEF Jobs, CopyJobs
<1>4. /\ file' \in [Lists -> Files]
      /\ \A m \in Lists : ~file'[m].there => file'[m] = NoFile
      /\ \A m \in Lists \ {l} : file'[m] = file[m]
      /\ file'[l] = file[l] \/ file'[l] = NoFile
  <2>1. NoFile \in Files /\ ~NoFile.there
    BY DEF NoFile, Files
  <2>2. file' = file \/ file' = [file EXCEPT ![l] = NoFile]
    BY DEF Replace
  <2>3. file \in [Lists -> Files] /\ \A m \in Lists : ~file[m].there => file[m] = NoFile
    BY DEF IInv, Types
  <2> HIDE DEF RemoveList
  <2> QED BY <1>1, <2>1, <2>2, <2>3
<1>5. Types'
  BY <1>3, <1>4 DEF IInv, Types
<1>6. Short'
  <2>1. Len(NoFile.lines) <= MaxLines
    BY LinesAssumption DEF NoFile
  <2>2. (\A m \in Lists : Len(file[m].lines) <= MaxLines)'
    BY <1>4, <2>1 DEF IInv, Short
  <2> QED BY <1>3, <2>2 DEF IInv, Short
<1>7. ASSUME l \notin struck
      PROVE  \E i \in DOMAIN f : f[i] = n /\ temp.lines = Kept(f, i, Len(f) + 1)
  BY <1>1, <1>2, <1>7 DEF IInv, Copying, Copied, FirstAt
<1>8. ASSUME l \notin struck
      PROVE  /\ Distinct(f) /\ Of(f) \subseteq sources[l]
             /\ Distinct(temp.lines) /\ n \notin Of(temp.lines) /\ Of(temp.lines) \subseteq Of(f)
  <2>1. Distinct(f) /\ Of(f) \subseteq sources[l]
    BY <1>1, <1>8 DEF IInv, Sound, Entries, Mislaid
  <2>2. PICK i \in DOMAIN f : f[i] = n /\ temp.lines = Kept(f, i, Len(f) + 1)
    BY <1>7, <1>8
  <2> QED BY <1>1, <2>1, <2>2, KeptAll, SMTT(30)
<1>9. Appending' /\ Copying' /\ Sourcing'
  BY <1>3 DEF Appending, Copying, Sourcing
<1>10. Renaming'
  BY <1>1, <1>3, <1>8 DEF Renaming
<1>11. Sound'
  <2>1. \A m \in Lists \ {l} : Entries(m)' = Entries(m)
    BY <1>1, <1>4 DEF Entries, Mislaid
  <2>2. Entries(l)' = f \/ Entries(l)' = temp.lines
    BY <1>1, <1>4 DEF Entries, Mislaid, NoFile
  <2>3. ASSUME l \notin struck PROVE Distinct(Entries(l)') /\ Of(Entries(l)') \subseteq sources[l]
    BY <1>8, <2>2, <2>3
  <2> QED BY <1>1, <2>1, <2>3 DEF IInv, Sound
<1> QED BY <1>5, <1>6, <1>9, <1>10, <1>11 DEF IInv

LEMMA RenameCopyInv == ASSUME IInv, RenameCopy PROVE IInv'
<1> USE DEF RenameCopy
<1> PICK l : l = job.list
  OBVIOUS
<1>1. /\ l \in Lists /\ temp \in Files /\ temp.there /\ tempOf = l /\ ~file[l].there
      /\ job \in CopyJobs
  BY JobTypes DEF IInv, Types, Renaming, CopyJobs
<1>2. job' \in Jobs /\ job'.step = "source" /\ job'.list = l /\ job'.name = job.name
  <2>1. job' = [job EXCEPT !.step = "source"]
    OBVIOUS
  <2> HIDE DEF RenameCopy
  <2>2. job' \in CopyJobs /\ job'.step = "source" /\ job'.list = job.list /\ job'.name = job.name
    BY <1>1, <2>1, CopyJobMove
  <2> QED BY <2>2 DEF Jobs, CopyJobs
<1>3. /\ file' \in [Lists -> Files] /\ file'[l] = temp
      /\ \A m \in Lists \ {l} : file'[m] = file[m]
  BY <1>1 DEF IInv, Types, Replace
<1>4. temp' \in Files /\ ~temp'.there /\ Len(temp'.lines) = 0
  BY DEF NoFile, Files
<1>5. Types'
  BY <1>1, <1>2, <1>3, <1>4 DEF IInv, Types
<1>6. Short'
  <2>1. (\A m \in Lists : Len(file[m].lines) <= MaxLines)'
    BY <1>3 DEF IInv, Short
  <2>2. Len(temp'.lines) <= MaxLines
    BY <1>4, LinesAssumption
  <2> QED BY <1>2, <2>1, <2>2 DEF Short
<1>7. Appending' /\ Copying' /\ Renaming'
  BY <1>2 DEF Appending, Copying, Renaming
<1>8. Sourcing'
  BY <1>1, <1>2, <1>3, <1>4 DEF IInv, Renaming, Sourcing
<1>9. \A m \in Lists : Entries(m)' = Entries(m)
  BY <1>1, <1>3, <1>4 DEF Entries, Mislaid
<1>10. Sound'
  BY <1>9 DEF IInv, Sound
<1> QED BY <1>5, <1>6, <1>7, <1>8, <1>10 DEF IInv

LEMMA RenameFailsInv == ASSUME IInv, RenameFails PROVE IInv'
<1> USE DEF RenameFails
<1> PICK l : l = job.list
  OBVIOUS
<1>1. l \in Lists /\ temp.there /\ tempOf = l
  BY JobTypes DEF IInv, Types, Renaming
<1>2. temp' \in Files /\ ~temp'.there /\ Len(temp'.lines) = 0
  BY DEF NoFile, Files
<1>3. struck' = IF file[l].there THEN struck ELSE struck \cup {l}
  BY DEF Strike
<1>4. Types'
  BY <1>1, <1>2, <1>3 DEF IInv, Types, Jobs
<1>5. Short'
  <2>1. Len(temp'.lines) <= MaxLines
    BY <1>2, LinesAssumption
  <2> QED BY <2>1 DEF IInv, Short, NoJob
<1>6. Appending' /\ Copying' /\ Renaming' /\ Sourcing'
  BY DEF Appending, Copying, Renaming, Sourcing, NoJob
<1>7. \A m \in Lists \ struck' : Entries(m)' = Entries(m)
  BY <1>1, <1>2, <1>3 DEF Entries, Mislaid
<1>8. Sound'
  BY <1>3, <1>7 DEF IInv, Sound
<1> QED BY <1>4, <1>5, <1>6, <1>8 DEF IInv

LEMMA RemoveSourceInv == ASSUME IInv, RemoveSource PROVE IInv'
<1> USE DEF RemoveSource
<1> PICK l, n : l = job.list /\ n = job.name
  OBVIOUS
<1>1. l \in Lists /\ n \in Names /\ ~temp.there
  BY JobTypes DEF IInv, Types, Sourcing
<1>2. Types'
  BY <1>1 DEF IInv, Types, Jobs
<1>3. Short' /\ Appending' /\ Copying' /\ Renaming' /\ Sourcing'
  BY DEF IInv, Short, Appending, Copying, Renaming, Sourcing, NoJob
<1>4. \A m \in Lists : Entries(m)' = Entries(m) /\ Entries(m) = file[m].lines
  BY <1>1 DEF Entries, Mislaid
<1>5. \A m \in Lists \ {l} : sources'[m] = sources[m]
  BY DEF IInv, Types
<1>6. sources'[l] = sources[l] \ {n}
  BY <1>1 DEF IInv, Types
<1>7. ASSUME l \notin struck PROVE Of(Entries(l)) \subseteq sources'[l]
  BY <1>1, <1>4, <1>6, <1>7 DEF IInv, Sound, Sourcing
<1>8. Sound'
  BY <1>1, <1>4, <1>5, <1>7 DEF IInv, Sound
<1> QED BY <1>2, <1>3, <1>8 DEF IInv

LEMMA RenameByHandInv ==
    ASSUME IInv, NEW l \in Lists, RenameByHand(l) PROVE IInv'
<1> USE DEF RenameByHand
<1>1. temp \in Files /\ temp.there /\ tempOf = l /\ ~file[l].there
  BY DEF IInv, Types, Mislaid
<1>2. /\ file' \in [Lists -> Files] /\ file'[l] = temp
      /\ \A m \in Lists \ {l} : file'[m] = file[m]
  BY <1>1 DEF IInv, Types, Replace
<1>3. temp' \in Files /\ ~temp'.there /\ Len(temp'.lines) = 0
  BY DEF NoFile, Files
<1>4. Types'
  BY <1>1, <1>2, <1>3 DEF IInv, Types
<1>5. Short'
  <2>1. (\A m \in Lists : Len(file[m].lines) <= MaxLines)'
    BY <1>2 DEF IInv, Short
  <2>2. Len(temp'.lines) <= MaxLines
    BY <1>3, LinesAssumption
  <2> QED BY <2>1, <2>2 DEF Short, NoJob
<1>6. Appending' /\ Copying' /\ Renaming' /\ Sourcing'
  BY DEF Appending, Copying, Renaming, Sourcing, NoJob
<1>7. \A m \in Lists : Entries(m)' = Entries(m)
  BY <1>1, <1>2, <1>3 DEF Entries, Mislaid
<1>8. Sound'
  BY <1>7 DEF IInv, Sound
<1> QED BY <1>4, <1>5, <1>6, <1>8 DEF IInv

(* A step that ends a command, and nothing else. *)
LEMMA GiveUpInv ==
    ASSUME IInv, job' \in {job, NoJob}, UNCHANGED <<file, temp, tempOf, sources, struck>>
    PROVE  IInv'
<1>1. Types'
  BY DEF IInv, Types, Jobs
<1>2. Short' /\ Appending' /\ Copying' /\ Renaming' /\ Sourcing'
  BY DEF IInv, Short, Appending, Copying, Renaming, Sourcing, NoJob
<1>3. Sound'
  BY DEF IInv, Sound, Entries, Mislaid
<1> QED BY <1>1, <1>2, <1>3 DEF IInv

LEMMA NextInv == IInv /\ [Next]_vars => IInv'
<1> SUFFICES ASSUME IInv, [Next]_vars PROVE IInv'
  OBVIOUS
<1>1. ASSUME NEW l \in Lists, NEW n \in Names, StartNew(l, n) \/ StartDelete(l, n)
      PROVE  IInv'
  BY <1>1, StartNewInv, StartDeleteInv
<1>2. CASE AppendEntry \/ CopyLine \/ RemoveList \/ RenameCopy \/ RemoveSource
  BY <1>2, AppendEntryInv, CopyLineInv, RemoveListInv, RenameCopyInv, RemoveSourceInv
<1>3. CASE AppendOnFullDisk \/ CopyOnFullDisk \/ RenameFails
  BY <1>3, AppendOnFullDiskInv, CopyOnFullDiskInv, RenameFailsInv
<1>4. CASE PowerOff \/ Build \/ UNCHANGED vars
  BY <1>4, GiveUpInv DEF PowerOff, Build, vars
<1>5. ASSUME NEW l \in Lists, RenameByHand(l) PROVE IInv'
  BY <1>5, RenameByHandInv
<1> QED BY <1>1, <1>2, <1>3, <1>4, <1>5 DEF Next, Command, Fault

(* Every reachable state satisfies the inductive invariant. *)
THEOREM AlwaysIInv == Spec => []IInv
BY InitInv, NextInv, PTL DEF Spec

(* The lists, the copy and the sources keep their types, and no list gets  *)
(* longer than the bound of the model (scaffold.c:128-213).                *)
THEOREM ListsTyped == Spec => []TypeOK
<1>1. IInv => TypeOK
  <2> SUFFICES ASSUME IInv PROVE TypeOK
    OBVIOUS
  <2>1. \A f \in Files : Line(f) \subseteq Names \cup {Joined}
    BY DEF Line, Files, AllNames
  <2> QED BY <2>1, JobTypes DEF IInv, Types, Short, TypeOK
<1> QED BY <1>1, AlwaysIInv, PTL

(* Wherever the power goes, the names on an unspoilt list have their       *)
(* sources (scaffold.c:837-867, 967-972).                                  *)
THEOREM RecoveryIsSound == Spec => []RecoveryLoads
<1>1. IInv => RecoveryLoads
  BY DEF IInv, Sound, Of, RecoveryLoads
<1> QED BY <1>1, AlwaysIInv, PTL

(* Without posts.lst no build is published (content.c:475-479), so that a  *)
(* post that waits in the copy stays on the site.                          *)
THEOREM PostsStay == Spec => MislaidPostsStay
<1> DEFINE Stay == \A n \in shown["posts"] \ shown'["posts"] :
                      \/ "posts" \in struck
                      \/ \A i \in DOMAIN Entries("posts") : Entries("posts")[i] # n
<1>1. [Next]_vars => [Stay]_vars
  <2> SUFFICES ASSUME [Next]_vars PROVE Stay \/ UNCHANGED vars
    OBVIOUS
  <2>1. CASE Build
    <3>1. Entries("posts") = file["posts"].lines
      BY <2>1 DEF Build, Loads, Lists, Entries, Mislaid
    <3>2. shown'["posts"] = Line(file["posts"])
      BY <2>1 DEF Build, Lists
    <3> QED BY <3>1, <3>2 DEF Line
  <2>2. CASE UNCHANGED shown
    BY <2>2
  <2>3. Build \/ UNCHANGED shown \/ UNCHANGED vars
    BY DEF Next, Command, Fault, StartNew, StartDelete, AppendEntry, CopyLine, RemoveList,
           RenameCopy, RemoveSource, AppendOnFullDisk, CopyOnFullDisk, RenameFails,
           PowerOff, RenameByHand
  <2> QED BY <2>1, <2>2, <2>3
<1>2. Stay = \A n \in shown["posts"] \ shown'["posts"] :
                \/ "posts" \in struck
                \/ \A i \in DOMAIN Entries("posts") : Entries("posts")[i] # n
  OBVIOUS
<1> HIDE DEF Stay
<1>3. Spec => [][Stay]_vars
  BY <1>1, PTL DEF Spec
<1> QED BY <1>3, PTL DEF MislaidPostsStay, Stay

-----------------------------------------------------------------------------
(* The steps of a command as steps of NameLists. *)

Same == (\A l \in Lists : Entries(l)' = Entries(l)) /\ struck' = struck
OnlyIn(l) == \A m \in Lists \ {l} : Entries(m)' = Entries(m)

LEMMA SameStutters == Same => UNCHANGED Abstract!vars
BY DEF Same, Abstract!vars

LEMMA SpoilStep ==
    ASSUME NEW l \in Lists, OnlyIn(l), struck' = struck \cup {l}
    PROVE  Abstract!Spoil(l)
BY DEF OnlyIn, Abstract!Spoil, Abstract!OthersStay

LEMMA AddStep ==
    ASSUME NEW l \in Lists, NEW n, OnlyIn(l), struck' = struck,
           n \notin Of(Entries(l)), Entries(l)' = Append(Entries(l), n)
    PROVE  Abstract!Add(l, n)
<1>1. [m \in Lists |-> Entries(m)]' = [m \in Lists |-> IF m = l THEN Append(Entries(l), n) ELSE Entries(m)]
  BY DEF OnlyIn
<1> QED BY <1>1 DEF Abstract!Add, Abstract!Listed, Of

LEMMA DropStep ==
    ASSUME NEW l \in Lists, NEW n, OnlyIn(l), struck' = struck,
           NEW i \in DOMAIN Entries(l), FirstAt(Entries(l), n, i),
           Entries(l)' = Abstract!Removed(Entries(l), i)
    PROVE  Abstract!Drop(l, n)
<1>1. [m \in Lists |-> Entries(m)]' = [m \in Lists |-> IF m = l THEN Abstract!Removed(Entries(l), i) ELSE Entries(m)]
  BY DEF OnlyIn
<1> QED BY <1>1 DEF Abstract!Drop, FirstAt

(* A list that an append changes, spoilt or not. *)
LEMMA AnyAppendStep ==
    ASSUME IInv, job.step = "append",
           NEW g \in {Appended(file[job.list], job.name)}
                     \cup CutAppended(file[job.list], job.name),
           Replace(job.list, g), UNCHANGED <<temp, tempOf>>,
           \/ struck' = struck \cup {job.list}
           \/ /\ struck' = struck /\ ~Mislaid(job.list)
              /\ \/ g.lines = file[job.list].lines
                 \/ g.lines = Append(file[job.list].lines, job.name)
    PROVE  Same \/ \E l \in Lists : Abstract!Spoil(l) \/ \E n \in AllNames : Abstract!Add(l, n)
<1> PICK l, f, n : l = job.list /\ f = file[l] /\ n = job.name
  OBVIOUS
<1>1. l \in Lists /\ n \in AllNames /\ g.there
  BY AppendedFile DEF AllNames
<1>2. file'[l] = g /\ \A m \in Lists \ {l} : file'[m] = file[m]
  BY <1>1 DEF Replace, IInv, Types
<1>3. OnlyIn(l)
  BY <1>2 DEF Entries, Mislaid, OnlyIn
<1>4. CASE struck' = struck \cup {l}
  BY <1>1, <1>3, <1>4, SpoilStep
<1>5. CASE struck' = struck /\ ~Mislaid(l)
  <2>1. Entries(l) = f.lines /\ Entries(l)' = g.lines
    BY <1>1, <1>2, <1>5 DEF Entries, Mislaid
  <2>2. CASE g.lines = f.lines
    BY <1>3, <1>5, <2>1, <2>2 DEF Same, OnlyIn
  <2>3. CASE g.lines = Append(f.lines, n)
    <3>1. n \notin Of(Entries(l))
      BY <2>1 DEF IInv, Appending
    <3> QED BY <1>1, <1>3, <1>5, <2>1, <2>3, <3>1, AddStep
  <2>4. CASE struck' = struck \cup {l}
    BY <1>4, <2>4
  <2> QED BY <2>2, <2>3, <2>4
<1> QED BY <1>4, <1>5

LEMMA AppendEntryStep ==
    ASSUME IInv, AppendEntry
    PROVE  Same \/ \E l \in Lists : Abstract!Spoil(l) \/ \E n \in AllNames : Abstract!Add(l, n)
<1> DEFINE f == file[job.list]
           g == Appended(f, job.name)
<1>1. job.step = "append" /\ Replace(job.list, g) /\ UNCHANGED <<temp, tempOf>>
  BY DEF AppendEntry
<1>2. \/ struck' = struck \cup {job.list}
      \/ struck' = struck /\ ~Mislaid(job.list) /\ g.lines = Append(f.lines, job.name)
  BY DEF AppendEntry, Strike, Appended, Holding
<1> HIDE DEF g
<1>3. g \in {Appended(file[job.list], job.name)} \cup CutAppended(file[job.list], job.name)
  BY DEF g
<1> QED BY <1>1, <1>2, <1>3, AnyAppendStep

LEMMA AppendOnFullDiskStep ==
    ASSUME IInv, AppendOnFullDisk
    PROVE  Same \/ \E l \in Lists : Abstract!Spoil(l) \/ \E n \in AllNames : Abstract!Add(l, n)
<1>1. PICK g \in CutAppended(file[job.list], job.name) :
          /\ Replace(job.list, g)
          /\ IF Mislaid(job.list) \/ Joined \in Line(g)
             THEN Strike(job.list) ELSE UNCHANGED struck
  BY DEF AppendOnFullDisk
<1>2. job.step = "append" /\ UNCHANGED <<temp, tempOf>>
  BY DEF AppendOnFullDisk
<1>3. CASE Mislaid(job.list) \/ Joined \in Line(g)
  BY <1>1, <1>2, <1>3, AnyAppendStep DEF Strike
<1>4. CASE ~Mislaid(job.list) /\ Joined \notin Line(g)
  <2>1. g.lines = file[job.list].lines \/ g.lines = Append(file[job.list].lines, job.name)
    BY <1>2, <1>4, AppendedFile
  <2> QED BY <1>1, <1>2, <1>4, <2>1, AnyAppendStep
<1> QED BY <1>3, <1>4

LEMMA RemoveListStep ==
    ASSUME IInv, RemoveList
    PROVE  Same \/ \E l \in Lists : Abstract!Spoil(l) \/ \E n \in AllNames : Abstract!Drop(l, n)
<1> USE DEF RemoveList
<1> PICK l, f, n : l = job.list /\ f = file[l].lines /\ n = job.name
  OBVIOUS
<1>1. /\ l \in Lists /\ n \in AllNames /\ f \in Seq(AllNames) /\ Len(f) \in Nat
      /\ file[l].there /\ temp.there /\ tempOf = l /\ job.at \in Nat
  BY JobTypes DEF IInv, Types, Files, Copying, AllNames
<1>2. job.at = Len(f) + 1 /\ Entries(l) = f
  BY <1>1 DEF IInv, Copying, Entries, Mislaid
<1>3. CASE UNCHANGED file
  BY <1>3 DEF Same, Entries, Mislaid
<1>4. CASE file' = [file EXCEPT ![l] = NoFile]
  <2>1. file'[l] = NoFile /\ \A m \in Lists \ {l} : file'[m] = file[m]
    BY <1>1, <1>4 DEF IInv, Types
  <2>2. OnlyIn(l) /\ Entries(l)' = temp.lines
    BY <1>1, <2>1 DEF Entries, Mislaid, NoFile, OnlyIn
  <2>3. CASE l \in struck
    <3>1. struck' = struck \cup {l}
      BY <2>3
    <3> QED BY <1>1, <2>2, <3>1, SpoilStep
  <2>4. CASE l \notin struck
    <3>1. PICK i \in DOMAIN f : FirstAt(f, n, i) /\ temp.lines = Kept(f, i, Len(f) + 1)
      BY <1>1, <1>2, <2>4 DEF IInv, Copying, Copied
    <3>2. temp.lines = Abstract!Removed(f, i)
      BY <1>1, <3>1, KeptAll
    <3>3. Abstract!Drop(l, n)
      BY <1>1, <1>2, <2>2, <3>1, <3>2, DropStep
    <3> QED BY <1>1, <3>3
  <2> QED BY <2>3, <2>4
<1> QED BY <1>3, <1>4 DEF Replace

LEMMA StartDeleteStep ==
    ASSUME IInv, NEW l \in Lists, NEW n \in Names, StartDelete(l, n)
    PROVE  Same \/ \E m \in Lists : Abstract!Spoil(m)
<1> USE DEF StartDelete
<1>1. file[l].there /\ tempOf \in Lists
  BY DEF IInv, Types, NoFile, Line
<1>2. \A m \in Lists : ~(Mislaid(m)')
  BY <1>1 DEF Mislaid
<1>3. CASE Mislaid(tempOf)
  <2>1. OnlyIn(tempOf)
    BY <1>2 DEF OnlyIn, Entries, Mislaid
  <2> QED BY <1>1, <1>3, <2>1, SpoilStep DEF Strike
<1>4. CASE ~Mislaid(tempOf)
  BY <1>2, <1>4 DEF Same, Entries, Mislaid
<1> QED BY <1>3, <1>4

LEMMA FullDiskStep ==
    ASSUME IInv, CopyOnFullDisk PROVE \E l \in Lists : Abstract!Spoil(l)
<1>1. job.list \in Lists
  BY JobTypes DEF IInv, CopyOnFullDisk
<1>2. OnlyIn(job.list) /\ struck' = struck \cup {job.list}
  BY DEF CopyOnFullDisk, OnlyIn, Entries, Mislaid, Strike
<1> QED BY <1>1, <1>2, SpoilStep

LEMMA RenameFailsStep ==
    ASSUME IInv, RenameFails PROVE Same \/ \E l \in Lists : Abstract!Spoil(l)
<1> USE DEF RenameFails
<1>1. job.list \in Lists /\ tempOf = job.list
  BY JobTypes DEF IInv, Renaming
<1>2. OnlyIn(job.list)
  BY <1>1 DEF OnlyIn, Entries, Mislaid
<1>3. CASE file[job.list].there
  BY <1>1, <1>3 DEF Same, Entries, Mislaid
<1>4. CASE ~file[job.list].there
  BY <1>1, <1>2, <1>4, SpoilStep DEF Strike
<1> QED BY <1>3, <1>4

LEMMA RenameCopyStep == ASSUME IInv, RenameCopy PROVE Same
<1> USE DEF RenameCopy
<1>1. job.list \in Lists /\ tempOf = job.list /\ temp.there
  BY JobTypes DEF IInv, Renaming
<1>2. file'[job.list] = temp /\ \A m \in Lists \ {job.list} : file'[m] = file[m]
  BY <1>1 DEF IInv, Types, Replace
<1> QED BY <1>1, <1>2 DEF Same, Entries, Mislaid, NoFile

LEMMA RenameByHandStep == ASSUME IInv, NEW l \in Lists, RenameByHand(l) PROVE Same
<1> USE DEF RenameByHand
<1>1. file'[l] = temp /\ \A m \in Lists \ {l} : file'[m] = file[m]
  BY DEF IInv, Types, Replace
<1> QED BY <1>1 DEF Same, Entries, Mislaid, NoFile

LEMMA CopyLineStep == ASSUME IInv, CopyLine PROVE Same
<1>1. file[job.list].there /\ tempOf = job.list /\ UNCHANGED <<file, tempOf, struck>>
  BY DEF IInv, Copying, CopyLine
<1> QED BY <1>1 DEF Same, Entries, Mislaid

LEMMA QuietStep ==
    ASSUME UNCHANGED <<file, temp, tempOf, struck>> PROVE Same
BY DEF Same, Entries, Mislaid

(* ListFiles implements NameLists: read with the copy for a list that is   *)
(* gone, posts.lst and pages.lst change by one whole entry at a time, also *)
(* when a command stops half way (scaffold.c:128-213).                     *)
THEOREM Implements == Spec => ListsKeepTheirNames
<1>1. Init => Abstract!Init
  <2> SUFFICES ASSUME Init PROVE Abstract!Init
    OBVIOUS
  <2>1. \A l \in Lists : Entries(l) \in Seq(AllNames)
    BY InitInv DEF IInv, Types, Files, Entries
  <2> QED BY <2>1 DEF Init, Abstract!Init, AllNames
<1>2. IInv /\ [Next]_vars => [Abstract!Next]_(Abstract!vars)
  <2> SUFFICES ASSUME IInv, [Next]_vars
               PROVE  Same \/ \E l \in Lists : \/ Abstract!Spoil(l)
                                               \/ \E n \in AllNames : Abstract!Add(l, n) \/ Abstract!Drop(l, n)
    BY SameStutters DEF Abstract!Next, AllNames
  <2>1. ASSUME NEW l \in Lists, NEW n \in Names, StartNew(l, n) \/ StartDelete(l, n)
        PROVE  Same \/ \E m \in Lists : Abstract!Spoil(m)
    BY <2>1, StartDeleteStep, QuietStep DEF StartNew
  <2>2. CASE AppendEntry \/ AppendOnFullDisk \/ CopyLine \/ RemoveList \/ RenameCopy
    BY <2>2, AppendEntryStep, AppendOnFullDiskStep, CopyLineStep, RemoveListStep, RenameCopyStep
  <2>3. CASE CopyOnFullDisk \/ RenameFails
    BY <2>3, FullDiskStep, RenameFailsStep
  <2>4. CASE RemoveSource \/ PowerOff \/ Build \/ UNCHANGED vars
    BY <2>4, QuietStep DEF RemoveSource, PowerOff, Build, vars
  <2>5. ASSUME NEW l \in Lists, RenameByHand(l) PROVE Same
    BY <2>5, RenameByHandStep
  <2> QED BY <2>1, <2>2, <2>3, <2>4, <2>5 DEF Next, Command, Fault
<1> QED BY <1>1, <1>2, AlwaysIInv, PTL DEF Spec, Abstract!Spec, ListsKeepTheirNames
=============================================================================
