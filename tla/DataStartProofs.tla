--------------------------- MODULE DataStartProofs ---------------------------
(***************************************************************************)
(* Proofs about DataStart, for every number of copies kept, of backups and *)
(* restores, of changes and of faults.  A restore that is over has brought *)
(* every file (RestoreIsWhole); a step on record has been carried out      *)
(* (RecordsAreTrue); once a file has been changed there is a copy of what  *)
(* was there before (FilesAreSafe).  All three follow from one inductive   *)
(* invariant, IInv: where the staged files are (Whole), what the copy in   *)
(* the making holds (Copying), which steps are left (Progress), that no    *)
(* file and no copy is ahead of another (Consistent), and which copy is    *)
(* young enough to be kept (KeptSafe).                                     *)
(***************************************************************************)
EXTENDS DataStart, SequenceTheorems, TLAPS

-----------------------------------------------------------------------------
(* The files, the steps and sequences of them *)

LEMMA FileNames ==
    /\ FileSet = {"avatars", "chats", "config"}
    /\ ToSet(Copied) = {"chats", "config"}
    /\ Copied \in Seq(FileSet)
<1>1. FileSet = {"avatars", "chats", "config"}
  BY DEF FileSet, Files, ToSet
<1>2. ToSet(Copied) = {"chats", "config"}
  BY DEF Copied, ToSet
<1>3. Copied \in Seq(FileSet)
  BY <1>1 DEF Copied
<1> QED
  BY <1>1, <1>2, <1>3

LEMMA StepNames ==
    /\ StepSet = {"connections", "ownership"}
    /\ ToSet(Steps) = StepSet /\ Steps \in Seq(StepSet)
    /\ Steps # <<>> /\ Head(Steps) = "connections"
    /\ Edits("connections") = <<"chats", "config">>
    /\ Edits("ownership") = <<"chats">>
    /\ ToSet(Edits("connections")) = {"chats", "config"}
    /\ ToSet(Edits("ownership")) = {"chats"}
<1>1. StepSet = {"connections", "ownership"}
  BY DEF StepSet, Steps, ToSet
<1>2. Steps \in Seq(StepSet) /\ Steps # <<>> /\ Head(Steps) = "connections"
  BY <1>1 DEF Steps
<1>3. Edits("connections") = <<"chats", "config">> /\ Edits("ownership") = <<"chats">>
  BY DEF Edits
<1>4. /\ ToSet(Edits("connections")) = {"chats", "config"}
      /\ ToSet(Edits("ownership")) = {"chats"}
  BY <1>3 DEF ToSet
<1> QED
  BY <1>1, <1>2, <1>3, <1>4 DEF StepSet

LEMMA EditsNames ==
    ASSUME NEW step \in StepSet
    PROVE  /\ Edits(step) \in Seq(FileSet) /\ Edits(step) # <<>>
           /\ "chats" \in ToSet(Edits(step)) /\ ToSet(Edits(step)) \subseteq FileSet
<1>1. step = "connections" \/ step = "ownership"
  BY StepNames
<1>2. <<"chats", "config">> \in Seq(FileSet) /\ <<"chats">> \in Seq(FileSet)
  BY FileNames
<1>3. {"chats", "config"} \subseteq FileSet
  BY FileNames
<1> DEFINE edits == Edits(step)
<1>4. \/ edits = <<"chats", "config">> /\ ToSet(edits) = {"chats", "config"}
      \/ edits = <<"chats">> /\ ToSet(edits) = {"chats"}
  BY <1>1, StepNames
<1> HIDE DEF edits
<1>5. edits \in Seq(FileSet) /\ edits # <<>>
  <2>1. CASE edits = <<"chats", "config">>
    BY <1>2, <2>1
  <2>2. CASE edits = <<"chats">>
    BY <1>2, <2>2
  <2> QED
    BY <1>4, <2>1, <2>2
<1>6. "chats" \in ToSet(edits) /\ ToSet(edits) \subseteq FileSet
  BY <1>3, <1>4
<1> QED
  BY <1>5, <1>6 DEF edits

LEMMA MembersOfTail ==
    ASSUME NEW S, NEW s \in Seq(S), s # <<>>
    PROVE  /\ ToSet(s) = {Head(s)} \cup ToSet(Tail(s))
           /\ Tail(s) \in Seq(S) /\ Head(s) \in S
<1>1. /\ Len(s) \in Nat /\ Len(s) # 0 /\ Head(s) = s[1] /\ DOMAIN s = 1 .. Len(s)
      /\ Tail(s) \in Seq(S) /\ DOMAIN Tail(s) = 1 .. Len(s) - 1
      /\ \A i \in 1 .. Len(s) - 1 : Tail(s)[i] = s[i + 1]
  OBVIOUS
<1>2. ASSUME NEW i \in DOMAIN s PROVE s[i] = Head(s) \/ s[i] \in ToSet(Tail(s))
  <2>1. CASE i = 1
    BY <1>1, <2>1
  <2>2. CASE i # 1
    <3>1. i - 1 \in DOMAIN Tail(s) /\ Tail(s)[i - 1] = s[i]
      BY <1>1, <2>2
    <3> QED
      BY <3>1 DEF ToSet
  <2> QED
    BY <2>1, <2>2
<1>3. ASSUME NEW i \in DOMAIN Tail(s) PROVE Tail(s)[i] \in ToSet(s)
  <2>1. i + 1 \in DOMAIN s /\ Tail(s)[i] = s[i + 1]
    BY <1>1
  <2> QED
    BY <2>1 DEF ToSet
<1>4. Head(s) \in ToSet(s)
  <2>1. 1 \in DOMAIN s /\ Head(s) = s[1]
    BY <1>1
  <2> QED
    BY <2>1 DEF ToSet
<1>5. ToSet(s) \subseteq {Head(s)} \cup ToSet(Tail(s))
  BY <1>2 DEF ToSet
<1>6. ToSet(Tail(s)) \subseteq ToSet(s)
  BY <1>3 DEF ToSet
<1>7. Tail(s) \in Seq(S) /\ Head(s) \in S
  OBVIOUS
<1> QED
  BY <1>4, <1>5, <1>6, <1>7

LEMMA NoMembers ==
    ToSet(<<>>) = {}
BY DEF ToSet

LEMMA SomeMember ==
    ASSUME NEW S, NEW s \in Seq(S), ToSet(s) # {}
    PROVE  s # <<>>
BY NoMembers

LEMMA MembersOfAppend ==
    ASSUME NEW S, NEW s \in Seq(S), NEW e
    PROVE  ToSet(Append(s, e)) = ToSet(s) \cup {e}
<1>1. /\ Len(s) \in Nat /\ DOMAIN s = 1 .. Len(s)
      /\ DOMAIN Append(s, e) = 1 .. Len(s) + 1
      /\ \A i \in 1 .. Len(s) : Append(s, e)[i] = s[i]
      /\ Append(s, e)[Len(s) + 1] = e
  OBVIOUS
<1> QED
  BY <1>1 DEF ToSet

LEMMA MembersAre ==
    ASSUME NEW S, NEW s \in Seq(S)
    PROVE  ToSet(s) \subseteq S /\ s \in Seq(ToSet(s))
<1>1. Len(s) \in Nat /\ DOMAIN s = 1 .. Len(s) /\ s \in [1 .. Len(s) -> S]
      /\ \A i \in 1 .. Len(s) : s[i] \in S
  BY Zenon, LenProperties, ElementOfSeq
<1>2. \A i \in 1 .. Len(s) : s[i] \in ToSet(s)
  BY <1>1 DEF ToSet
<1>3. s \in Seq(ToSet(s))
  <2>1. s \in [1 .. Len(s) -> ToSet(s)]
    BY <1>1, <1>2
  <2> DEFINE T == ToSet(s)
             k == Len(s)
  <2>2. k \in Nat /\ s \in [1 .. k -> T]
    BY <1>1, <2>1
  <2> HIDE DEF T, k
  <2>3. s \in UNION {[1 .. n -> T] : n \in Nat}
    BY <2>2
  <2>4. Seq(T) = UNION {[1 .. n -> T] : n \in Nat}
    BY SeqDef
  <2>5. s \in Seq(T)
    BY <2>3, <2>4, Zenon
  <2> QED
    BY <2>5 DEF T
<1>4. ToSet(s) \subseteq S
  <2> SUFFICES ASSUME NEW e \in ToSet(s) PROVE e \in S
    OBVIOUS
  <2>1. PICK i \in DOMAIN s : e = s[i]
    BY DEF ToSet
  <2> QED
    BY <1>1, <2>1
<1> QED
  BY <1>3, <1>4

-----------------------------------------------------------------------------
(* The copies *)

Copies == UNION {[names -> Content] : names \in SUBSET FileSet}

(* The type invariant, in terms of the set of all copies.                   *)
Types ==
    /\ data \in Data /\ before \in Data
    /\ dirs \in Seq(Copies) /\ taken \subseteq Copies
    /\ staging \in Copies /\ goal \in Copies
    /\ phase \in Phases
    /\ todo \in Seq(FileSet) /\ steps \in Seq(StepSet) /\ need \subseteq StepSet
    /\ wal \in BOOLEAN /\ marker \in BOOLEAN /\ laid \in BOOLEAN
    /\ touched \in BOOLEAN /\ served \in BOOLEAN /\ begun \in BOOLEAN
    /\ gaveUp \in BOOLEAN /\ parted \in BOOLEAN
    /\ made \in Nat /\ works \in 0 .. MaxWork /\ backed \in 0 .. MaxBackups
    /\ stages \in 0 .. MaxStages /\ faults \in 0 .. MaxFaults

LEMMA CopiesAre == \A files : IsCopy(files) <=> files \in Copies
<1>1. ASSUME NEW files, IsCopy(files) PROVE files \in Copies
  <2>1. Names(files) \in SUBSET FileSet /\ files \in [Names(files) -> Content]
    BY <1>1 DEF IsCopy
  <2> QED
    BY <2>1 DEF Copies
<1>2. ASSUME NEW files \in Copies PROVE IsCopy(files)
  <2>1. PICK names \in SUBSET FileSet : files \in [names -> Content]
    BY <1>2 DEF Copies
  <2>2. Names(files) = names
    BY <2>1 DEF Names
  <2> QED
    BY <2>1, <2>2 DEF IsCopy
<1> QED
  BY <1>1, <1>2

LEMMA Typed ==
    ASSUME Types
    PROVE  /\ dirs \in Seq(Copies) /\ ToSet(dirs) \subseteq Copies /\ taken \subseteq Copies
           /\ staging \in Copies /\ goal \in Copies
           /\ data \in Copies
           /\ \A files \in Copies : /\ Names(files) \subseteq FileSet
                                    /\ files \in [Names(files) -> Content]
           /\ Names(data) = FileSet
           /\ \A f \in FileSet : data[f] \in Content
           /\ \A files \in Copies : \A f \in Names(files) : files[f] \in Content
<1>1. /\ dirs \in Seq(Copies) /\ taken \subseteq Copies /\ staging \in Copies /\ goal \in Copies
      /\ data \in Data
  BY DEF Types
<1>2. ToSet(dirs) \subseteq Copies
  BY <1>1, MembersAre
<1>3. \A files \in Copies : Names(files) \subseteq FileSet /\ files \in [Names(files) -> Content]
  BY CopiesAre DEF IsCopy
<1>4. data \in [FileSet -> Content] /\ Names(data) = FileSet
  BY <1>1 DEF Data, Names
<1>5. data \in Copies
  BY <1>4 DEF Copies
<1> QED
  BY <1>1, <1>2, <1>3, <1>4, <1>5

LEMMA TypesAreRight ==
    ASSUME Types
    PROVE  TypeOK
<1>1. dirs \in Seq(ToSet(dirs)) /\ ToSet(dirs) \subseteq Copies
  BY MembersAre DEF Types
<1>2. \A files \in ToSet(dirs) \cup taken \cup {staging, goal} : IsCopy(files)
  BY <1>1, CopiesAre DEF Types
<1> QED
  BY <1>1, <1>2 DEF Types, TypeOK

LEMMA Contents ==
    /\ Old \in Content /\ Torn \in Content
    /\ NoFiles \in Copies /\ Names(NoFiles) = {}
<1>1. Old \in Content
  BY DEF Old, Content
<1>2. Torn \in Content
  BY BoundsAssumption DEF Torn, Content
<1>3. NoFiles \in [{} -> Content] /\ Names(NoFiles) = {}
  BY DEF NoFiles, Names
<1>4. NoFiles \in Copies
  BY <1>3 DEF Copies
<1> QED
  BY <1>1, <1>2, <1>3, <1>4

LEMMA WithIsCopy ==
    ASSUME Types, NEW files \in Copies, NEW f \in FileSet
    PROVE  /\ With(files, f) \in Copies
           /\ Names(With(files, f)) = Names(files) \cup {f}
           /\ With(files, f)[f] = data[f]
           /\ \A g \in Names(files) : g # f => With(files, f)[g] = files[g]
<1>1. Names(files) \subseteq FileSet /\ data[f] \in Content
      /\ \A g \in Names(files) : files[g] \in Content
  BY Typed
<1>2. /\ With(files, f) \in [Names(files) \cup {f} -> Content]
      /\ With(files, f)[f] = data[f]
      /\ \A g \in Names(files) : g # f => With(files, f)[g] = files[g]
  BY <1>1 DEF With, Names
<1>3. Names(files) \cup {f} \in SUBSET FileSet
  BY <1>1
<1>4. With(files, f) \in Copies
  BY <1>2, <1>3 DEF Copies
<1> QED
  BY <1>2, <1>4 DEF Names

LEMMA PartIsCopy ==
    ASSUME NEW files \in Copies, NEW names \in SUBSET Names(files)
    PROVE  /\ Part(files, names) \in Copies
           /\ Names(Part(files, names)) = names
           /\ \A f \in names : Part(files, names)[f] = files[f]
<1>1. IsCopy(files)
  BY CopiesAre
<1>2. /\ Part(files, names) \in [names -> Content] /\ names \in SUBSET FileSet
      /\ \A f \in names : Part(files, names)[f] = files[f]
  BY <1>1 DEF Part, IsCopy, Names
<1> QED
  BY <1>2 DEF Copies, Names

LEMMA NewestAre ==
    ASSUME NEW ds \in Seq(Copies)
    PROVE  /\ Newest(ds) \in Seq(Copies) /\ ToSet(Newest(ds)) \subseteq ToSet(ds)
           /\ ds # <<>> => Newest(ds) # <<>> /\ Newest(ds)[Len(Newest(ds))] = ds[Len(ds)]
           /\ Len(ds) > Keep =>
                /\ Len(Newest(ds)) = Keep
                /\ \A i \in 1 .. Len(ds) : Len(ds) < i + Keep =>
                     /\ i - (Len(ds) - Keep) \in 1 .. Keep
                     /\ Newest(ds)[i - (Len(ds) - Keep)] = ds[i]
           /\ ~(Len(ds) > Keep) => Newest(ds) = ds
<1>1. Keep \in Nat \ {0} /\ Len(ds) \in Nat
  BY BoundsAssumption
<1>2. CASE Len(ds) > Keep
  <2> DEFINE s == SubSeq(ds, Len(ds) - Keep + 1, Len(ds))
  <2>1. Newest(ds) = s
    BY <1>2 DEF Newest
  <2>2. /\ s \in Seq(Copies) /\ Len(s) = Keep
        /\ \A i \in 1 .. Keep : s[i] = ds[Len(ds) - Keep + i]
    BY <1>1, <1>2
  <2> HIDE DEF s
  <2>3. ToSet(s) \subseteq ToSet(ds)
    <3> SUFFICES ASSUME NEW i \in DOMAIN s PROVE s[i] \in ToSet(ds)
      BY DEF ToSet
    <3>1. i \in 1 .. Keep
      BY <2>2
    <3>2. Len(ds) - Keep + i \in DOMAIN ds
      BY <1>1, <1>2, <3>1
    <3> QED
      BY <2>2, <3>1, <3>2 DEF ToSet
  <2>4. s # <<>> /\ s[Len(s)] = ds[Len(ds)]
    BY <1>1, <2>2
  <2>5. ASSUME NEW i \in 1 .. Len(ds), Len(ds) < i + Keep
        PROVE  /\ i - (Len(ds) - Keep) \in 1 .. Keep
               /\ s[i - (Len(ds) - Keep)] = ds[i]
    <3>1. i - (Len(ds) - Keep) \in 1 .. Keep
      BY <1>1, <1>2, <2>5
    <3>2. Len(ds) - Keep + (i - (Len(ds) - Keep)) = i
      BY <1>1, <2>5
    <3> QED
      BY <2>2, <3>1, <3>2
  <2> QED
    BY <1>2, <2>1, <2>2, <2>3, <2>4, <2>5
<1>3. CASE ~(Len(ds) > Keep)
  BY <1>3 DEF Newest
<1> QED
  BY <1>2, <1>3

-----------------------------------------------------------------------------
(* The inductive invariant *)

(* The database comes first among the files that are left.                  *)
Ordered(s) == \A i, j \in DOMAIN s : s[i] = "config" /\ s[j] = "chats" => j < i

Starting == {"saving", "applying", "planning", "backing up", "migrating"}

(* What the marker, the folder and the list of files say of the phase.      *)
Shape ==
    /\ Ordered(todo)
    /\ laid => marker
    /\ ~laid => Names(staging) = {}
    /\ phase = "saving" => laid
    /\ phase = "applying" /\ ~laid => todo = <<>>
    /\ phase = "applying" => ToSet(todo) \subseteq Names(staging)
    /\ phase = "running" => served
    /\ phase \in Starting => ~served
    /\ \A f \in Names(staging) : f \in Names(goal) /\ staging[f] = goal[f]

(* A file the restore is to bring is staged still, or in its place.         *)
InPlace(f) == begun /\ data[f] = goal[f]
Whole ==
    ~gaveUp =>
        /\ laid /\ phase # "applying" =>
             \A f \in Names(goal) : f \in Names(staging) \/ InPlace(f)
        /\ phase = "applying" => \A f \in Names(goal) : f \in ToSet(todo) \/ InPlace(f)
        /\ laid /\ begun => phase \in {"down", "saving", "applying"}

(* The copy in the making holds the files as they are.                      *)
Kept == {"chats", "config"}
Copying ==
    phase \in {"saving", "backing up"} =>
        /\ dirs # <<>> /\ made # 0
        /\ ToSet(todo) \subseteq Kept
        /\ \A f \in Names(Last(dirs)) : Last(dirs)[f] = data[f]
        /\ \A f \in Kept : f \in ToSet(todo) \/ f \in Names(Last(dirs))

(* What a migration has left to do.                                         *)
LastFile(step) == IF step = "connections" THEN "config" ELSE "chats"
Due(step) == step \in need \/ step \in data["chats"].done \/ step \in data[LastFile(step)].steps
Progress ==
    /\ phase \in {"backing up", "migrating"} =>
         /\ \A step \in StepSet : step \in ToSet(steps) \/ step \in data["chats"].done
         /\ \A step \in ToSet(steps) : Due(step)
    /\ phase = "migrating" /\ todo # <<>> => steps # <<>> /\ Head(steps) \in need
    /\ phase = "migrating" /\ steps # <<>> /\ Head(steps) \in need =>
         \A f \in ToSet(Edits(Head(steps))) : f \in ToSet(todo) \/ Head(steps) \in data[f].steps
    /\ phase = "running" => StepSet \subseteq data["chats"].done

(* A copy whose database records no step that the copy lacks.               *)
Sound(files) ==
    /\ Names(files) # {} => "chats" \in Names(files)
    /\ "chats" \in Names(files) => files["chats"].done \subseteq files["chats"].steps
    /\ "config" \in Names(files) /\ "connections" \in files["chats"].done =>
         "connections" \in files["config"].steps
Matching == "connections" \in data["config"].steps => "connections" \in data["chats"].steps
CopiesSound == \A files \in ToSet(dirs) \cup taken \cup {goal} : Sound(files)
Aimed == begun => "chats" \in Names(goal)
Matched == (laid /\ begun) \/ Matching
Linked == "connections" \in data["config"].steps
StillLinked == laid => Linked \/ ("config" \in Names(goal) /\ InPlace("config"))
Coming ==
    /\ phase = "applying" /\ "chats" \in Names(goal) => "chats" \in ToSet(todo) \/ Belong(goal)
    /\ laid /\ phase # "applying" /\ "chats" \in Names(goal) =>
         "chats" \in Names(staging) \/ Belong(goal)
Clean == ~parted /\ ~gaveUp
Consistent ==
    Clean => CopiesSound /\ Sound(data) /\ Aimed /\ Matched /\ StillLinked /\ Coming

(* A copy of the files as the last session left them is young enough.       *)
Holds(files, was) == \A f \in Kept : f \in Names(files) /\ files[f] = was[f]
Settled(files) ==
    \/ StepSet \subseteq files["chats"].done
    \/ /\ files["chats"].done = {}
       /\ "connections" \notin files["config"].steps
       /\ "ownership" \notin files["chats"].steps
Saved == dirs # <<>> /\ made # 0 /\ Holds(Last(dirs), before)
Origins == Settled(before) /\ (served => Settled(data))
Untouched == ~served /\ ~touched => \A f \in Kept : data[f] = before[f]
SavedFirst ==
    ~served /\ ~touched =>
        /\ phase = "applying" => Saved
        /\ phase = "migrating" => IF need = {} THEN StepSet \subseteq data["chats"].done ELSE Saved
Needs ==
    /\ phase = "backing up" => need # {}
    /\ phase \in {"backing up", "migrating"} /\ ~touched =>
         need = {} \/ (need = StepSet /\ steps = Steps)
    /\ phase = "migrating" /\ ~touched /\ need # {} => todo # <<>>
HasCopy ==
    touched /\ made <= Keep =>
        \E i \in 1 .. Len(dirs) : Len(dirs) < i + made /\ Holds(dirs[i], before)
KeptSafe == Origins /\ Untouched /\ SavedFirst /\ Needs /\ HasCopy

IInv == Types /\ Shape /\ Whole /\ Copying /\ Progress /\ Consistent /\ KeptSafe

-----------------------------------------------------------------------------
(* The order of the files *)

LEMMA OrderOfTail ==
    ASSUME NEW s \in Seq(FileSet), s # <<>>, Ordered(s)
    PROVE  /\ Ordered(Tail(s))
           /\ Head(s) = "config" => "chats" \notin ToSet(s)
<1>1. /\ Len(s) \in Nat /\ Len(s) # 0 /\ Head(s) = s[1] /\ DOMAIN s = 1 .. Len(s)
      /\ DOMAIN Tail(s) = 1 .. Len(s) - 1
      /\ \A i \in 1 .. Len(s) - 1 : Tail(s)[i] = s[i + 1]
  OBVIOUS
<1>2. ASSUME NEW i \in DOMAIN Tail(s), NEW j \in DOMAIN Tail(s),
             Tail(s)[i] = "config", Tail(s)[j] = "chats"
      PROVE  j < i
  <2>1. i + 1 \in DOMAIN s /\ j + 1 \in DOMAIN s /\ s[i + 1] = "config" /\ s[j + 1] = "chats"
    BY <1>1, <1>2
  <2>2. j + 1 < i + 1
    BY <2>1 DEF Ordered
  <2> QED
    BY <1>1, <2>2
<1>3. ASSUME Head(s) = "config", NEW j \in DOMAIN s, s[j] = "chats" PROVE FALSE
  <2>1. 1 \in DOMAIN s /\ s[1] = "config"
    BY <1>1, <1>3
  <2>2. j < 1
    BY <1>3, <2>1 DEF Ordered
  <2> QED
    BY <1>1, <2>2
<1> QED
  BY <1>2, <1>3 DEF Ordered, ToSet

LEMMA OrderOfLists ==
    /\ Ordered(<<>>) /\ Ordered(Copied)
    /\ \A step \in StepSet : Ordered(Edits(step))
<1>1. Ordered(<<>>)
  BY DEF Ordered
<1>2. Ordered(<<"chats", "config">>) /\ Ordered(<<"chats">>)
  BY DEF Ordered
<1>3. Ordered(Copied)
  BY <1>2 DEF Copied
<1>4. ASSUME NEW step \in StepSet PROVE Ordered(Edits(step))
  <2>1. Edits(step) = <<"chats", "config">> \/ Edits(step) = <<"chats">>
    BY StepNames
  <2> QED
    BY <1>2, <2>1
<1> QED
  BY <1>1, <1>3, <1>4

LEMMA LastFileIs ==
    ASSUME NEW step \in StepSet
    PROVE  /\ Last(Edits(step)) = LastFile(step)
           /\ LastFile(step) \in FileSet /\ LastFile(step) \in ToSet(Edits(step))
<1>1. step = "connections" \/ step = "ownership"
  BY StepNames
<1>2. CASE step = "connections"
  BY <1>2, StepNames, FileNames DEF Last, LastFile
<1>3. CASE step = "ownership"
  <2>1. Edits(step) = <<"chats">> /\ ToSet(Edits(step)) = {"chats"} /\ LastFile(step) = "chats"
    BY <1>3, StepNames DEF LastFile
  <2> QED
    BY <2>1, FileNames DEF Last
<1> QED
  BY <1>1, <1>2, <1>3

(* A file in front of a list, if it is there.                               *)
LEMMA InFront ==
    ASSUME NEW f \in FileSet, NEW t \in Seq(FileSet), NEW there \in BOOLEAN, Ordered(t),
           f # "config" \/ t = <<>>,
           NEW s, s = IF there THEN <<f>> ELSE <<>>
    PROVE  /\ s \o t \in Seq(FileSet) /\ Ordered(s \o t)
           /\ ToSet(s \o t) = (IF there THEN {f} ELSE {}) \cup ToSet(t)
<1>1. CASE ~there
  <2>1. s = <<>>
    BY <1>1
  <2>2. s \o t = t
    BY <2>1
  <2> QED
    BY <1>1, <2>2
<1>2. CASE there
  <2>1. s \in Seq(FileSet) /\ Len(s) = 1 /\ s[1] = f
    BY <1>2
  <2>2. /\ s \o t \in Seq(FileSet) /\ Len(t) \in Nat
        /\ DOMAIN (s \o t) = 1 .. Len(t) + 1 /\ DOMAIN t = 1 .. Len(t)
        /\ (s \o t)[1] = f
        /\ \A i \in 1 .. Len(t) : (s \o t)[i + 1] = t[i]
    BY <2>1
  <2>3. \A i \in 1 .. Len(t) + 1 : i = 1 \/ (i - 1 \in 1 .. Len(t) /\ (s \o t)[i] = t[i - 1])
    <3> SUFFICES ASSUME NEW i \in 1 .. Len(t) + 1, i # 1
                 PROVE  i - 1 \in 1 .. Len(t) /\ (s \o t)[i] = t[i - 1]
      OBVIOUS
    <3>1. i - 1 \in 1 .. Len(t) /\ (i - 1) + 1 = i
      BY <2>2
    <3> QED
      BY <2>2, <3>1
  <2>4. ToSet(s \o t) = {f} \cup ToSet(t)
    <3>1. 1 \in DOMAIN (s \o t) /\ \A i \in DOMAIN t : i + 1 \in DOMAIN (s \o t)
      BY <2>2
    <3> DEFINE joined == s \o t
    <3>2. ASSUME NEW i \in DOMAIN joined PROVE joined[i] \in {f} \cup ToSet(t)
      <4>1. CASE i = 1
        BY <2>2, <4>1
      <4>2. CASE i # 1
        <5>1. i - 1 \in DOMAIN t /\ joined[i] = t[i - 1]
          BY <2>2, <2>3, <4>2
        <5> QED
          BY <5>1 DEF ToSet
      <4> QED
        BY <4>1, <4>2
    <3>3. ASSUME NEW i \in DOMAIN t PROVE t[i] \in ToSet(joined)
      <4>1. i + 1 \in DOMAIN joined /\ joined[i + 1] = t[i]
        BY <2>2, <3>1
      <4> QED
        BY <4>1 DEF ToSet
    <3>4. f \in ToSet(joined)
      <4>1. 1 \in DOMAIN joined /\ joined[1] = f
        BY <2>2, <3>1
      <4> QED
        BY <4>1 DEF ToSet
    <3> HIDE DEF joined
    <3>5. ToSet(joined) = {f} \cup ToSet(t)
      BY <3>2, <3>3, <3>4 DEF ToSet
    <3> QED
      BY <3>5 DEF joined
  <2>5. ASSUME NEW i \in DOMAIN (s \o t), NEW j \in DOMAIN (s \o t),
               (s \o t)[i] = "config", (s \o t)[j] = "chats"
        PROVE  j < i
    <3>1. i # 1
      <4>1. CASE f # "config"
        BY <2>2, <2>5, <4>1
      <4>2. CASE t = <<>>
        <5>1. Len(t) = 0
          BY <4>2
        <5>2. j = 1 /\ i = 1
          BY <2>2, <5>1
        <5> QED
          BY <2>2, <2>5, <5>2
      <4> QED
        BY <4>1, <4>2
    <3>2. i - 1 \in DOMAIN t /\ t[i - 1] = "config" /\ i \in Nat
      BY <2>2, <2>3, <2>5, <3>1
    <3>3. CASE j = 1
      BY <2>2, <3>2, <3>3
    <3>4. CASE j # 1
      <4>1. j - 1 \in DOMAIN t /\ t[j - 1] = "chats" /\ j \in Nat
        BY <2>2, <2>3, <2>5, <3>4
      <4>2. j - 1 < i - 1
        BY <3>2, <4>1 DEF Ordered
      <4> QED
        BY <3>2, <4>1, <4>2
    <3> QED
      BY <3>3, <3>4
  <2>6. Ordered(s \o t)
    BY <2>5 DEF Ordered
  <2> QED
    BY <1>2, <2>2, <2>4, <2>6
<1> QED
  BY <1>1, <1>2

(* The files that are staged, as a restore lists them.                      *)
LEMMA WhatToPut ==
    ASSUME Types
    PROVE  /\ ToPut \in Seq(FileSet) /\ Ordered(ToPut)
           /\ ToSet(ToPut) = Names(staging)
<1> DEFINE There(f) == f \in Names(staging)
           Only(f) == IF There(f) THEN {f} ELSE {}
<1>1. FileSet = {"avatars", "chats", "config"} /\ Names(staging) \subseteq FileSet
  BY Typed, FileNames DEF Types
<1>2. \A f : IfStaged(f) = IF There(f) THEN <<f>> ELSE <<>>
  BY DEF IfStaged
<1>6. \A f : There(f) \in BOOLEAN
  OBVIOUS
<1> HIDE DEF There
<1>3. /\ IfStaged("config") \in Seq(FileSet) /\ Ordered(IfStaged("config"))
      /\ ToSet(IfStaged("config")) = Only("config")
  <2>1. <<>> \in Seq(FileSet) /\ Ordered(<<>>)
    BY OrderOfLists
  <2>2. IfStaged("config") \o <<>> = IfStaged("config")
    BY <1>1, <1>2
  <2>3. /\ IfStaged("config") \o <<>> \in Seq(FileSet)
        /\ Ordered(IfStaged("config") \o <<>>)
        /\ ToSet(IfStaged("config") \o <<>>) = Only("config") \cup ToSet(<<>>)
    BY <1>1, <1>2, <2>1, InFront
  <2> QED
    BY <2>2, <2>3, NoMembers
<1>4. /\ NoFolders \in Seq(FileSet) /\ Ordered(NoFolders)
      /\ ToSet(NoFolders) = Only("chats") \cup Only("config")
  <2> DEFINE t == IfStaged("config")
  <2>1. /\ IfStaged("chats") \o t \in Seq(FileSet) /\ Ordered(IfStaged("chats") \o t)
        /\ ToSet(IfStaged("chats") \o t) = Only("chats") \cup ToSet(t)
    <3> HIDE DEF t
    <3>1. t \in Seq(FileSet) /\ Ordered(t) /\ "chats" \in FileSet
      BY <1>1, <1>3 DEF t
    <3> QED
      BY <1>2, <1>6, <3>1, InFront
  <2> QED
    BY <1>3, <2>1 DEF NoFolders
<1>5. /\ ToPut \in Seq(FileSet) /\ Ordered(ToPut)
      /\ ToSet(ToPut) = Only("avatars") \cup (Only("chats") \cup Only("config"))
  <2>1. /\ IfStaged("avatars") \o NoFolders \in Seq(FileSet)
        /\ Ordered(IfStaged("avatars") \o NoFolders)
        /\ ToSet(IfStaged("avatars") \o NoFolders) = Only("avatars") \cup ToSet(NoFolders)
    BY <1>1, <1>2, <1>4, <1>6, InFront
  <2> QED
    BY <1>4, <2>1 DEF ToPut
<1> QED
  BY <1>1, <1>5 DEF There

-----------------------------------------------------------------------------
(* What the steps that write to the files do *)

LEMMA EditDoes ==
    ASSUME Types, Progress, Edit
    PROVE  /\ steps # <<>> /\ Head(steps) \in need /\ Head(steps) \in StepSet
           /\ todo # <<>> /\ Head(todo) \in FileSet
           /\ data' \in Data
           /\ \A g \in FileSet :
                /\ data'[g].done = data[g].done
                /\ data'[g].steps = IF g = Head(todo) THEN data[g].steps \cup {Head(steps)}
                                                      ELSE data[g].steps
<1>1. phase = "migrating" /\ todo # <<>>
  BY DEF Edit
<1>2. steps # <<>> /\ Head(steps) \in need
  BY <1>1 DEF Progress
<1> DEFINE f == Head(todo)
           step == Head(steps)
<1>3. f \in FileSet /\ step \in StepSet
  <2>1. todo \in Seq(FileSet) /\ steps \in Seq(StepSet)
    BY DEF Types
  <2> QED
    BY <1>1, <1>2, <2>1
<1>4. data \in [FileSet -> Content]
  BY DEF Types, Data
<1>5. PICK n \in Nat : data' = [data EXCEPT ![f].steps = @ \cup {step}, ![f].conns = n]
  <2> DEFINE linked == f = "chats" /\ step = "connections"
             n == IF linked THEN data[f].conns + 1 ELSE data[f].conns
  <2>1. data[f].conns \in Nat
    BY <1>3, <1>4 DEF Content
  <2>2. n \in Nat
    BY <2>1
  <2>3. data' = [data EXCEPT ![f].steps = @ \cup {step}, ![f].conns = n]
    BY <1>3, <1>4 DEF Edit
  <2> QED
    BY <2>2, <2>3
<1> HIDE DEF f, step
<1>6. ASSUME NEW g \in FileSet
      PROVE  /\ data'[g] \in Content
             /\ data'[g].done = data[g].done
             /\ data'[g].steps = IF g = f THEN data[g].steps \cup {step} ELSE data[g].steps
  <2>1. data[g] \in Content
    BY <1>4
  <2>2. CASE g = f
    <3> DEFINE c == data[f]
    <3>1. data'[f] = [c EXCEPT !.steps = c.steps \cup {step}, !.conns = n]
      BY <1>3, <1>4, <1>5
    <3>2. c \in Content
      BY <2>1, <2>2
    <3> HIDE DEF c
    <3>3. /\ data'[f] \in Content
          /\ data'[f].done = c.done /\ data'[f].steps = c.steps \cup {step}
      BY <1>3, <3>1, <3>2 DEF Content
    <3> QED
      BY <2>2, <3>3 DEF c
  <2>3. CASE g # f
    BY <1>4, <1>5, <2>1, <2>3
  <2> QED
    BY <2>2, <2>3
<1>7. data' \in Data
  <2>1. data' \in [FileSet -> Content]
    BY <1>4, <1>5, <1>6
  <2> QED
    BY <2>1 DEF Data
<1> QED
  BY <1>1, <1>2, <1>3, <1>6, <1>7 DEF f, step

LEMMA RecordDoes ==
    ASSUME Types, Record
    PROVE  /\ steps # <<>> /\ Head(steps) \in StepSet
           /\ data' \in Data
           /\ \A g \in FileSet :
                /\ data'[g].steps = data[g].steps
                /\ data'[g].done = IF g = "chats" THEN data[g].done \cup {Head(steps)}
                                                  ELSE data[g].done
           /\ \A g \in FileSet : g # "chats" => data'[g] = data[g]
           /\ Head(steps) \in data["chats"].done => data' = data
<1>1. steps # <<>>
  BY DEF Record
<1> DEFINE step == Head(steps)
<1>2. step \in StepSet
  <2>1. steps \in Seq(StepSet)
    BY DEF Types
  <2> QED
    BY <1>1, <2>1
<1>3. "chats" \in FileSet
  BY FileNames
<1>4. data \in [FileSet -> Content] /\ data[ "chats"] \in Content
  BY <1>3 DEF Types, Data
<1>5. data' = [data EXCEPT !["chats"].done = @ \cup {step}]
  BY DEF Record
<1> HIDE DEF step
<1>6. data'["chats"] = [data["chats"] EXCEPT !.done = @ \cup {step}]
      /\ \A g \in FileSet : g # "chats" => data'[g] = data[g]
  BY <1>3, <1>4, <1>5
<1>7. /\ data'["chats"] \in Content
      /\ data'["chats"].steps = data["chats"].steps
      /\ data'["chats"].done = data["chats"].done \cup {step}
      /\ step \in data["chats"].done => data'["chats"] = data["chats"]
  <2> DEFINE c == data["chats"]
  <2>1. c \in Content /\ data'["chats"] = [c EXCEPT !.done = c.done \cup {step}]
    BY <1>4, <1>6
  <2> HIDE DEF c
  <2>2. /\ [c EXCEPT !.done = c.done \cup {step}] \in Content
        /\ [c EXCEPT !.done = c.done \cup {step}].steps = c.steps
        /\ [c EXCEPT !.done = c.done \cup {step}].done = c.done \cup {step}
    BY <1>2, <2>1 DEF Content
  <2>3. ASSUME step \in c.done PROVE [c EXCEPT !.done = c.done \cup {step}] = c
    <3>1. c.done \cup {step} = c.done
      BY <2>3
    <3>2. [c EXCEPT !.done = c.done] = c
      BY <2>1 DEF Content
    <3> QED
      BY <3>1, <3>2
  <2> QED
    BY <2>1, <2>2, <2>3 DEF c
<1>8. data' \in [FileSet -> Content]
  BY <1>3, <1>4, <1>5, <1>6, <1>7
<1>9. step \in data["chats"].done => data' = data
  BY <1>4, <1>6, <1>7, <1>8
<1> QED
  BY <1>1, <1>2, <1>6, <1>7, <1>8, <1>9 DEF Data, step

LEMMA WorkDoes ==
    ASSUME Types, NEW h \in FileSet, Work(h)
    PROVE  /\ data' \in Data
           /\ \A g \in FileSet : data'[g].steps = data[g].steps /\ data'[g].done = data[g].done
<1>1. data \in [FileSet -> Content] /\ works + 1 \in Nat
  BY DEF Types, Data
<1>2. data' = [data EXCEPT ![h].edition = works + 1]
  BY DEF Work
<1>3. ASSUME NEW g \in FileSet
      PROVE  /\ data'[g] \in Content
             /\ data'[g].steps = data[g].steps /\ data'[g].done = data[g].done
  <2>1. data[g] \in Content
    BY <1>1
  <2>2. CASE g = h
    <3>1. data'[h] = [data[h] EXCEPT !.edition = works + 1]
      BY <1>1, <1>2
    <3> QED
      BY <1>1, <2>1, <2>2, <3>1 DEF Content
  <2>3. CASE g # h
    BY <1>1, <1>2, <2>1, <2>3
  <2> QED
    BY <2>2, <2>3
<1>4. data' \in [FileSet -> Content]
  BY <1>1, <1>2, <1>3
<1> QED
  BY <1>3, <1>4 DEF Data

LEMMA DropDoes ==
    ASSUME Types, DropWal
    PROVE  /\ data' \in Data
           /\ data'["chats"].steps = {} /\ data'["chats"].done = {}
           /\ \A g \in FileSet : g # "chats" => data'[g] = data[g]
<1>1. data \in [FileSet -> Content] /\ "chats" \in FileSet /\ Torn \in Content
  BY FileNames, Contents DEF Types, Data
<1>2. data' = [data EXCEPT !["chats"] = Torn]
  BY DEF DropWal
<1>3. data' \in [FileSet -> Content] /\ data'["chats"] = Torn
      /\ \A g \in FileSet : g # "chats" => data'[g] = data[g]
  BY <1>1, <1>2
<1>4. Torn.steps = {} /\ Torn.done = {}
  BY DEF Torn
<1> QED
  BY <1>3, <1>4 DEF Data

LEMMA PutDoes ==
    ASSUME Types, Shape, Put
    PROVE  /\ Head(todo) \in FileSet /\ Head(todo) \in Names(staging)
           /\ Head(todo) \in Names(goal)
           /\ data' \in Data
           /\ data'[Head(todo)] = goal[Head(todo)]
           /\ \A g \in FileSet : g # Head(todo) => data'[g] = data[g]
<1>1. todo \in Seq(FileSet) /\ todo # <<>> /\ phase = "applying"
  BY DEF Types, Put
<1> DEFINE f == Head(todo)
<1>2. f \in ToSet(todo) /\ f \in FileSet
  BY <1>1, MembersOfTail
<1>3. f \in Names(staging)
  BY <1>1, <1>2 DEF Shape
<1>4. f \in Names(goal) /\ staging[f] = goal[f]
  BY <1>3 DEF Shape
<1>5. staging[f] \in Content
  BY <1>3, Typed DEF Types
<1>6. data \in [FileSet -> Content] /\ data' = [data EXCEPT ![f] = staging[f]]
  BY DEF Types, Data, Put
<1> QED
  BY <1>2, <1>3, <1>4, <1>5, <1>6 DEF Data

(* The copy in the making gains the next file.                              *)
LEMMA CopyAsideDoes ==
    ASSUME Types, Copying, CopyAside
    PROVE  /\ phase \in {"saving", "backing up"} /\ todo # <<>>
           /\ Head(todo) \in Kept /\ Head(todo) \in FileSet
           /\ ToSet(todo) = {Head(todo)} \cup ToSet(Tail(todo))
           /\ dirs # <<>> /\ dirs' \in Seq(Copies) /\ dirs' # <<>> /\ Len(dirs') = Len(dirs)
           /\ Last(dirs) \in Copies /\ Last(dirs') = With(Last(dirs), Head(todo))
           /\ \A i \in 1 .. Len(dirs) :
                \/ i = Len(dirs) /\ dirs'[i] = Last(dirs') /\ dirs[i] = Last(dirs)
                \/ dirs'[i] = dirs[i]
           /\ \A files \in ToSet(dirs') : files \in ToSet(dirs) \/ files = Last(dirs')
           /\ Last(dirs) \in ToSet(dirs)
<1>1. phase \in {"saving", "backing up"} /\ todo # <<>> /\ todo \in Seq(FileSet)
  BY DEF CopyAside, Types
<1>2. dirs # <<>> /\ ToSet(todo) \subseteq Kept
  BY <1>1 DEF Copying
<1> DEFINE f == Head(todo)
           new == With(Last(dirs), f)
           n == Len(dirs)
<1>3. f \in FileSet /\ f \in Kept /\ ToSet(todo) = {f} \cup ToSet(Tail(todo))
  BY <1>1, <1>2, MembersOfTail
<1>4. dirs \in Seq(Copies) /\ n \in Nat /\ n # 0 /\ DOMAIN dirs = 1 .. n /\ Last(dirs) = dirs[n]
      /\ dirs[n] \in Copies /\ n \in 1 .. n
  <2>1. dirs \in Seq(Copies)
    BY DEF Types
  <2> QED
    BY <1>2, <2>1 DEF Last
<1>5. dirs' = [dirs EXCEPT ![n] = new]
  BY <1>4 DEF CopyAside
<1>6. new \in Copies
  BY <1>3, <1>4, WithIsCopy
<1> HIDE DEF new, f
<1>7. dirs' \in Seq(Copies) /\ Len(dirs') = n /\ DOMAIN dirs' = 1 .. n
      /\ \A i \in 1 .. n : dirs'[i] = IF i = n THEN new ELSE dirs[i]
  BY <1>4, <1>5, <1>6
<1>8. dirs' # <<>> /\ Last(dirs') = new
  <2>1. dirs'[n] = new
    BY <1>4, <1>7
  <2> QED
    BY <1>4, <1>7, <2>1 DEF Last
<1>9. \A i \in 1 .. n : \/ i = n /\ dirs'[i] = Last(dirs') /\ dirs[i] = Last(dirs)
                        \/ dirs'[i] = dirs[i]
  BY <1>4, <1>7, <1>8
<1>10. ASSUME NEW files \in ToSet(dirs') PROVE files \in ToSet(dirs) \/ files = Last(dirs')
  <2>1. PICK i \in 1 .. n : files = dirs'[i]
    BY <1>7 DEF ToSet
  <2>2. dirs[i] \in ToSet(dirs)
    BY <1>4 DEF ToSet
  <2> QED
    BY <1>9, <2>1, <2>2
<1>11. Last(dirs) \in ToSet(dirs)
  BY <1>4 DEF ToSet
<1> QED
  BY <1>1, <1>2, <1>3, <1>4, <1>6, <1>7, <1>8, <1>9, <1>10, <1>11 DEF new, f

(* An empty copy is begun.                                                  *)
LEMMA NewCopy ==
    ASSUME Types, dirs' = Append(dirs, NoFiles)
    PROVE  /\ dirs' \in Seq(Copies) /\ dirs' # <<>> /\ Last(dirs') = NoFiles
           /\ Len(dirs') = Len(dirs) + 1 /\ Len(dirs) \in Nat
           /\ \A i \in 1 .. Len(dirs) : dirs'[i] = dirs[i]
           /\ ToSet(dirs') = ToSet(dirs) \cup {NoFiles}
<1>1. dirs \in Seq(Copies) /\ NoFiles \in Copies
  BY Contents DEF Types
<1>2. ToSet(dirs') = ToSet(dirs) \cup {NoFiles}
  BY <1>1, MembersOfAppend
<1>3. /\ dirs' \in Seq(Copies) /\ Len(dirs') = Len(dirs) + 1 /\ Len(dirs) \in Nat
      /\ \A i \in 1 .. Len(dirs) : dirs'[i] = dirs[i]
      /\ dirs'[Len(dirs) + 1] = NoFiles
  BY <1>1
<1>4. dirs' # <<>> /\ Last(dirs') = NoFiles
  BY <1>3 DEF Last
<1> QED
  BY <1>2, <1>3, <1>4

LEMMA EditedIs ==
    ASSUME NEW left \in Seq(StepSet)
    PROVE  /\ Edited(left) \in Seq(FileSet) /\ Ordered(Edited(left))
           /\ Edited(left) # <<>> => left # <<>> /\ Head(left) \in need
           /\ left # <<>> /\ Head(left) \in need =>
                Edited(left) = Edits(Head(left)) /\ Edited(left) # <<>>
<1>1. <<>> \in Seq(FileSet) /\ Ordered(<<>>)
  BY OrderOfLists
<1>2. CASE left # <<>> /\ Head(left) \in need
  <2>1. Head(left) \in StepSet /\ Edited(left) = Edits(Head(left))
    BY <1>2 DEF Edited
  <2> QED
    BY <1>2, <2>1, EditsNames, OrderOfLists
<1>3. CASE ~(left # <<>> /\ Head(left) \in need)
  BY <1>1, <1>3 DEF Edited
<1> QED
  BY <1>2, <1>3

-----------------------------------------------------------------------------
(* Every step keeps the types *)

LEMMA FirstTypes ==
    Init => Types
<1> SUFFICES ASSUME Init PROVE Types
  OBVIOUS
<1>1. data \in Data /\ before \in Data
  BY Contents DEF Init, Data
<1>2. staging \in Copies /\ goal \in Copies
  BY Contents DEF Init
<1>3. dirs \in Seq(Copies) /\ todo \in Seq(FileSet) /\ steps \in Seq(StepSet)
  BY DEF Init
<1>4. /\ works \in 0 .. MaxWork /\ backed \in 0 .. MaxBackups
      /\ stages \in 0 .. MaxStages /\ faults \in 0 .. MaxFaults /\ made \in Nat
  BY BoundsAssumption DEF Init
<1>5. phase \in Phases
  BY DEF Init, Phases
<1> QED
  BY <1>1, <1>2, <1>3, <1>4, <1>5 DEF Init, Types

LEMMA TypesStay ==
    ASSUME Types, Shape, Copying, Progress, Next
    PROVE  Types'
<1> USE DEF disk, restore, start, past, budget
<1>1. ASSUME NEW f \in FileSet, Work(f) PROVE Types'
  <2>1. data' \in Data
    BY <1>1, WorkDoes
  <2>2. works' \in 0 .. MaxWork
    BY <1>1, BoundsAssumption DEF Types, Work
  <2> QED
    BY <1>1, <2>1, <2>2 DEF Types, Work
<1>2. ASSUME NEW names \in {FileSet, {"chats"}}, TakeBackup(names) PROVE Types'
  <2>1. data \in Copies /\ names \in SUBSET Names(data)
    BY Typed, FileNames
  <2>2. Part(data, names) \in Copies
    BY <2>1, PartIsCopy
  <2>3. taken' \subseteq Copies
    BY <1>2, <2>2 DEF Types, TakeBackup
  <2>4. backed' \in 0 .. MaxBackups
    BY <1>2, BoundsAssumption DEF Types, TakeBackup
  <2> QED
    BY <1>2, <2>3, <2>4 DEF Types, TakeBackup
<1>3. ASSUME NEW files \in taken \cup ToSet(dirs), Stage(files) PROVE Types'
  <2>1. staging' \in Copies /\ goal' \in Copies
    BY <1>3, Typed DEF Stage
  <2>2. stages' \in 0 .. MaxStages
    BY <1>3, BoundsAssumption DEF Types, Stage
  <2> QED
    BY <1>3, <2>1, <2>2 DEF Types, Stage
<1>4. CASE Cancel
  BY <1>4, Contents DEF Types, Cancel
<1>5. CASE Stop
  BY <1>5 DEF Types, Stop, Phases
<1>6. CASE Crash
  <2>1. faults' \in 0 .. MaxFaults
    BY <1>6, BoundsAssumption DEF Types, Crash
  <2>2. todo' \in Seq(FileSet) /\ steps' \in Seq(StepSet) /\ need' \subseteq StepSet
    BY <1>6 DEF Crash
  <2> QED
    BY <1>6, <2>1, <2>2 DEF Types, Crash, Phases
<1>7. CASE Start
  <2>4. /\ before' = (IF served THEN data ELSE before)
        /\ touched' = (touched /\ ~served) /\ served' = FALSE
        /\ made' \in {0, 1, made, made + 1}
    BY <1>7 DEF Start
  <2>5. data \in Data /\ before \in Data /\ made \in Nat
    BY DEF Types
  <2>1. before' \in Data /\ touched' \in BOOLEAN /\ served' \in BOOLEAN /\ made' \in Nat
    <3>1. before' \in Data
      BY <2>4, <2>5
    <3>2. touched' \in BOOLEAN /\ served' \in BOOLEAN
      BY <2>4
    <3>3. made' \in Nat
      BY <2>4, <2>5
    <3> QED
      BY <3>1, <3>2, <3>3
  <2>2. phase' \in Phases /\ todo' \in Seq(FileSet)
    BY <1>7, FileNames DEF Types, Start, Phases
  <2>3. dirs' \in Seq(Copies)
    BY <1>7, NewCopy DEF Types, Start
  <2> QED
    BY <1>7, <2>1, <2>2, <2>3 DEF Types, Start
<1>8. CASE CopyAside
  <2>1. dirs' \in Seq(Copies)
    BY <1>8, CopyAsideDoes
  <2>2. todo' \in Seq(FileSet)
    BY <1>8, MembersOfTail DEF Types, CopyAside
  <2> QED
    BY <1>8, <2>1, <2>2 DEF Types, CopyAside
<1>9. CASE CopyFails
  <2>4. /\ faults < MaxFaults /\ faults' = faults + 1
        /\ todo' = <<>> /\ steps' = <<>> /\ need' = {}
    BY <1>9 DEF CopyFails
  <2>5. faults \in 0 .. MaxFaults
    BY DEF Types
  <2>1. faults' \in 0 .. MaxFaults
    BY <2>4, <2>5, BoundsAssumption
  <2>2. todo' \in Seq(FileSet) /\ steps' \in Seq(StepSet) /\ need' \subseteq StepSet
    BY <2>4
  <2>3. phase' \in Phases /\ gaveUp' \in BOOLEAN
    BY <1>9 DEF CopyFails, AfterFull, Phases, Types
  <2> QED
    BY <1>9, <2>1, <2>2, <2>3 DEF Types, CopyFails
<1>10. CASE Apply
  BY <1>10, WhatToPut DEF Types, Apply, Phases
<1>11. CASE DropWal
  <2>1. data' \in Data
    BY <1>11, DropDoes
  <2> QED
    BY <1>11, <2>1 DEF Types, DropWal
<1>12. CASE Put
  <2>1. data' \in Data
    BY <1>12, PutDoes
  <2>2. todo' \in Seq(FileSet)
    BY <1>12, MembersOfTail DEF Types, Put
  <2>3. parted' \in BOOLEAN
    BY <1>12 DEF Types, Put
  <2> QED
    BY <1>12, <2>1, <2>2, <2>3 DEF Types, Put
<1>13. CASE Clear
  <2>1. staging' \in Copies /\ laid' \in BOOLEAN
    <3>1. CASE staging = NoFiles
      BY <1>13, <3>1 DEF Types, Clear
    <3>2. CASE staging # NoFiles
      <4>1. PICK f \in Names(staging) : staging' = Part(staging, Names(staging) \ {f})
        BY <1>13, <3>2 DEF Clear
      <4>2. staging \in Copies /\ Names(staging) \ {f} \in SUBSET Names(staging)
        BY DEF Types
      <4>3. staging' \in Copies
        BY <4>1, <4>2, PartIsCopy
      <4> QED
        BY <1>13, <3>2, <4>3 DEF Types, Clear
    <3> QED
      BY <3>1, <3>2
  <2> QED
    BY <1>13, <2>1 DEF Types, Clear
<1>14. CASE Unmark
  BY <1>14, Contents DEF Types, Unmark, Phases
<1>15. CASE Plan
  <2>1. need' \subseteq StepSet /\ steps' \in Seq(StepSet)
    BY <1>15, StepNames DEF Plan, Planned
  <2>3. /\ dirs' = Append(dirs, NoFiles) \/ dirs' = dirs
        /\ made' = made + 1 \/ made' = made
        /\ phase' \in {"backing up", "migrating"}
        /\ todo' = Copied \/ todo' = <<>>
    BY <1>15 DEF Plan, Opened
  <2>4. dirs' \in Seq(Copies)
    BY <2>3, NewCopy DEF Types
  <2>5. todo' \in Seq(FileSet)
    <3>1. Copied \in Seq(FileSet) /\ <<>> \in Seq(FileSet)
      BY FileNames
    <3> QED
      BY <2>3, <3>1
  <2>6. made' \in Nat
    <3>1. made \in Nat
      BY DEF Types
    <3>2. made' = made + 1 \/ made' = made
      BY <2>3
    <3> QED
      BY <3>1, <3>2
  <2>7. phase' \in Phases
    BY <2>3 DEF Phases
  <2>2. /\ dirs' \in Seq(Copies) /\ made' \in Nat /\ phase' \in Phases
        /\ todo' \in Seq(FileSet)
    BY <2>4, <2>5, <2>6, <2>7
  <2> QED
    BY <1>15, <2>1, <2>2 DEF Types, Plan
<1>16. CASE BackedUp
  <2>1. dirs' \in Seq(Copies)
    BY <1>16, NewestAre DEF Types, BackedUp
  <2>2. todo' \in Seq(FileSet)
    BY <1>16, EditedIs DEF Types, BackedUp
  <2> QED
    BY <1>16, <2>1, <2>2 DEF Types, BackedUp, Phases
<1>17. CASE Edit
  <2>1. data' \in Data
    BY <1>17, EditDoes
  <2>2. todo' \in Seq(FileSet)
    BY <1>17, MembersOfTail DEF Types, Edit
  <2>3. wal' \in BOOLEAN
    BY <1>17 DEF Types, Edit
  <2> QED
    BY <1>17, <2>1, <2>2, <2>3 DEF Types, Edit
<1>18. CASE Record
  <2>1. data' \in Data
    BY <1>18, RecordDoes
  <2>2. steps' \in Seq(StepSet)
    BY <1>18, MembersOfTail DEF Types, Record
  <2>3. todo' \in Seq(FileSet)
    <3>1. Tail(steps) \in Seq(StepSet)
      BY <1>18, MembersOfTail DEF Types, Record
    <3> QED
      BY <1>18, <3>1, EditedIs DEF Record
  <2> QED
    BY <1>18, <2>1, <2>2, <2>3 DEF Types, Record
<1>19. CASE Serve
  BY <1>19 DEF Types, Serve, Phases
<1> QED
  BY <1>1, <1>2, <1>3, <1>4, <1>5, <1>6, <1>7, <1>8, <1>9, <1>10, <1>11, <1>12, <1>13,
     <1>14, <1>15, <1>16, <1>17, <1>18, <1>19 DEF Next

LEMMA TypesStutter ==
    ASSUME Types, UNCHANGED vars
    PROVE  Types'
BY DEF Types, vars, disk, restore, start, past, budget

-----------------------------------------------------------------------------
(* What is staged is in its place, or staged still *)

LEMMA ShapeStays ==
    ASSUME Types, Shape, Copying, Progress, Next
    PROVE  Shape'
<1> USE DEF disk, restore, start, past, budget
<1>1. CASE \/ \E f \in FileSet : Work(f)
           \/ \E names \in {FileSet, {"chats"}} : TakeBackup(names)
           \/ DropWal
  <2>1. UNCHANGED <<todo, phase, laid, marker, staging, goal, served>>
    BY <1>1 DEF Work, TakeBackup, DropWal
  <2> QED
    BY <2>1 DEF Shape
<1>2. ASSUME NEW files \in taken \cup ToSet(dirs), Stage(files) PROVE Shape'
  <2>1. /\ laid' /\ marker' /\ phase' = phase /\ phase = "running" /\ todo' = todo
        /\ served' = served /\ staging' = files /\ goal' = files
    BY <1>2 DEF Stage
  <2> QED
    BY <2>1 DEF Shape, Starting
<1>3. CASE Cancel
  <2>1. /\ ~laid' /\ phase' = phase /\ phase = "running" /\ todo' = todo
        /\ served' = served /\ staging' = NoFiles
    BY <1>3 DEF Cancel
  <2> QED
    BY <2>1, Contents DEF Shape, Starting
<1>4. CASE Stop
  BY <1>4 DEF Shape, Starting, Stop
<1>5. CASE Crash
  BY <1>5, OrderOfLists DEF Shape, Starting, Crash
<1>6. CASE Start
  <2>1. /\ ~served' /\ phase' \in {"saving", "planning"} /\ todo' \in {todo, Copied}
        /\ phase' = "saving" => laid
        /\ UNCHANGED <<laid, marker, staging, goal>>
    BY <1>6 DEF Start, Applicable
  <2>2. Ordered(todo')
    BY <2>1, OrderOfLists DEF Shape
  <2> QED
    BY <2>1, <2>2 DEF Shape
<1>7. CASE CopyAside
  <2>1. /\ phase \in {"saving", "backing up"} /\ todo # <<>> /\ todo' = Tail(todo)
        /\ UNCHANGED <<phase, laid, marker, staging, goal, served>>
    BY <1>7 DEF CopyAside
  <2>2. Ordered(todo')
    BY <2>1, OrderOfTail DEF Types, Shape
  <2> QED
    BY <2>1, <2>2 DEF Shape
<1>8. CASE CopyFails
  <2>1. /\ phase \in {"saving", "backing up"} /\ phase' \in {"planning", "down"} /\ todo' = <<>>
        /\ UNCHANGED <<laid, marker, staging, goal, served>>
    BY <1>8 DEF CopyFails, AfterFull
  <2>2. Ordered(todo')
    BY <2>1, OrderOfLists
  <2> QED
    BY <2>1, <2>2 DEF Shape, Starting
<1>9. CASE Apply
  <2>1. /\ phase = "saving" /\ phase' = "applying" /\ todo' = ToPut
        /\ UNCHANGED <<laid, marker, staging, goal, served>>
    BY <1>9 DEF Apply
  <2>2. Ordered(todo') /\ ToSet(todo') = Names(staging)
    BY <2>1, WhatToPut
  <2> QED
    BY <2>1, <2>2 DEF Shape, Starting
<1>10. CASE Put
  <2>1. /\ phase = "applying" /\ todo # <<>> /\ todo' = Tail(todo)
        /\ UNCHANGED <<phase, laid, marker, staging, goal, served>>
    BY <1>10 DEF Put
  <2>2. Ordered(todo') /\ ToSet(todo') \subseteq ToSet(todo)
    BY <2>1, OrderOfTail, MembersOfTail DEF Types, Shape
  <2> QED
    BY <2>1, <2>2 DEF Shape
<1>11. CASE Clear
  <2>1. /\ phase = "applying" /\ todo = <<>>
        /\ UNCHANGED <<phase, todo, marker, goal, served>>
    BY <1>11 DEF Clear
  <2>2. laid' => laid
    BY <1>11 DEF Clear
  <2>3. ToSet(todo') = {}
    BY <2>1, NoMembers
  <2>5. ~laid' => Names(staging') = {}
    <3>1. CASE staging = NoFiles
      BY <1>11, <3>1, Contents DEF Clear
    <3>2. CASE staging # NoFiles
      <4>1. laid' = laid /\ laid
        BY <1>11, <3>2 DEF Clear
      <4> QED
        BY <4>1
    <3> QED
      BY <3>1, <3>2
  <2>4. \A f \in Names(staging') : f \in Names(staging) /\ staging'[f] = staging[f]
    <3>1. CASE staging' = staging
      BY <3>1
    <3>2. CASE staging' # staging
      <4>1. PICK f \in Names(staging) : staging' = Part(staging, Names(staging) \ {f})
        BY <1>11, <3>2 DEF Clear
      <4>2. staging \in Copies /\ Names(staging) \ {f} \in SUBSET Names(staging)
        BY DEF Types
      <4> QED
        BY <4>1, <4>2, PartIsCopy
    <3> QED
      BY <3>1, <3>2
  <2> QED
    BY <2>1, <2>2, <2>3, <2>4, <2>5 DEF Shape
<1>12. CASE Unmark
  <2>1. /\ ~laid' /\ ~laid /\ phase' = "planning" /\ phase = "applying" /\ goal' = NoFiles
        /\ UNCHANGED <<todo, staging, served>>
    BY <1>12 DEF Unmark
  <2> QED
    BY <2>1 DEF Shape, Starting
<1>13. CASE Plan
  <2>1. /\ phase = "planning" /\ phase' \in {"backing up", "migrating"} /\ todo' \in {<<>>, Copied}
        /\ UNCHANGED <<laid, marker, staging, goal, served>>
    BY <1>13 DEF Plan, Opened
  <2>2. Ordered(todo')
    BY <2>1, OrderOfLists
  <2> QED
    BY <2>1, <2>2 DEF Shape, Starting
<1>14. CASE BackedUp \/ Record
  <2>1. /\ phase \in {"backing up", "migrating"} /\ phase' = "migrating"
        /\ UNCHANGED <<laid, marker, staging, goal, served>>
    BY <1>14 DEF BackedUp, Record
  <2>2. Ordered(todo')
    <3>1. CASE BackedUp
      BY <3>1, EditedIs DEF BackedUp, Types
    <3>2. CASE Record
      <4>1. Tail(steps) \in Seq(StepSet)
        BY <3>2, MembersOfTail DEF Types, Record
      <4> QED
        BY <3>2, <4>1, EditedIs DEF Record
    <3> QED
      BY <1>14, <3>1, <3>2
  <2> QED
    BY <2>1, <2>2 DEF Shape, Starting
<1>15. CASE Edit
  <2>1. /\ phase = "migrating" /\ todo # <<>> /\ todo' = Tail(todo)
        /\ UNCHANGED <<phase, laid, marker, staging, goal, served>>
    BY <1>15 DEF Edit
  <2>2. Ordered(todo')
    BY <2>1, OrderOfTail DEF Types, Shape
  <2> QED
    BY <2>1, <2>2 DEF Shape
<1>16. CASE Serve
  BY <1>16 DEF Shape, Starting, Serve
<1> QED
  BY <1>1, <1>2, <1>3, <1>4, <1>5, <1>6, <1>7, <1>8, <1>9, <1>10, <1>11, <1>12, <1>13,
     <1>14, <1>15, <1>16 DEF Next

LEMMA WholeStays ==
    ASSUME Types, Shape, Whole, Copying, Progress, Next
    PROVE  Whole'
<1> USE DEF disk, restore, start, past, budget
<1> SUFFICES ASSUME ~gaveUp'
             PROVE  /\ laid' /\ phase' # "applying" =>
                         \A f \in Names(goal') : f \in Names(staging') \/ InPlace(f)'
                    /\ phase' = "applying" =>
                         \A f \in Names(goal') : f \in ToSet(todo') \/ InPlace(f)'
                    /\ laid' /\ begun' => phase' \in {"down", "saving", "applying"}
  BY DEF Whole
<1>0. ~gaveUp
  BY DEF Next, Work, TakeBackup, Stage, Cancel, Stop, Crash, Start, CopyAside, CopyFails, Apply,
         DropWal, Put, Clear, Unmark, Plan, BackedUp, Edit, Record, Serve
<1>1. CASE \/ \E f \in FileSet : Work(f)
           \/ Edit \/ Record
  <2>1. /\ phase \in {"running", "migrating"}
        /\ UNCHANGED <<phase, laid, staging, goal, begun>>
    BY <1>1 DEF Work, Edit, Record
  <2> QED
    BY <1>0, <2>1 DEF Whole, InPlace
<1>2. CASE \/ \E names \in {FileSet, {"chats"}} : TakeBackup(names)
           \/ Stop \/ CopyAside \/ Plan \/ BackedUp \/ Serve
  <2>1. /\ phase # "applying" /\ phase' # "applying"
        /\ phase \in {"down", "saving", "applying"} => phase' \in {"down", "saving", "applying"}
        /\ UNCHANGED <<laid, staging, goal, begun, data>>
    BY <1>2 DEF TakeBackup, Stop, CopyAside, Plan, Opened, BackedUp, Serve
  <2> QED
    BY <1>0, <2>1 DEF Whole, InPlace
<1>3. ASSUME NEW files \in taken \cup ToSet(dirs), Stage(files) PROVE Whole'
  BY <1>3 DEF Whole, Stage
<1>4. CASE Cancel
  BY <1>4 DEF Cancel
<1>5. CASE Crash
  <2>1. phase' = "down" /\ UNCHANGED <<laid, staging, goal, begun, data>>
    BY <1>5 DEF Crash
  <2> QED
    BY <1>0, <2>1 DEF Whole, Shape, InPlace
<1>6. CASE Start
  <2>1. /\ phase = "down" /\ phase' \in {"saving", "planning"}
        /\ laid /\ marker => phase' = "saving"
        /\ UNCHANGED <<laid, staging, goal, begun, data>>
    BY <1>6 DEF Start, Applicable
  <2> QED
    BY <1>0, <2>1 DEF Whole, Shape, InPlace
<1>7. CASE CopyFails
  <2>1. /\ phase \in {"saving", "backing up"} /\ phase' \in {"planning", "down"}
        /\ phase = "saving" => ~begun
        /\ phase = "backing up" => phase' = "down"
        /\ UNCHANGED <<laid, staging, goal, begun, data>>
    BY <1>7 DEF CopyFails, AfterFull
  <2> QED
    BY <1>0, <2>1 DEF Whole, InPlace
<1>8. CASE Apply
  <2>1. /\ phase = "saving" /\ phase' = "applying" /\ todo' = ToPut
        /\ UNCHANGED <<laid, staging, goal, begun, data>>
    BY <1>8 DEF Apply
  <2>2. ToSet(todo') = Names(staging) /\ laid
    BY <2>1, WhatToPut DEF Shape
  <2> QED
    BY <1>0, <2>1, <2>2 DEF Whole, InPlace
<1>9. CASE DropWal
  <2>1. /\ phase = "applying" /\ todo # <<>> /\ Head(todo) = "chats" /\ begun'
        /\ UNCHANGED <<phase, laid, staging, goal, todo>>
    BY <1>9 DEF DropWal
  <2>2. "chats" \in ToSet(todo)
    BY <2>1, MembersOfTail DEF Types
  <2>3. ASSUME NEW f \in Names(goal), f \notin ToSet(todo) PROVE InPlace(f)'
    <3>1. data[f] = goal[f] /\ f # "chats"
      BY <1>0, <2>1, <2>2, <2>3 DEF Whole, InPlace
    <3>2. f \in FileSet
      BY Typed
    <3> QED
      BY <1>9, <2>1, <3>1, <3>2, DropDoes DEF InPlace
  <2> QED
    BY <2>1, <2>3
<1>10. CASE Put
  <2>1. /\ phase = "applying" /\ todo # <<>> /\ todo' = Tail(todo) /\ begun'
        /\ UNCHANGED <<phase, laid, staging, goal>>
    BY <1>10 DEF Put
  <2>2. ToSet(todo) = {Head(todo)} \cup ToSet(todo')
    BY <2>1, MembersOfTail DEF Types
  <2>3. ASSUME NEW f \in Names(goal), f \notin ToSet(todo') PROVE InPlace(f)'
    <3>1. CASE f = Head(todo)
      BY <1>10, <2>1, <3>1, PutDoes DEF InPlace
    <3>2. CASE f # Head(todo)
      <4>1. data[f] = goal[f] /\ f \in FileSet
        BY <1>0, <2>1, <2>2, <2>3, <3>2, Typed DEF Whole, InPlace
      <4> QED
        BY <1>10, <2>1, <3>2, <4>1, PutDoes DEF InPlace
    <3> QED
      BY <3>1, <3>2
  <2> QED
    BY <2>1, <2>3
<1>11. CASE Clear
  <2>1. phase = "applying" /\ UNCHANGED <<phase, goal, todo, begun, data>>
    BY <1>11 DEF Clear
  <2> QED
    BY <1>0, <2>1 DEF Whole, InPlace
<1>12. CASE Unmark
  BY <1>12 DEF Unmark
<1> QED
  BY <1>1, <1>2, <1>3, <1>4, <1>5, <1>6, <1>7, <1>8, <1>9, <1>10, <1>11, <1>12 DEF Next, Whole

(* A restore that is over has brought every file it was to bring.           *)
LEMMA OverIsWhole ==
    ASSUME Types, Shape, Whole, Next, phase = "applying", phase' = "planning", ~gaveUp
    PROVE  \A f \in Names(goal) : data[f] = goal[f]
<1> USE DEF disk, restore, start, past, budget
<1>1. ~laid
  BY DEF Next, Work, TakeBackup, Stage, Cancel, Stop, Crash, Start, CopyAside, CopyFails, Apply,
         DropWal, Put, Clear, Unmark, Plan, BackedUp, Edit, Record, Serve
<1>2. ToSet(todo) = {}
  BY <1>1, NoMembers DEF Shape
<1> QED
  BY <1>2 DEF Whole, InPlace

-----------------------------------------------------------------------------
(* The copy in the making, and the steps that are left *)

LEMMA CopyingStays ==
    ASSUME Types, Copying, Next
    PROVE  Copying'
<1> USE DEF disk, restore, start, past, budget
<1>1. CASE Start \/ Plan
  <2>1. CASE phase' \notin {"saving", "backing up"}
    BY <2>1 DEF Copying
  <2>2. CASE phase' \in {"saving", "backing up"}
    <3>1. /\ dirs' = Append(dirs, NoFiles) /\ todo' = Copied
          /\ made' \in {1, made + 1} /\ made \in Nat
      BY <1>1, <2>2 DEF Start, Plan, Opened, Types
    <3>2. ToSet(todo') = Kept /\ made' # 0
      <4>1. made' # 0
        BY <3>1
      <4> QED
        BY <3>1, <4>1, FileNames DEF Kept
    <3>3. dirs' # <<>> /\ Last(dirs') = NoFiles
      BY <3>1, NewCopy
    <3> QED
      BY <3>2, <3>3, Contents DEF Copying
  <2> QED
    BY <2>1, <2>2
<1>2. CASE CopyAside
  <2> DEFINE f == Head(todo)
             last == Last(dirs)
  <2>1. /\ phase \in {"saving", "backing up"} /\ f \in Kept /\ f \in FileSet
        /\ ToSet(todo) = {f} \cup ToSet(todo') /\ dirs # <<>> /\ dirs' # <<>>
        /\ last \in Copies /\ Last(dirs') = With(last, f)
        /\ UNCHANGED <<phase, data, made>>
    BY <1>2, CopyAsideDoes DEF CopyAside
  <2>2. /\ made # 0 /\ ToSet(todo) \subseteq Kept
        /\ \A g \in Names(last) : last[g] = data[g]
        /\ \A g \in Kept : g \in ToSet(todo) \/ g \in Names(last)
    BY <2>1 DEF Copying
  <2> HIDE DEF f, last
  <2> DEFINE new == With(last, f)
  <2>4. /\ Names(new) = Names(last) \cup {f} /\ new[f] = data[f]
        /\ \A g \in Names(last) : g # f => new[g] = last[g]
    BY <2>1, WithIsCopy
  <2> HIDE DEF new
  <2>3. /\ Names(new) = Names(last) \cup {f} /\ Last(dirs') = new
        /\ \A g \in Names(new) : new[g] = data[g]
    BY <2>1, <2>2, <2>4 DEF new
  <2> QED
    BY <2>1, <2>2, <2>3 DEF Copying
<1>3. CASE ~(Start \/ Plan \/ CopyAside)
  <2>1. phase' \notin {"saving", "backing up"}
    BY <1>3 DEF Next, Work, TakeBackup, Stage, Cancel, Stop, Crash, CopyFails, AfterFull, Apply,
         DropWal, Put, Clear, Unmark, BackedUp, Edit, Record, Serve
  <2> QED
    BY <2>1 DEF Copying
<1> QED
  BY <1>1, <1>2, <1>3

LEMMA StepIsTailOrHead ==
    ASSUME Types, steps # <<>>
    PROVE  /\ ToSet(steps) = {Head(steps)} \cup ToSet(Tail(steps))
           /\ Tail(steps) \in Seq(StepSet) /\ Head(steps) \in StepSet
BY MembersOfTail DEF Types

LEMMA ProgressStays ==
    ASSUME Types, Progress, Next
    PROVE  Progress'
<1> USE DEF disk, restore, start, past, budget
<1>0. "chats" \in FileSet /\ \A step \in StepSet : LastFile(step) \in FileSet
  BY FileNames, LastFileIs
<1>1. ASSUME NEW f \in FileSet, Work(f) PROVE Progress'
  <2>1. phase = "running" /\ phase' = phase
    BY <1>1 DEF Work
  <2>2. data'["chats"].done = data["chats"].done
    BY <1>0, <1>1, WorkDoes
  <2> QED
    BY <2>1, <2>2 DEF Progress
<1>2. CASE \/ \E names \in {FileSet, {"chats"}} : TakeBackup(names)
           \/ \E files \in taken \cup ToSet(dirs) : Stage(files)
           \/ Cancel
  <2>1. phase = "running" /\ UNCHANGED <<phase, data>>
    BY <1>2 DEF TakeBackup, Stage, Cancel
  <2> QED
    BY <2>1 DEF Progress
<1>3. CASE Stop \/ Crash \/ Start \/ CopyFails \/ Apply \/ DropWal \/ Put \/ Clear \/ Unmark
  <2>1. phase' \notin {"running", "backing up", "migrating"}
    BY <1>3 DEF Stop, Crash, Start, CopyFails, AfterFull, Apply, DropWal, Put, Clear, Unmark
  <2> QED
    BY <2>1 DEF Progress
<1>4. CASE CopyAside
  <2>1. /\ phase \in {"saving", "backing up"}
        /\ UNCHANGED <<phase, data, steps, need>>
    BY <1>4 DEF CopyAside
  <2> QED
    BY <2>1 DEF Progress, Due
<1>5. CASE Plan
  <2>1. /\ phase' \in {"backing up", "migrating"} /\ data' = data
        /\ need' = Planned /\ steps' = Steps
        /\ phase' = "migrating" => need' = {} /\ todo' = <<>>
    BY <1>5 DEF Plan, Opened
  <2>2. ToSet(steps') = StepSet /\ steps' # <<>>
    BY <2>1, StepNames
  <2>3. ASSUME NEW step \in StepSet PROVE Due(step)'
    <3>1. step \in Planned <=> step \notin data["chats"].done /\ step \notin data[LastFile(step)].steps
      BY LastFileIs DEF Planned, Lacks
    <3> QED
      BY <2>1, <3>1 DEF Due
  <2> QED
    BY <2>1, <2>2, <2>3 DEF Progress
<1>6. CASE BackedUp
  <2>1. /\ phase = "backing up" /\ phase' = "migrating" /\ todo' = Edited(steps)
        /\ UNCHANGED <<data, steps, need>>
    BY <1>6 DEF BackedUp
  <2>2. /\ Edited(steps) # <<>> => steps # <<>> /\ Head(steps) \in need
        /\ steps # <<>> /\ Head(steps) \in need => Edited(steps) = Edits(Head(steps))
    BY EditedIs DEF Types
  <2> QED
    BY <2>1, <2>2 DEF Progress, Due
<1>7. CASE Edit
  <2>1. /\ phase = "migrating" /\ todo' = Tail(todo) /\ UNCHANGED <<phase, steps, need>>
    BY <1>7 DEF Edit
  <2> DEFINE f == Head(todo)
             step == Head(steps)
  <2>2. /\ steps # <<>> /\ step \in need /\ step \in StepSet /\ todo # <<>> /\ f \in FileSet
        /\ \A g \in FileSet :
             /\ data'[g].done = data[g].done
             /\ data'[g].steps = IF g = f THEN data[g].steps \cup {step} ELSE data[g].steps
    BY <1>7, EditDoes
  <2>3. ToSet(todo) = {f} \cup ToSet(todo')
    BY <2>1, <2>2, MembersOfTail DEF Types
  <2>4. ToSet(steps) \subseteq StepSet /\ ToSet(Edits(step)) \subseteq FileSet
    BY <2>2, MembersAre, EditsNames DEF Types
  <2> HIDE DEF f, step
  <2>5. ASSUME NEW s \in ToSet(steps), Due(s) PROVE Due(s)'
    <3>1. LastFile(s) \in FileSet
      BY <1>0, <2>4
    <3> QED
      BY <1>0, <2>1, <2>2, <2>5, <3>1 DEF Due
  <2>6. ASSUME NEW g \in ToSet(Edits(step)), g \in ToSet(todo) \/ step \in data[g].steps
        PROVE  g \in ToSet(todo') \/ step \in data'[g].steps
    <3>1. g \in FileSet
      BY <2>4
    <3>2. CASE g = f
      BY <2>2, <3>1, <3>2
    <3>3. CASE g # f
      BY <2>2, <2>3, <2>6, <3>1, <3>3
    <3> QED
      BY <3>2, <3>3
  <2>7. \A s \in StepSet : s \in ToSet(steps') \/ s \in data'["chats"].done
    BY <1>0, <2>1, <2>2 DEF Progress
  <2>8. \A s \in ToSet(steps') : Due(s)'
    BY <2>1, <2>5 DEF Progress
  <2>9. \A g \in ToSet(Edits(Head(steps'))) : g \in ToSet(todo') \/ Head(steps') \in data'[g].steps
    <3>1. Head(steps') = step /\ step = Head(steps)
      BY <2>1 DEF step
    <3>2. \A g \in ToSet(Edits(step)) : g \in ToSet(todo) \/ step \in data[g].steps
      BY <2>1, <2>2, <3>1 DEF Progress
    <3> QED
      BY <2>6, <3>1, <3>2
  <2>10. phase' = "migrating" /\ steps' # <<>> /\ Head(steps') \in need'
    BY <2>1, <2>2 DEF step
  <2> QED
    BY <2>7, <2>8, <2>9, <2>10 DEF Progress
<1>8. CASE Record
  <2>1. /\ phase = "migrating" /\ todo' = Edited(steps') /\ steps' = Tail(steps)
        /\ UNCHANGED <<phase, need>>
    BY <1>8 DEF Record
  <2> DEFINE step == Head(steps)
  <2>2. /\ steps # <<>> /\ step \in StepSet
        /\ \A g \in FileSet :
             /\ data'[g].steps = data[g].steps
             /\ data'[g].done = IF g = "chats" THEN data[g].done \cup {step} ELSE data[g].done
    BY <1>8, RecordDoes
  <2>3. ToSet(steps) = {step} \cup ToSet(steps') /\ steps' \in Seq(StepSet)
    BY <2>1, <2>2, StepIsTailOrHead
  <2>4. ToSet(steps) \subseteq StepSet
    BY MembersAre DEF Types
  <2> HIDE DEF step
  <2>5. ASSUME NEW s \in ToSet(steps') PROVE Due(s)'
    <3>1. LastFile(s) \in FileSet /\ Due(s)
      BY <1>0, <2>1, <2>3, <2>4 DEF Progress
    <3> QED
      BY <1>0, <2>1, <2>2, <3>1 DEF Due
  <2>6. \A s \in StepSet : s \in ToSet(steps') \/ s \in data'["chats"].done
    BY <1>0, <2>1, <2>2, <2>3 DEF Progress
  <2>7. Edited(steps') = IF steps' # <<>> /\ Head(steps') \in need THEN Edits(Head(steps')) ELSE <<>>
    BY DEF Edited
  <2> QED
    BY <2>1, <2>5, <2>6, <2>7 DEF Progress
<1>9. CASE Serve
  <2>1. /\ phase = "migrating" /\ steps = <<>> /\ phase' = "running" /\ data' = data
    BY <1>9 DEF Serve
  <2>2. ToSet(steps) = {}
    BY <2>1, NoMembers
  <2> QED
    BY <2>1, <2>2 DEF Progress
<1> QED
  BY <1>1, <1>2, <1>3, <1>4, <1>5, <1>6, <1>7, <1>8, <1>9 DEF Next

-----------------------------------------------------------------------------
(* No record of a step that was not carried out *)

LEMMA SoundFiles ==
    ASSUME NEW d \in Data
    PROVE  Sound(d) <=> /\ d["chats"].done \subseteq d["chats"].steps
                        /\ "connections" \in d["chats"].done =>
                             "connections" \in d["config"].steps
<1>1. Names(d) = FileSet
  BY DEF Data, Names
<1> QED
  BY <1>1, FileNames DEF Sound

LEMMA SoundCopy ==
    ASSUME Types, Sound(data), NEW files,
           \A f \in Names(files) : files[f] = data[f],
           Names(files) # {} => "chats" \in Names(files)
    PROVE  Sound(files)
BY SoundFiles DEF Sound, Types

LEMMA SoundNothing == Sound(NoFiles)
BY Contents DEF Sound

LEMMA CleanBefore ==
    ASSUME Types, Next, Clean'
    PROVE  Clean
BY DEF Clean, Types, Next, Work, TakeBackup, Stage, Cancel, Stop, Crash, Start, CopyAside, CopyFails,
       Apply, DropWal, Put, Clear, Unmark, Plan, BackedUp, Edit, Record, Serve, disk, restore,
       start, past, budget

LEMMA CopiesStaySound ==
    ASSUME Types, Shape, Copying, CopiesSound, Sound(data), Next
    PROVE  CopiesSound'
<1> USE DEF disk, restore, start, past, budget
<1>1. ASSUME NEW names \in {FileSet, {"chats"}}, TakeBackup(names) PROVE CopiesSound'
  <2> DEFINE new == Part(data, names)
  <2>1. /\ Names(new) = names /\ \A f \in names : new[f] = data[f]
        /\ "chats" \in names
    <3>1. data \in Copies /\ names \in SUBSET Names(data) /\ "chats" \in names
      BY Typed, FileNames
    <3> QED
      BY <3>1, PartIsCopy
  <2>2. taken' = taken \cup {new} /\ UNCHANGED <<dirs, goal>>
    BY <1>1 DEF TakeBackup
  <2> HIDE DEF new
  <2>3. Sound(new)
    BY <2>1, SoundCopy
  <2> QED
    BY <2>2, <2>3 DEF CopiesSound
<1>2. ASSUME NEW files \in taken \cup ToSet(dirs), Stage(files) PROVE CopiesSound'
  BY <1>2 DEF CopiesSound, Stage
<1>3. CASE Cancel \/ Unmark
  BY <1>3, SoundNothing DEF CopiesSound, Cancel, Unmark
<1>4. CASE Start \/ Plan
  <2>1. UNCHANGED <<taken, goal>> /\ (dirs' = dirs \/ dirs' = Append(dirs, NoFiles))
    BY <1>4 DEF Start, Plan, Opened
  <2>2. ToSet(dirs') \subseteq ToSet(dirs) \cup {NoFiles}
    BY <2>1, NewCopy
  <2> QED
    BY <2>1, <2>2, SoundNothing DEF CopiesSound
<1>5. CASE CopyAside
  <2> DEFINE f == Head(todo)
             last == Last(dirs)
             new == With(last, f)
  <2>1. /\ phase \in {"saving", "backing up"} /\ todo # <<>> /\ f \in Kept /\ f \in FileSet
        /\ last \in Copies /\ Last(dirs') = new
        /\ \A files \in ToSet(dirs') : files \in ToSet(dirs) \/ files = new
        /\ UNCHANGED <<taken, goal>>
    BY <1>5, CopyAsideDoes DEF CopyAside
  <2>2. /\ \A g \in Names(last) : last[g] = data[g]
        /\ \A g \in Kept : g \in ToSet(todo) \/ g \in Names(last)
    BY <2>1 DEF Copying
  <2>3. f = "config" => "chats" \notin ToSet(todo)
    BY <2>1, OrderOfTail DEF Types, Shape
  <2> HIDE DEF f, last
  <2>4. /\ Names(new) = Names(last) \cup {f} /\ new[f] = data[f]
        /\ \A g \in Names(last) : g # f => new[g] = last[g]
    BY <2>1, WithIsCopy
  <2> HIDE DEF new
  <2>5. "chats" \in Names(new)
    BY <2>1, <2>2, <2>3, <2>4 DEF Kept
  <2>6. Sound(new)
    BY <2>2, <2>4, <2>5, SoundCopy
  <2> QED
    BY <2>1, <2>6 DEF CopiesSound
<1>6. CASE BackedUp
  <2>1. ToSet(dirs') \subseteq ToSet(dirs) /\ UNCHANGED <<taken, goal>>
    BY <1>6, NewestAre DEF BackedUp, Types
  <2> QED
    BY <2>1 DEF CopiesSound
<1>7. CASE \/ \E f \in FileSet : Work(f)
           \/ Stop \/ Crash \/ CopyFails \/ Apply \/ DropWal \/ Put \/ Clear \/ Edit \/ Record \/ Serve
  <2>1. UNCHANGED <<dirs, taken, goal>>
    BY <1>7 DEF Work, Stop, Crash, CopyFails, Apply, DropWal, Put, Clear, Edit, Record, Serve
  <2> QED
    BY <2>1 DEF CopiesSound
<1> QED
  BY <1>1, <1>2, <1>3, <1>4, <1>5, <1>6, <1>7 DEF Next

(* The files a step writes to, and what it leaves as it was.                *)
LEMMA OnlyWriters ==
    ASSUME Next
    PROVE  \/ data' = data
           \/ \E f \in FileSet : Work(f)
           \/ DropWal \/ Put \/ Edit \/ Record
BY DEF Next, TakeBackup, Stage, Cancel, Stop, Crash, Start, CopyAside, CopyFails,
       Apply, Clear, Unmark, Plan, BackedUp, Serve, disk, restore, start, past, budget

(* The first of its files that a step has yet to edit is the database.      *)
LEMMA DatabaseFirst ==
    ASSUME Types, Shape, Progress, Edit, Head(todo) = "config"
    PROVE  Head(steps) \in data["chats"].steps
<1>1. /\ steps # <<>> /\ Head(steps) \in need /\ Head(steps) \in StepSet
      /\ todo # <<>> /\ phase = "migrating"
  BY EditDoes DEF Edit
<1>2. "chats" \notin ToSet(todo)
  BY <1>1, OrderOfTail DEF Types, Shape
<1>3. "chats" \in ToSet(Edits(Head(steps)))
  BY <1>1, EditsNames
<1> QED
  BY <1>1, <1>2, <1>3 DEF Progress

(* A step that is recorded has been carried out.                            *)
LEMMA CarriedOut ==
    ASSUME Types, Whole, Progress, Sound(data), Matched, Record, Clean
    PROVE  /\ Head(steps) \in data["chats"].steps
           /\ Head(steps) = "connections" => "connections" \in data["config"].steps
<1> DEFINE step == Head(steps)
<1>1. phase = "migrating" /\ steps # <<>> /\ todo = <<>>
  BY DEF Record, Through
<1>2. step \in StepSet /\ step \in ToSet(steps)
  BY <1>1, StepIsTailOrHead
<1>3. ToSet(todo) = {}
  BY <1>1, NoMembers
<1>4. CASE step \in need
  <2>1. \A f \in ToSet(Edits(step)) : step \in data[f].steps
    BY <1>1, <1>3, <1>4 DEF Progress
  <2>2. "chats" \in ToSet(Edits(step)) /\ (step = "connections" => "config" \in ToSet(Edits(step)))
    BY <1>2, EditsNames, StepNames
  <2> QED
    BY <2>1, <2>2
<1>5. CASE step \in data["chats"].done
  BY <1>5, SoundFiles DEF Types
<1>6. CASE step \in data[LastFile(step)].steps
  <2>1. CASE step = "connections"
    <3>1. ~(laid /\ begun)
      BY <1>1 DEF Clean, Whole
    <3> QED
      BY <1>6, <2>1, <3>1 DEF LastFile, Matched, Matching
  <2>2. CASE step # "connections"
    BY <1>6, <2>2 DEF LastFile
  <2> QED
    BY <2>1, <2>2
<1> QED
  BY <1>1, <1>2, <1>4, <1>5, <1>6 DEF Progress, Due

(* The database a restore puts back belongs with the roster, which is there. *)
LEMMA RosterIsThere ==
    ASSUME Types, Shape, Whole, Consistent, Clean, Clean', Put
    PROVE  /\ Head(todo) = "chats" =>
                /\ "config" \in Names(goal)
                /\ goal["config"].steps \subseteq goal["chats"].steps
                /\ "connections" \in goal["chats"].done => Linked
           /\ Head(todo) = "config" =>
                "chats" \in Names(goal) /\ data["chats"] = goal["chats"]
<1>1. Sound(goal) /\ Head(todo) \in Names(goal) /\ todo # <<>> /\ phase = "applying"
  BY PutDoes DEF Consistent, CopiesSound, Put
<1>2. laid
  BY <1>1 DEF Shape
<1>3. ASSUME Head(todo) = "chats"
      PROVE  /\ Belong(goal)
             /\ "connections" \in goal["chats"].done => Linked
  <2>1. Belong(goal)
    BY <1>3 DEF Put, Clean
  <2>2. ASSUME "connections" \in goal["chats"].done, ~Linked PROVE FALSE
    <3>1. data["config"] = goal["config"] /\ "config" \in Names(goal)
      BY <1>2, <2>2 DEF Consistent, StillLinked, InPlace
    <3>2. "connections" \in goal["config"].steps
      BY <1>1, <2>2, <3>1 DEF Sound
    <3> QED
      BY <2>2, <3>1, <3>2 DEF Linked
  <2> QED
    BY <2>1, <2>2
<1>4. ASSUME Head(todo) = "config"
      PROVE  "chats" \in Names(goal) /\ data["chats"] = goal["chats"]
  <2>1. "chats" \in Names(goal)
    BY <1>1 DEF Sound
  <2>2. "chats" \notin ToSet(todo)
    BY <1>1, <1>4, OrderOfTail DEF Types, Shape
  <2> QED
    BY <1>1, <2>1, <2>2 DEF Whole, Clean, InPlace
<1> QED
  BY <1>3, <1>4 DEF Belong

LEMMA DataStaysSound ==
    ASSUME Types, Types', Shape, Whole, Progress, Consistent, Next, Clean, Clean'
    PROVE  Sound(data)'
<1> DEFINE Good(d) == /\ d["chats"].done \subseteq d["chats"].steps
                      /\ "connections" \in d["chats"].done => "connections" \in d["config"].steps
<1>0. "chats" \in FileSet /\ "config" \in FileSet
  BY FileNames
<1>1. data \in Data /\ data' \in Data /\ Sound(data)
  BY DEF Types, Consistent
<1>2. Good(data)
  BY <1>1, SoundFiles
<1>3. ASSUME NEW f \in FileSet, Work(f) PROVE Good(data')
  BY <1>0, <1>2, <1>3, WorkDoes
<1>4. ASSUME DropWal PROVE Good(data')
  BY <1>4, DropDoes
<1>5. ASSUME Put PROVE Good(data')
  <2>1. /\ data'[Head(todo)] = goal[Head(todo)] /\ Head(todo) \in Names(goal)
        /\ \A g \in FileSet : g # Head(todo) => data'[g] = data[g]
    BY <1>5, PutDoes
  <2>2. Sound(goal)
    BY DEF Consistent, CopiesSound
  <2>3. CASE Head(todo) = "chats"
    <3>1. "connections" \in goal["chats"].done => Linked
      BY <1>5, <2>3, RosterIsThere
    <3> QED
      BY <1>0, <2>1, <2>2, <2>3, <3>1 DEF Sound, Linked
  <2>4. CASE Head(todo) = "config"
    <3>1. "chats" \in Names(goal) /\ data["chats"] = goal["chats"]
      BY <1>5, <2>4, RosterIsThere
    <3> QED
      BY <1>0, <2>1, <2>2, <2>4, <3>1 DEF Sound
  <2>5. CASE Head(todo) # "chats" /\ Head(todo) # "config"
    BY <1>0, <1>2, <2>1, <2>5
  <2> QED
    BY <2>3, <2>4, <2>5
<1>6. ASSUME Edit PROVE Good(data')
  <2>1. \A g \in FileSet : data'[g].done = data[g].done /\ data[g].steps \subseteq data'[g].steps
    BY <1>6, EditDoes
  <2> QED
    BY <1>0, <1>2, <2>1
<1>7. ASSUME Record PROVE Good(data')
  <2>1. \A g \in FileSet :
          /\ data'[g].steps = data[g].steps
          /\ data'[g].done = IF g = "chats" THEN data[g].done \cup {Head(steps)} ELSE data[g].done
    BY <1>7, RecordDoes
  <2>2. /\ Head(steps) \in data["chats"].steps
        /\ Head(steps) = "connections" => "connections" \in data["config"].steps
    BY <1>1, <1>7, CarriedOut DEF Consistent
  <2> QED
    BY <1>0, <1>2, <2>1, <2>2
<1>8. Good(data')
  BY <1>2, <1>3, <1>4, <1>5, <1>6, <1>7, OnlyWriters
<1>9. \A d \in Data : Good(d) => Sound(d)
  BY SoundFiles
<1>10. Sound(data')
  BY <1>1, <1>8, <1>9
<1> QED
  BY <1>10 DEF Sound, Names

LEMMA AimedStays ==
    ASSUME Types, Shape, CopiesSound, Aimed, Next
    PROVE  Aimed'
<1> USE DEF disk, restore, start, past, budget
<1>1. CASE (\E files \in taken \cup ToSet(dirs) : Stage(files)) \/ Cancel \/ Unmark
  <2>1. ~begun'
    BY <1>1 DEF Stage, Cancel, Unmark
  <2> QED
    BY <2>1 DEF Aimed
<1>2. CASE DropWal
  <2>1. goal' = goal /\ phase = "applying" /\ todo # <<>> /\ Head(todo) = "chats"
    BY <1>2 DEF DropWal
  <2>2. "chats" \in ToSet(todo)
    BY <2>1, MembersOfTail DEF Types
  <2> QED
    BY <2>1, <2>2 DEF Aimed, Shape
<1>3. CASE Put
  <2>1. goal' = goal /\ Head(todo) \in Names(goal)
    BY <1>3, PutDoes DEF Put
  <2> QED
    BY <2>1 DEF Aimed, CopiesSound, Sound
<1>4. CASE ~(\/ \E files \in taken \cup ToSet(dirs) : Stage(files)
             \/ Cancel \/ Unmark \/ DropWal \/ Put)
  <2>1. UNCHANGED <<goal, begun>>
    BY <1>4 DEF Next, Work, TakeBackup, Stop, Crash, Start, CopyAside, CopyFails,
       Apply, Clear, Plan, BackedUp, Edit, Record, Serve
  <2> QED
    BY <2>1 DEF Aimed
<1> QED
  BY <1>1, <1>2, <1>3, <1>4

(* The steps that are carried out stay so where nothing is put back.        *)
LEMMA MarksStay ==
    ASSUME Types, Progress,
           (\E f \in FileSet : Work(f)) \/ Edit \/ Record \/ data' = data
    PROVE  \A f \in FileSet : data[f].steps \subseteq data'[f].steps
<1>1. ASSUME NEW h \in FileSet, Work(h) PROVE \A f \in FileSet : data[f].steps \subseteq data'[f].steps
  BY <1>1, WorkDoes
<1>2. CASE Edit
  BY <1>2, EditDoes
<1>3. CASE Record
  BY <1>3, RecordDoes
<1>4. CASE data' = data
  BY <1>4
<1> QED
  BY <1>1, <1>2, <1>3, <1>4

LEMMA MatchingStays ==
    ASSUME Types, Shape, Progress, Matching,
           (\E f \in FileSet : Work(f)) \/ Edit \/ Record \/ data' = data
    PROVE  Matching'
<1>0. "chats" \in FileSet /\ "config" \in FileSet
  BY FileNames
<1>1. ASSUME NEW h \in FileSet, Work(h) PROVE Matching'
  BY <1>0, <1>1, WorkDoes DEF Matching
<1>2. CASE Edit
  <2>1. \A g \in FileSet :
          data'[g].steps = IF g = Head(todo) THEN data[g].steps \cup {Head(steps)} ELSE data[g].steps
    BY <1>2, EditDoes
  <2>2. CASE Head(todo) = "config"
    <3>1. Head(steps) \in data["chats"].steps
      BY <1>2, <2>2, DatabaseFirst
    <3> QED
      BY <1>0, <2>1, <2>2, <3>1 DEF Matching
  <2>3. CASE Head(todo) # "config"
    BY <1>0, <2>1, <2>3 DEF Matching
  <2> QED
    BY <2>2, <2>3
<1>3. CASE Record
  BY <1>0, <1>3, RecordDoes DEF Matching
<1>4. CASE data' = data
  BY <1>4 DEF Matching
<1> QED
  BY <1>1, <1>2, <1>3, <1>4

LEMMA MatchedStays ==
    ASSUME Types, Shape, Whole, Progress, Consistent, Next, Clean
    PROVE  Matched'
<1> USE DEF disk, restore, start, past, budget
<1>0. Sound(goal) /\ Aimed /\ Matched /\ Coming
  BY DEF Consistent, CopiesSound
<1>1. CASE (\E f \in FileSet : Work(f)) \/ Edit \/ Record
  <2>1. UNCHANGED <<laid, begun>> /\ phase \in {"running", "migrating"}
    BY <1>1 DEF Work, Edit, Record
  <2>2. Matching
    BY <1>0, <2>1 DEF Matched, Whole, Clean
  <2> QED
    BY <1>1, <2>2, MatchingStays DEF Matched
<1>2. CASE (\E files \in taken \cup ToSet(dirs) : Stage(files)) \/ Cancel
  <2>1. phase = "running" /\ data' = data
    BY <1>2 DEF Stage, Cancel
  <2>2. Matching
    BY <1>0, <2>1 DEF Matched, Whole, Clean
  <2> QED
    BY <2>1, <2>2 DEF Matched, Matching
<1>3. CASE DropWal \/ Put
  <2>1. phase = "applying" /\ todo # <<>> /\ laid' = laid /\ begun'
    BY <1>3 DEF DropWal, Put
  <2> QED
    BY <2>1 DEF Matched, Shape
<1>4. CASE Clear
  <2>1. phase = "applying" /\ todo = <<>> /\ laid /\ UNCHANGED <<data, begun>>
    BY <1>4 DEF Clear
  <2>2. CASE ~begun
    BY <1>0, <2>1, <2>2 DEF Matched, Matching
  <2>3. CASE begun
    <3>1. ToSet(todo) = {} /\ "chats" \in Names(goal)
      BY <1>0, <2>1, <2>3, NoMembers DEF Aimed
    <3>2. Belong(goal)
      BY <1>0, <2>1, <3>1 DEF Coming
    <3>3. data["chats"] = goal["chats"] /\ data["config"] = goal["config"]
      BY <2>1, <3>1, <3>2 DEF Whole, Clean, Belong, InPlace
    <3> QED
      BY <2>1, <3>2, <3>3 DEF Belong, Matched, Matching
  <2> QED
    BY <2>2, <2>3
<1>5. CASE Unmark
  <2>1. ~laid /\ data' = data
    BY <1>5 DEF Unmark
  <2> QED
    BY <1>0, <2>1 DEF Matched, Matching
<1>6. CASE \/ \E names \in {FileSet, {"chats"}} : TakeBackup(names)
           \/ Stop \/ Crash \/ Start \/ CopyAside \/ CopyFails \/ Apply \/ Plan \/ BackedUp \/ Serve
  <2>1. UNCHANGED <<laid, begun, data>>
    BY <1>6 DEF TakeBackup, Stop, Crash, Start, CopyAside, CopyFails, Apply, Plan, BackedUp, Serve
  <2> QED
    BY <1>0, <2>1 DEF Matched, Matching
<1> QED
  BY <1>1, <1>2, <1>3, <1>4, <1>5, <1>6 DEF Next

LEMMA StillLinkedStays ==
    ASSUME Types, Shape, Whole, Progress, Consistent, Next, Clean
    PROVE  StillLinked'
<1> USE DEF disk, restore, start, past, budget
<1>0. /\ StillLinked /\ Sound(data)
      /\ "chats" \in FileSet /\ "config" \in FileSet
  BY FileNames DEF Consistent
<1>1. CASE (\E f \in FileSet : Work(f)) \/ Edit \/ Record
  <2>1. UNCHANGED <<laid, begun>> /\ phase \in {"running", "migrating"}
    BY <1>1 DEF Work, Edit, Record
  <2>2. laid => Linked
    BY <1>0, <2>1 DEF StillLinked, Whole, Clean, InPlace
  <2>3. data["config"].steps \subseteq data'["config"].steps
    BY <1>0, <1>1, MarksStay
  <2>4. laid' => Linked'
    BY <2>1, <2>2, <2>3 DEF Linked
  <2> QED
    BY <2>4 DEF StillLinked
<1>2. ASSUME NEW files \in taken \cup ToSet(dirs), Stage(files) PROVE StillLinked'
  <2>1. phase = "running" /\ data' = data
    BY <1>2 DEF Stage
  <2>2. "connections" \in data["chats"].done
    BY <2>1, StepNames DEF Progress
  <2>3. Linked
    BY <1>0, <2>2, SoundFiles DEF Types, Linked
  <2> QED
    BY <2>1, <2>3 DEF StillLinked, Linked
<1>3. CASE Cancel \/ Unmark
  <2>1. ~laid'
    BY <1>3 DEF Cancel, Unmark
  <2> QED
    BY <2>1 DEF StillLinked
<1>4. CASE DropWal
  <2>1. UNCHANGED <<laid, goal>> /\ begun'
    BY <1>4 DEF DropWal
  <2>2. data'["config"] = data["config"]
    BY <1>0, <1>4, DropDoes
  <2> QED
    BY <1>0, <2>1, <2>2 DEF StillLinked, Linked, InPlace
<1>5. CASE Put
  <2>1. UNCHANGED <<laid, goal>> /\ begun'
    BY <1>5 DEF Put
  <2>2. CASE Head(todo) = "config"
    <3>1. "config" \in Names(goal) /\ data'["config"] = goal["config"]
      BY <1>5, <2>2, PutDoes
    <3> QED
      BY <2>1, <3>1 DEF StillLinked, InPlace
  <2>3. CASE Head(todo) # "config"
    <3>1. data'["config"] = data["config"]
      BY <1>0, <1>5, <2>3, PutDoes
    <3> QED
      BY <1>0, <2>1, <3>1 DEF StillLinked, Linked, InPlace
  <2> QED
    BY <2>2, <2>3
<1>6. CASE \/ \E names \in {FileSet, {"chats"}} : TakeBackup(names)
           \/ Stop \/ Crash \/ Start \/ CopyAside \/ CopyFails \/ Apply \/ Clear \/ Plan
           \/ BackedUp \/ Serve
  <2>1. (laid' => laid) /\ UNCHANGED <<begun, data, goal>>
    <3>1. CASE Clear
      BY <3>1 DEF Clear
    <3>2. CASE ~Clear
      <4>1. UNCHANGED <<laid, begun, data, goal>>
        BY <1>6, <3>2 DEF TakeBackup, Stop, Crash, Start, CopyAside, CopyFails, Apply, Plan,
           BackedUp, Serve
      <4> QED
        BY <4>1
    <3> QED
      BY <3>1, <3>2
  <2> QED
    BY <1>0, <2>1 DEF StillLinked, Linked, InPlace
<1> QED
  BY <1>1, <1>2, <1>3, <1>4, <1>5, <1>6 DEF Next

LEMMA ComingStays ==
    ASSUME Types, Shape, Coming, Next, Clean'
    PROVE  Coming'
<1> USE DEF disk, restore, start, past, budget
<1>1. ASSUME NEW files \in taken \cup ToSet(dirs), Stage(files) PROVE Coming'
  BY <1>1 DEF Coming, Stage
<1>2. CASE Cancel \/ Unmark
  <2>1. goal' = NoFiles
    BY <1>2 DEF Cancel, Unmark
  <2> QED
    BY <2>1, Contents DEF Coming
<1>3. CASE Crash
  <2>1. phase' = "down" /\ UNCHANGED <<goal, laid, staging>>
    BY <1>3 DEF Crash
  <2> QED
    BY <2>1 DEF Coming, Shape, Belong
<1>4. CASE Apply
  <2>1. /\ phase = "saving" /\ phase' = "applying" /\ UNCHANGED <<goal, laid, staging>>
        /\ todo' = ToPut
    BY <1>4 DEF Apply
  <2>2. ToSet(todo') = Names(staging) /\ laid
    BY <2>1, WhatToPut DEF Shape
  <2> QED
    BY <2>1, <2>2 DEF Coming, Belong
<1>5. CASE Put
  <2>1. /\ phase = "applying" /\ UNCHANGED <<phase, goal, laid, staging>>
        /\ todo # <<>> /\ todo' = Tail(todo)
    BY <1>5 DEF Put
  <2>2. ToSet(todo) = {Head(todo)} \cup ToSet(todo')
    BY <2>1, MembersOfTail DEF Types
  <2>3. Head(todo) = "chats" => Belong(goal)
    BY <1>5 DEF Put, Clean
  <2> QED
    BY <2>1, <2>2, <2>3 DEF Coming, Belong
<1>6. CASE DropWal \/ Clear
  <2>1. phase = "applying" /\ UNCHANGED <<phase, todo, goal>>
    BY <1>6 DEF DropWal, Clear
  <2> QED
    BY <2>1 DEF Coming, Belong
<1>7. CASE \/ \E f \in FileSet : Work(f)
           \/ \E names \in {FileSet, {"chats"}} : TakeBackup(names)
           \/ Stop \/ Start \/ CopyAside \/ CopyFails \/ Plan \/ BackedUp \/ Edit \/ Record \/ Serve
  <2>1. phase # "applying" /\ phase' # "applying" /\ UNCHANGED <<goal, laid, staging>>
    BY <1>7 DEF Work, TakeBackup, Stop, Start, CopyAside, CopyFails, AfterFull, Plan, Opened,
       BackedUp, Edit, Record, Serve
  <2> QED
    BY <2>1 DEF Coming, Belong
<1> QED
  BY <1>1, <1>2, <1>3, <1>4, <1>5, <1>6, <1>7 DEF Next

LEMMA ConsistentStays ==
    ASSUME Types, Types', Shape, Whole, Copying, Progress, Consistent, Next
    PROVE  Consistent'
<1> SUFFICES ASSUME Clean'
             PROVE  (CopiesSound /\ Sound(data) /\ Aimed /\ Matched /\ StillLinked /\ Coming)'
  BY DEF Consistent
<1>1. Clean
  BY CleanBefore
<1>2. CopiesSound /\ Sound(data) /\ Aimed /\ Matched /\ StillLinked /\ Coming
  BY <1>1 DEF Consistent
<1>3. CopiesSound'
  BY <1>2, CopiesStaySound
<1>4. Sound(data)'
  BY <1>1, DataStaysSound
<1>5. Aimed'
  BY <1>2, AimedStays
<1>6. Matched'
  BY <1>1, MatchedStays
<1>7. StillLinked'
  BY <1>1, StillLinkedStays
<1>8. Coming'
  BY <1>2, ComingStays
<1> QED
  BY <1>3, <1>4, <1>5, <1>6, <1>7, <1>8

-----------------------------------------------------------------------------
(* A copy of the files as the last session left them *)

LEMMA SameMarksSettled ==
    ASSUME NEW d, NEW e,
           d["chats"].done = e["chats"].done /\ d["chats"].steps = e["chats"].steps,
           d["config"].steps = e["config"].steps, Settled(d)
    PROVE  Settled(e)
BY DEF Settled

LEMMA OriginsStay ==
    ASSUME Types, Shape, Progress, Origins, Next
    PROVE  Origins'
<1> USE DEF disk, restore, start, past, budget
<1>0. "chats" \in FileSet /\ "config" \in FileSet
  BY FileNames
<1>1. ASSUME NEW f \in FileSet, Work(f) PROVE Origins'
  <2>1. phase = "running" /\ UNCHANGED <<served, before>>
    BY <1>1 DEF Work
  <2>2. /\ data'["chats"].done = data["chats"].done /\ data'["chats"].steps = data["chats"].steps
        /\ data'["config"].steps = data["config"].steps
    BY <1>0, <1>1, WorkDoes
  <2> QED
    BY <2>1, <2>2, SameMarksSettled DEF Origins
<1>2. CASE DropWal \/ Put \/ Edit \/ Record
  <2>1. phase \in Starting /\ UNCHANGED <<served, before>>
    BY <1>2 DEF DropWal, Put, Edit, Record, Starting
  <2> QED
    BY <2>1 DEF Origins, Shape
<1>3. CASE Start
  <2>1. ~served' /\ data' = data /\ before' = IF served THEN data ELSE before
    BY <1>3 DEF Start
  <2> QED
    BY <2>1 DEF Origins
<1>4. CASE Serve
  <2>1. phase = "migrating" /\ steps = <<>> /\ UNCHANGED <<before, data>>
    BY <1>4 DEF Serve
  <2>2. StepSet \subseteq data["chats"].done
    BY <2>1, NoMembers DEF Progress
  <2> QED
    BY <2>1, <2>2 DEF Origins, Settled
<1>5. CASE \/ \E names \in {FileSet, {"chats"}} : TakeBackup(names)
           \/ \E files \in taken \cup ToSet(dirs) : Stage(files)
           \/ Cancel \/ Stop \/ Crash \/ CopyAside \/ CopyFails \/ Apply \/ Clear \/ Unmark
           \/ Plan \/ BackedUp
  <2>1. UNCHANGED <<served, before, data>>
    BY <1>5 DEF TakeBackup, Stage, Cancel, Stop, Crash, CopyAside, CopyFails, Apply, Clear, Unmark,
       Plan, BackedUp
  <2> QED
    BY <2>1 DEF Origins
<1> QED
  BY <1>1, <1>2, <1>3, <1>4, <1>5 DEF Next

(* A start that has changed nothing finds nothing to do for the migration,  *)
(* or all of it.                                                            *)
LEMMA AllOrNothing ==
    ASSUME Types, Origins, Untouched, ~served, ~touched
    PROVE  \/ Planned = {} /\ StepSet \subseteq data["chats"].done
           \/ Planned = StepSet
<1>1. Settled(data)
  <2>1. data["chats"] = before["chats"] /\ data["config"] = before["config"]
    BY DEF Untouched, Kept
  <2> QED
    BY <2>1 DEF Origins, Settled
<1>2. \A step \in StepSet :
        step \in Planned <=> step \notin data["chats"].done /\ step \notin data[LastFile(step)].steps
  BY LastFileIs DEF Planned, Lacks
<1>3. Planned \subseteq StepSet
  BY DEF Planned
<1>4. CASE StepSet \subseteq data["chats"].done
  BY <1>2, <1>3, <1>4
<1>5. CASE /\ data["chats"].done = {} /\ "connections" \notin data["config"].steps
           /\ "ownership" \notin data["chats"].steps
  <2>1. \A step \in StepSet : step \notin data[LastFile(step)].steps
    BY <1>5, StepNames DEF LastFile
  <2> QED
    BY <1>2, <1>3, <1>5, <2>1
<1> QED
  BY <1>1, <1>4, <1>5 DEF Settled

LEMMA UntouchedStays ==
    ASSUME Types, Shape, Progress, Origins, Untouched, SavedFirst, Needs, Next
    PROVE  Untouched'
<1> USE DEF disk, restore, start, past, budget
<1>1. CASE \E f \in FileSet : Work(f)
  <2>1. served' = served /\ phase = "running"
    BY <1>1 DEF Work
  <2> QED
    BY <2>1 DEF Untouched, Shape
<1>2. CASE DropWal \/ Put \/ Edit
  BY <1>2 DEF DropWal, Put, Edit, Untouched
<1>3. CASE Start
  <2>1. /\ data' = data /\ before' = (IF served THEN data ELSE before)
        /\ touched' = (touched /\ ~served)
    BY <1>3 DEF Start
  <2> QED
    BY <2>1 DEF Untouched
<1>4. CASE Serve
  BY <1>4 DEF Serve, Untouched
<1>5. CASE Record
  <2>1. /\ phase = "migrating" /\ steps # <<>> /\ todo = <<>> /\ Head(steps) \in StepSet
        /\ UNCHANGED <<served, touched, before>>
    BY <1>5, RecordDoes DEF Record, Through
  <2>2. CASE served \/ touched
    BY <2>1, <2>2 DEF Untouched
  <2>3. CASE ~served /\ ~touched
    <3>1. Head(steps) \in data["chats"].done
      BY <2>1, <2>3 DEF SavedFirst, Needs
    <3>2. data' = data
      BY <1>5, <3>1, RecordDoes
    <3> QED
      BY <2>1, <3>2 DEF Untouched
  <2> QED
    BY <2>2, <2>3
<1>6. CASE \/ \E names \in {FileSet, {"chats"}} : TakeBackup(names)
           \/ \E files \in taken \cup ToSet(dirs) : Stage(files)
           \/ Cancel \/ Stop \/ Crash \/ CopyAside \/ CopyFails \/ Apply \/ Clear \/ Unmark
           \/ Plan \/ BackedUp
  <2>1. UNCHANGED <<served, touched, before, data>>
    BY <1>6 DEF TakeBackup, Stage, Cancel, Stop, Crash, CopyAside, CopyFails, Apply, Clear, Unmark,
       Plan, BackedUp
  <2> QED
    BY <2>1 DEF Untouched
<1> QED
  BY <1>1, <1>2, <1>3, <1>4, <1>5, <1>6 DEF Next

LEMMA NeedsStay ==
    ASSUME Types, Shape, Origins, Untouched, Needs, Next
    PROVE  Needs'
<1> USE DEF disk, restore, start, past, budget
<1>1. CASE CopyAside
  <2>1. phase \in {"saving", "backing up"} /\ UNCHANGED <<phase, need, touched, steps>>
    BY <1>1 DEF CopyAside
  <2> QED
    BY <2>1 DEF Needs
<1>2. CASE Plan
  <2>1. /\ need' = Planned /\ steps' = Steps /\ touched' = touched /\ data' = data
        /\ IF Planned # {} THEN phase' = "backing up" ELSE phase' = "migrating"
        /\ phase = "planning"
    BY <1>2 DEF Plan, Opened
  <2>2. ~served
    BY <2>1 DEF Shape, Starting
  <2>3. ~touched => Planned = {} \/ Planned = StepSet
    BY <2>2, AllOrNothing
  <2> QED
    BY <2>1, <2>3 DEF Needs
<1>3. CASE BackedUp
  <2>1. /\ phase = "backing up" /\ phase' = "migrating" /\ todo' = Edited(steps)
        /\ UNCHANGED <<need, touched, steps>>
    BY <1>3 DEF BackedUp
  <2>2. ASSUME ~touched PROVE todo' # <<>>
    <3>1. need = StepSet /\ steps = Steps
      BY <2>1, <2>2 DEF Needs
    <3>2. Edited(steps) # <<>>
      BY <3>1, EditedIs, StepNames
    <3> QED
      BY <2>1, <3>2
  <2> QED
    BY <2>1, <2>2 DEF Needs
<1>4. CASE Edit
  <2>1. touched' /\ phase' = "migrating"
    BY <1>4 DEF Edit
  <2> QED
    BY <2>1 DEF Needs
<1>5. CASE Record
  <2>1. /\ phase = "migrating" /\ phase' = phase /\ todo = <<>> /\ UNCHANGED <<need, touched>>
    BY <1>5 DEF Record, Through
  <2> QED
    BY <2>1 DEF Needs
<1>6. CASE ~(CopyAside \/ Plan \/ BackedUp \/ Edit \/ Record)
  <2>1. phase' \notin {"backing up", "migrating"}
    BY <1>6 DEF Next, Work, TakeBackup, Stage, Cancel, Stop, Crash, Start, CopyFails, AfterFull,
       Apply, DropWal, Put, Clear, Unmark, Serve
  <2> QED
    BY <2>1 DEF Needs
<1> QED
  BY <1>1, <1>2, <1>3, <1>4, <1>5, <1>6

(* A copy that is complete holds the files as they are.                     *)
LEMMA CompleteCopy ==
    ASSUME Types, Copying, Untouched, phase \in {"saving", "backing up"}, todo = <<>>,
           ~served, ~touched
    PROVE  Saved
<1>1. ToSet(todo) = {}
  BY NoMembers
<1>2. \A f \in Kept : f \in Names(Last(dirs)) /\ Last(dirs)[f] = data[f]
  BY <1>1 DEF Copying
<1>3. \A f \in Kept : data[f] = before[f]
  BY DEF Untouched
<1> QED
  BY <1>2, <1>3 DEF Copying, Saved, Holds

LEMMA SavedFirstStays ==
    ASSUME Types, Shape, Copying, Progress, Origins, Untouched, SavedFirst, Needs, Next
    PROVE  SavedFirst'
<1> USE DEF disk, restore, start, past, budget
<1>1. CASE Apply
  <2>1. /\ phase = "saving" /\ phase' = "applying" /\ todo = <<>>
        /\ UNCHANGED <<served, touched, dirs, made, before>>
    BY <1>1 DEF Apply
  <2>2. ~served /\ ~touched => Saved
    BY <2>1, CompleteCopy
  <2> QED
    BY <2>1, <2>2 DEF SavedFirst, Saved
<1>2. CASE DropWal \/ Put \/ Edit
  BY <1>2 DEF DropWal, Put, Edit, SavedFirst
<1>3. CASE Clear
  <2>1. /\ phase = "applying" /\ UNCHANGED <<phase, served, touched, dirs, made, before>>
    BY <1>3 DEF Clear
  <2> QED
    BY <2>1 DEF SavedFirst, Saved
<1>4. CASE Plan
  <2>1. /\ need' = Planned /\ phase = "planning" /\ UNCHANGED <<served, touched, data>>
        /\ IF Planned # {} THEN phase' = "backing up" ELSE phase' = "migrating"
    BY <1>4 DEF Plan, Opened
  <2>2. ASSUME ~served, ~touched, Planned = {} PROVE StepSet \subseteq data["chats"].done
    BY <2>2, AllOrNothing, StepNames
  <2> QED
    BY <2>1, <2>2 DEF SavedFirst
<1>5. CASE BackedUp
  <2>1. /\ phase = "backing up" /\ phase' = "migrating" /\ todo = <<>> /\ dirs' = Newest(dirs)
        /\ UNCHANGED <<served, touched, made, before, need>>
    BY <1>5 DEF BackedUp
  <2>2. need # {}
    BY <2>1 DEF Needs
  <2>3. ASSUME ~served, ~touched PROVE Saved'
    <3>1. Saved
      BY <2>1, <2>3, CompleteCopy
    <3>2. dirs' # <<>> /\ Last(dirs') = Last(dirs)
      BY <2>1, <3>1, NewestAre DEF Types, Saved, Last
    <3> QED
      BY <2>1, <3>1, <3>2 DEF Saved
  <2> QED
    BY <2>1, <2>2, <2>3 DEF SavedFirst
<1>6. CASE Record
  <2>1. /\ phase = "migrating" /\ phase' = phase /\ todo = <<>>
        /\ UNCHANGED <<served, touched, need, dirs, made, before>>
    BY <1>6 DEF Record, Through
  <2>2. data["chats"].done \subseteq data'["chats"].done
    BY <1>6, RecordDoes, FileNames
  <2> QED
    BY <2>1, <2>2 DEF SavedFirst, Saved
<1>7. CASE ~(Apply \/ DropWal \/ Put \/ Edit \/ Clear \/ Plan \/ BackedUp \/ Record)
  <2>1. phase' \notin {"applying", "migrating"}
    BY <1>7 DEF Next, Work, TakeBackup, Stage, Cancel, Stop, Crash, Start, CopyAside, CopyFails,
       AfterFull, Unmark, Serve
  <2> QED
    BY <2>1 DEF SavedFirst
<1> QED
  BY <1>1, <1>2, <1>3, <1>4, <1>5, <1>6, <1>7

(* The first step of a start that changes a file leaves a copy as young as  *)
(* the start.                                                               *)
LEMMA LastIsYoung ==
    ASSUME Types, Saved
    PROVE  \E i \in 1 .. Len(dirs) : Len(dirs) < i + made /\ Holds(dirs[i], before)
<1>1. dirs \in Seq(Copies) /\ dirs # <<>> /\ made \in Nat /\ made # 0 /\ Holds(Last(dirs), before)
  BY DEF Types, Saved
<1> DEFINE i == Len(dirs)
<1>2. i \in 1 .. Len(dirs) /\ Len(dirs) < i + made /\ dirs[i] = Last(dirs)
  BY <1>1 DEF Last
<1> HIDE DEF i
<1> QED
  BY <1>1, <1>2

LEMMA HasCopyStays ==
    ASSUME Types, Shape, Copying, Progress, SavedFirst, HasCopy, Next
    PROVE  HasCopy'
<1> USE DEF disk, restore, start, past, budget
<1> DEFINE There(i) == Len(dirs) < i + made /\ Holds(dirs[i], before)
<1>0. dirs \in Seq(Copies) /\ Len(dirs) \in Nat /\ made \in Nat
  BY DEF Types
<1>1. CASE DropWal \/ Put \/ Edit
  <2>1. UNCHANGED <<dirs, made, before>>
    BY <1>1 DEF DropWal, Put, Edit
  <2>2. CASE touched
    BY <2>1, <2>2 DEF HasCopy
  <2>3. CASE ~touched
    <3>1. Saved
      <4>1. CASE DropWal \/ Put
        <5>1. phase = "applying" /\ ~served
          BY <4>1 DEF DropWal, Put, Shape, Starting
        <5> QED
          BY <2>3, <5>1 DEF SavedFirst
      <4>2. CASE Edit
        <5>1. phase = "migrating" /\ ~served /\ need # {}
          BY <4>2, EditDoes DEF Edit, Shape, Starting
        <5> QED
          BY <2>3, <5>1 DEF SavedFirst
      <4> QED
        BY <1>1, <4>1, <4>2
    <3>2. \E i \in 1 .. Len(dirs) : There(i)
      BY <3>1, LastIsYoung
    <3> QED
      BY <2>1, <3>2 DEF HasCopy
  <2> QED
    BY <2>2, <2>3
<1>2. CASE Start \/ Plan
  <2> SUFFICES ASSUME touched', made' <= Keep
               PROVE  \E i \in 1 .. Len(dirs') : Len(dirs') < i + made' /\ Holds(dirs'[i], before')
    BY DEF HasCopy
  <2>1. /\ touched /\ before' = before
        /\ \/ dirs' = dirs /\ made' = made
           \/ dirs' = Append(dirs, NoFiles) /\ made' = made + 1
    <3>1. CASE Start
      <4>1. touched /\ ~served
        BY <3>1 DEF Start
      <4> QED
        BY <3>1, <4>1 DEF Start
    <3>2. CASE Plan
      BY <3>2 DEF Plan, Opened
    <3> QED
      BY <1>2, <3>1, <3>2
  <2>2. made <= Keep
    BY <1>0, <2>1, BoundsAssumption
  <2>3. PICK i \in 1 .. Len(dirs) : There(i)
    BY <2>1, <2>2 DEF HasCopy
  <2>4. CASE dirs' = dirs /\ made' = made
    BY <2>1, <2>3, <2>4
  <2>5. CASE dirs' = Append(dirs, NoFiles) /\ made' = made + 1
    <3>1. Len(dirs') = Len(dirs) + 1 /\ dirs'[i] = dirs[i]
      BY <2>5, NewCopy
    <3>2. i \in 1 .. Len(dirs') /\ Len(dirs') < i + made'
      BY <1>0, <2>3, <2>5, <3>1
    <3> QED
      BY <2>1, <2>3, <3>1, <3>2
  <2> QED
    BY <2>1, <2>4, <2>5
<1>3. CASE CopyAside
  <2> DEFINE f == Head(todo)
             last == Last(dirs)
             new == With(last, f)
  <2>1. /\ phase \in {"saving", "backing up"} /\ f \in FileSet /\ last \in Copies
        /\ Len(dirs') = Len(dirs)
        /\ \A i \in 1 .. Len(dirs) :
             \/ i = Len(dirs) /\ dirs'[i] = Last(dirs') /\ dirs[i] = last
             \/ dirs'[i] = dirs[i]
        /\ Last(dirs') = new
        /\ UNCHANGED <<touched, made, before>>
    BY <1>3, CopyAsideDoes DEF CopyAside
  <2>2. \A g \in Names(last) : last[g] = data[g]
    BY <2>1 DEF Copying
  <2> HIDE DEF f, last
  <2>3. /\ Names(new) = Names(last) \cup {f} /\ new[f] = data[f]
        /\ \A g \in Names(last) : g # f => new[g] = last[g]
    BY <2>1, WithIsCopy
  <2> HIDE DEF new
  <2>4. Holds(last, before) => Holds(new, before)
    BY <2>2, <2>3 DEF Holds
  <2>5. \A i \in 1 .. Len(dirs) : Holds(dirs[i], before) => Holds(dirs'[i], before)
    BY <2>1, <2>4
  <2> QED
    BY <2>1, <2>5 DEF HasCopy
<1>4. CASE BackedUp
  <2> SUFFICES ASSUME touched', made' <= Keep
               PROVE  \E i \in 1 .. Len(dirs') : Len(dirs') < i + made' /\ Holds(dirs'[i], before')
    BY DEF HasCopy
  <2>1. dirs' = Newest(dirs) /\ UNCHANGED <<touched, made, before>>
    BY <1>4 DEF BackedUp
  <2>2. PICK i \in 1 .. Len(dirs) : There(i)
    BY <2>1 DEF HasCopy
  <2>3. CASE Len(dirs) > Keep
    <3> DEFINE j == i - (Len(dirs) - Keep)
    <3>1. Keep \in Nat /\ Len(dirs) < i + Keep
      BY <1>0, <2>1, <2>2, BoundsAssumption
    <3>2. Len(dirs') = Keep /\ j \in 1 .. Keep /\ dirs'[j] = dirs[i]
      BY <1>0, <2>1, <2>3, <3>1, NewestAre
    <3>3. Len(dirs') < j + made'
      BY <1>0, <2>1, <2>2, <3>1, <3>2
    <3> HIDE DEF j
    <3> QED
      BY <2>1, <2>2, <3>2, <3>3
  <2>4. CASE ~(Len(dirs) > Keep)
    <3>1. dirs' = dirs
      BY <1>0, <2>1, <2>4, NewestAre
    <3> QED
      BY <2>1, <2>2, <3>1
  <2> QED
    BY <2>3, <2>4
<1>5. CASE \/ \E f \in FileSet : Work(f)
           \/ \E names \in {FileSet, {"chats"}} : TakeBackup(names)
           \/ \E files \in taken \cup ToSet(dirs) : Stage(files)
           \/ Cancel \/ Stop \/ Crash \/ CopyFails \/ Apply \/ Clear \/ Unmark \/ Record \/ Serve
  <2>1. UNCHANGED <<dirs, made, before, touched>>
    BY <1>5 DEF Work, TakeBackup, Stage, Cancel, Stop, Crash, CopyFails, Apply, Clear, Unmark,
       Record, Serve
  <2> QED
    BY <2>1 DEF HasCopy
<1> QED
  BY <1>1, <1>2, <1>3, <1>4, <1>5 DEF Next

-----------------------------------------------------------------------------
(* The theorems *)

LEMMA IInvAtStart ==
    Init => IInv
<1> SUFFICES ASSUME Init PROVE IInv
  OBVIOUS
<1>1. Types
  BY FirstTypes
<1>2. /\ phase = "down" /\ todo = <<>> /\ served /\ ~touched /\ ~laid /\ ~begun /\ ~marker
      /\ staging = NoFiles /\ goal = NoFiles /\ dirs = <<>> /\ taken = {} /\ before = data
      /\ \A f \in FileSet : data[f] = Old
  BY DEF Init
<1>3. Shape
  BY <1>2, OrderOfLists, Contents DEF Shape, Starting
<1>4. Whole /\ Copying /\ Progress
  BY <1>2 DEF Whole, Copying, Progress
<1>5. data["chats"] = Old /\ data["config"] = Old /\ data \in Data
  BY <1>1, <1>2, FileNames DEF Types
<1>6. Old.done = {} /\ Old.steps = {}
  BY DEF Old
<1>7. Consistent
  <2>1. CopiesSound
    BY <1>2, NoMembers, SoundNothing DEF CopiesSound
  <2>2. Sound(data)
    BY <1>5, <1>6, SoundFiles
  <2>3. Aimed /\ StillLinked /\ Coming
    BY <1>2, Contents DEF Aimed, StillLinked, Coming
  <2>4. Matched
    BY <1>5, <1>6 DEF Matched, Matching
  <2> QED
    BY <2>1, <2>2, <2>3, <2>4 DEF Consistent
<1>8. KeptSafe
  <2>1. Settled(data)
    BY <1>5, <1>6 DEF Settled
  <2> QED
    BY <1>2, <2>1 DEF KeptSafe, Origins, Untouched, SavedFirst, Needs, HasCopy
<1> QED
  BY <1>1, <1>3, <1>4, <1>7, <1>8 DEF IInv

LEMMA IInvStays ==
    ASSUME IInv, [Next]_vars
    PROVE  IInv'
<1>1. CASE Next
  <2>1. Types /\ Shape /\ Whole /\ Copying /\ Progress /\ Consistent /\ KeptSafe
    BY DEF IInv
  <2>2. Types'
    BY <1>1, <2>1, TypesStay
  <2>3. Shape' /\ Whole' /\ Copying' /\ Progress'
    BY <1>1, <2>1, ShapeStays, WholeStays, CopyingStays, ProgressStays
  <2>4. Consistent'
    BY <1>1, <2>1, <2>2, ConsistentStays
  <2>5. Origins' /\ Untouched' /\ SavedFirst' /\ Needs' /\ HasCopy'
    BY <1>1, <2>1, OriginsStay, UntouchedStays, SavedFirstStays, NeedsStay, HasCopyStays
       DEF KeptSafe
  <2> QED
    BY <2>2, <2>3, <2>4, <2>5 DEF IInv, KeptSafe
<1>2. CASE UNCHANGED vars
  <2>1. /\ UNCHANGED <<data, wal, dirs, taken, marker, laid, staging, goal>>
        /\ UNCHANGED <<phase, todo, steps, need, before, touched, served, made, begun, gaveUp, parted>>
        /\ UNCHANGED <<works, backed, stages, faults>>
    BY <1>2 DEF vars, disk, restore, start, past, budget
  <2>2. Types'
    BY <1>2, TypesStutter DEF IInv
  <2>3. Shape' /\ Whole' /\ Copying' /\ Progress'
    <3>1. Shape'
      BY <2>1 DEF IInv, Shape
    <3>2. Whole'
      BY <2>1 DEF IInv, Whole, InPlace
    <3>3. Copying'
      BY <2>1 DEF IInv, Copying
    <3>4. Progress'
      BY <2>1 DEF IInv, Progress, Due
    <3> QED
      BY <3>1, <3>2, <3>3, <3>4
  <2>4. Consistent'
    BY <2>1 DEF IInv, Consistent, Clean, CopiesSound, Sound, Names, Aimed, Matched, Matching,
       StillLinked, Linked, InPlace, Coming, Belong
  <2>5. KeptSafe'
    BY <2>1 DEF IInv, KeptSafe, Origins, Untouched, SavedFirst, Needs, HasCopy, Saved, Settled
  <2> QED
    BY <2>2, <2>3, <2>4, <2>5 DEF IInv
<1> QED
  BY <1>1, <1>2

LEMMA IInvHolds ==
    Spec => []IInv
BY IInvAtStart, IInvStays, PTL DEF Spec

(* A restore is over only when every file it was to bring is in its place   *)
(* (apply_pending_restore), however often it was broken off: nothing is     *)
(* skipped by the starts that take it up again.                             *)
THEOREM RestoreIsWhole ==
    Spec => RestoredWhole
<1>1. ASSUME IInv, [Next]_vars
      PROVE  [phase = "applying" /\ phase' = "planning" =>
                gaveUp \/ \A f \in Names(goal) : data[f] = goal[f]]_vars
  <2>1. CASE Next
    BY <1>1, <2>1, OverIsWhole DEF IInv
  <2>2. CASE UNCHANGED vars
    BY <2>2
  <2> QED
    BY <1>1, <2>1, <2>2
<1> QED
  BY <1>1, IInvHolds, PTL DEF Spec, RestoredWhole

(* When the server runs, a step on record has been carried out in every     *)
(* file it is about (migrate.run, _record), whatever died or was restored   *)
(* on the way.                                                              *)
THEOREM RecordsAreTrue ==
    Spec => []RecordedIsDone
<1>1. ASSUME IInv PROVE RecordedIsDone
  <2> SUFFICES ASSUME phase = "running", ~parted, ~gaveUp, NEW step \in data["chats"].done,
                      NEW f \in ToSet(Edits(step))
               PROVE  step \in data[f].steps
    BY DEF RecordedIsDone
  <2>1. Types /\ Sound(data) /\ data \in Data
    BY <1>1 DEF IInv, Types, Consistent, Clean
  <2>2. /\ data["chats"].done \subseteq data["chats"].steps
        /\ "connections" \in data["chats"].done => "connections" \in data["config"].steps
    BY <2>1, SoundFiles
  <2>3. step \in StepSet
    <3>1. data["chats"] \in Content
      BY <2>1, Typed, FileNames
    <3> QED
      BY <3>1 DEF Content
  <2>4. f = "chats" \/ (f = "config" /\ step = "connections")
    BY <2>3, StepNames
  <2> QED
    BY <2>2, <2>4
<1> QED
  BY <1>1, IInvHolds, PTL

(* Once a start has changed a file, a copy of the database and the roster   *)
(* as the last session left them is there (backup, _prune), for as many     *)
(* starts in a row as copies are kept.                                      *)
THEOREM FilesAreSafe ==
    Spec => []FilesAccounted
<1>1. ASSUME IInv PROVE FilesAccounted
  <2>1. TypeOK
    BY <1>1, TypesAreRight DEF IInv
  <2>2. ASSUME touched, made <= Keep PROVE \E files \in ToSet(dirs) : HeldBy(files)
    <3>1. PICK i \in 1 .. Len(dirs) : Holds(dirs[i], before)
      BY <1>1, <2>2 DEF IInv, KeptSafe, HasCopy
    <3>2. dirs[i] \in ToSet(dirs)
      <4>1. DOMAIN dirs = 1 .. Len(dirs)
        BY <1>1 DEF IInv, Types
      <4> QED
        BY <4>1 DEF ToSet
    <3>3. HeldBy(dirs[i])
      BY <3>1 DEF Holds, HeldBy, Kept
    <3> QED
      BY <3>2, <3>3
  <2> QED
    BY <2>1, <2>2 DEF FilesAccounted, WayBack
<1> QED
  BY <1>1, IInvHolds, PTL
=============================================================================
