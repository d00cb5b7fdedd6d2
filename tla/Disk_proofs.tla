---------------------------- MODULE Disk_proofs ----------------------------
(***************************************************************************)
(* What is kept on disk: the replacement of a file and the cache of         *)
(* compiled libraries keep their promises for any number of threads and     *)
(* processes, staging names and compiler permits, whatever fails, crashes   *)
(* or loses power.                                                          *)
(***************************************************************************)
EXTENDS CompileCache, FileReplace, FiniteSetTheorems, TLAPS

FileTypeOK ==
    /\ part \in [File -> {"none", "empty", "some", "whole"}]
    /\ synced \subseteq File
    /\ contents \in [File -> Value \cup {None}]
    /\ dest \in File \cup {None} /\ past \subseteq File \cup {None}
    /\ staging \in [Pid \X Attempt -> File \cup {None}]
    /\ pc \in [Writer -> {"idle", "create", "write", "sync", "rename"}]
    /\ attempt \in [Writer -> 0 .. Attempts]
    /\ handle \in [Writer -> File \cup {None}]
    /\ calls \in [Writer -> 0 .. MaxCalls]
    /\ result \in [Writer -> {"none", "ok", "error", "exhausted"}]
    /\ rpc \in [Reader -> {"idle", "open", "read"}]
    /\ opened \in [Reader -> File \cup {None}]
    /\ got \in [Reader -> ({"none", "empty", "some", "whole"} \X Nat) \cup {None}]
    /\ loads \in [Reader -> 0 .. MaxLoads]
    /\ undeleted \subseteq Pid \X Attempt
    /\ crashes \in 0 .. MaxCrashes /\ faults \in 0 .. MaxFaults

(* The save owns a staging file. *)
Owns(w) == pc[w] \in {"write", "sync", "rename"}

(* A save that owns a staging file holds the file it has created, which nobody
   has ever seen under the destination's name and which is whole and synced
   before it is renamed; and what it has returned is true. *)
WriterOK(w) ==
    /\ pc[w] # "idle" => /\ calls[w] >= 1 /\ result[w] = "none"
                         /\ Mine(w) \notin past /\ contents[Mine(w)] \in Value
    /\ Owns(w) => attempt[w] < Attempts /\ handle[w] = Mine(w) /\ staging[Name(w)] = Mine(w)
    /\ pc[w] \in {"sync", "rename"} => part[Mine(w)] = "whole"
    /\ pc[w] = "rename" => Mine(w) \in synced
    /\ result[w] # "none" => calls[w] >= 1 /\ (Mine(w) \in past <=> result[w] = "ok")
    /\ \A n \in 1 .. MaxCalls : n > calls[w] => <<w, n>> \notin past

(* Whatever the destination may name is whole and synced. *)
PastOK ==
    /\ dest \in past
    /\ \A f \in past \ {None} : part[f] = "whole" /\ f \in synced /\ contents[f] \in Value

(* A reader has such a file open. *)
ReaderOK(r) ==
    /\ rpc[r] = "read" => opened[r] # None
    /\ opened[r] # None => opened[r] \in past

(* The threads of a process, those that have found its first a staging names
   taken, and the names among them that nobody owns. *)
Threads(p) == {w \in Writer : PidOf[w] = p}
Reached(p, a) == {w \in Threads(p) : pc[w] # "idle" /\ attempt[w] >= a}
LeftBelow(p, a) == {n \in Leftover(p) : n[2] < a}

(* Each of the first a names is left over, or one thread less has come beyond
   them. *)
NamesAreHeld ==
    \A p \in Pid : \A a \in 0 .. Attempts : Reached(p, a) # {} =>
        Cardinality(Reached(p, a)) + a <= Cardinality(Threads(p)) + Cardinality(LeftBelow(p, a))

(* The inductive invariant. *)
FileInv ==
    /\ FileTypeOK
    /\ \A w \in Writer : WriterOK(w)
    /\ PastOK
    /\ \A r \in Reader : ReaderOK(r)
    /\ LoadsAreWholeAndBounded
    /\ NamesAreHeld
    /\ ExhaustedOnlyWhenFull
    /\ NothingIsLeft

-----------------------------------------------------------------------------
(* Replacing a file: facts about types, owners and counts *)

(* What a writer's numbers and names are. *)
LEMMA WriterTypes ==
    ASSUME FileTypeOK, NEW w \in Writer
    PROVE  /\ calls[w] \in Nat /\ calls[w] <= MaxCalls
           /\ attempt[w] \in Nat /\ attempt[w] <= Attempts /\ PidOf[w] \in Pid
           /\ attempt[w] < Attempts => Name(w) \in Pid \X Attempt
           /\ calls[w] >= 1 => Mine(w) \in Save /\ Mine(w) \in File /\ Mine(w) # None
BY BoundAssumption, ProcessAssumption, FileAssumption
   DEF FileTypeOK, Name, Mine, Attempt, Save, File

(* The count of faults stays within its bound. *)
LEMMA FaultType ==
    ASSUME FileTypeOK, Fault \/ UNCHANGED faults
    PROVE  faults' \in 0 .. MaxFaults
BY FaultAssumption DEF FileTypeOK, Fault

(* Files of two saves are two files. *)
LEMMA MineDiffers ==
    ASSUME NEW w \in Writer, NEW u \in Writer, NEW m, NEW n, w # u
    PROVE  <<w, m>> # <<u, n>>
OBVIOUS

(* No staging name is owned twice. *)
LEMMA OwnersDiffer ==
    ASSUME FileInv, NEW w \in Writer, NEW u \in Writer, Owns(w), Owns(u), w # u
    PROVE  Name(w) # Name(u)
<1>1. staging[Name(w)] = Mine(w) /\ staging[Name(u)] = Mine(u)
  BY DEF FileInv, WriterOK
<1>2. Mine(w) # Mine(u)  BY MineDiffers DEF Mine
<1>. QED  BY <1>1, <1>2

(* A writer that a step does not touch keeps its part of the invariant if its
   own file is neither written nor renamed and its staging name stays its own. *)
LEMMA OtherWriter ==
    ASSUME FileInv, NEW u \in Writer, NEW f,
           pc'[u] = pc[u], attempt'[u] = attempt[u], handle'[u] = handle[u],
           calls'[u] = calls[u], result'[u] = result[u],
           past \subseteq past', past' \subseteq past \cup {f},
           \A n \in 1 .. MaxCalls : <<u, n>> # f,
           calls[u] >= 1 => part'[Mine(u)] = part[Mine(u)] /\ contents'[Mine(u)] = contents[Mine(u)],
           synced \subseteq synced',
           Owns(u) => staging'[Name(u)] = staging[Name(u)]
    PROVE  WriterOK(u)'
<1>1. FileTypeOK /\ WriterOK(u)  BY DEF FileInv
<1>2. Mine(u)' = Mine(u) /\ Name(u)' = Name(u)  BY DEF Mine, Name
<1>3. calls[u] >= 1 => Mine(u) # f
  <2>1. calls[u] >= 1 => calls[u] \in 1 .. MaxCalls  BY <1>1, WriterTypes, BoundAssumption
  <2>. QED  BY <2>1 DEF Mine
<1>. QED  BY <1>1, <1>2, <1>3 DEF WriterOK, Owns

(* The sets that are counted are finite. *)
LEMMA CountedIsFinite ==
    ASSUME NEW p, NEW a
    PROVE  /\ IsFiniteSet(Threads(p)) /\ Cardinality(Threads(p)) \in Nat
           /\ IsFiniteSet(Reached(p, a)) /\ Cardinality(Reached(p, a)) \in Nat
           /\ IsFiniteSet(Leftover(p)) /\ Cardinality(Leftover(p)) \in Nat
           /\ IsFiniteSet(LeftBelow(p, a)) /\ Cardinality(LeftBelow(p, a)) \in Nat
           /\ IsFiniteSet(LeftBelow(p, a)') /\ Cardinality(LeftBelow(p, a)') \in Nat
           /\ IsFiniteSet(Leftover(p)') /\ Cardinality(Leftover(p)') \in Nat
<1>1. IsFiniteSet(Threads(p)) /\ IsFiniteSet(Reached(p, a))
  BY FS_Subset, FileAssumption DEF Threads, Reached
<1>2. IsFiniteSet({p} \X Attempt)
  <2>1. IsFiniteSet(Attempt)  BY FS_Interval, BoundAssumption DEF Attempt
  <2>2. IsFiniteSet({p})  BY FS_Singleton
  <2>. QED  BY <2>1, <2>2, FS_Product
<1>3. IsFiniteSet(Leftover(p)) /\ IsFiniteSet(LeftBelow(p, a))
  BY <1>2, FS_Subset DEF Leftover, LeftBelow
<1>4. Leftover(p)' \subseteq {p} \X Attempt /\ LeftBelow(p, a)' \subseteq Leftover(p)'
  BY DEF Leftover, LeftBelow, Attempt
<1>5. IsFiniteSet(Leftover(p)') /\ IsFiniteSet(LeftBelow(p, a)')
  BY <1>2, <1>4, FS_Subset
<1>. QED  BY <1>1, <1>3, <1>5, FS_CardinalityType

(* Names that are left over stay so, fewer threads are beyond the first a
   names, and nobody runs out of them: the counts still hold. *)
LEMMA CountsKept ==
    ASSUME NamesAreHeld, ExhaustedOnlyWhenFull,
           \A p \in Pid : Leftover(p) \subseteq Leftover(p)',
           \A p \in Pid : \A a \in 1 .. Attempts : Reached(p, a)' \subseteq Reached(p, a),
           \A w \in Writer : result'[w] = "exhausted" => result[w] = "exhausted"
    PROVE  NamesAreHeld' /\ ExhaustedOnlyWhenFull'
<1>1. ASSUME NEW p \in Pid, NEW a \in 0 .. Attempts, Reached(p, a)' # {}
      PROVE  Cardinality(Reached(p, a)') + a <=
                Cardinality(Threads(p)) + Cardinality(LeftBelow(p, a)')
  <2>1. LeftBelow(p, a) \subseteq LeftBelow(p, a)'  BY DEF LeftBelow
  <2>2. IsFiniteSet(LeftBelow(p, a)') /\ Cardinality(LeftBelow(p, a)') \in Nat
    BY CountedIsFinite
  <2>3. Cardinality(LeftBelow(p, a)) <= Cardinality(LeftBelow(p, a)')
    BY <2>1, <2>2, FS_Subset
  <2>4. CASE a = 0
    <3>1. Reached(p, a)' \subseteq Threads(p)  BY DEF Reached, Threads
    <3>2. Cardinality(Reached(p, a)') <= Cardinality(Threads(p)) /\ Cardinality(Reached(p, a)') \in Nat
      BY <3>1, CountedIsFinite, FS_Subset, FS_CardinalityType
    <3>. QED  BY <2>2, <2>4, <3>2, CountedIsFinite
  <2>5. CASE a # 0
    <3>1. Reached(p, a)' \subseteq Reached(p, a)  BY <2>5, BoundAssumption
    <3>2. Cardinality(Reached(p, a)') <= Cardinality(Reached(p, a)) /\ Cardinality(Reached(p, a)') \in Nat
      BY <3>1, CountedIsFinite, FS_Subset, FS_CardinalityType
    <3>3. Cardinality(Reached(p, a)) + a <= Cardinality(Threads(p)) + Cardinality(LeftBelow(p, a))
      BY <1>1, <3>1 DEF NamesAreHeld
    <3>. QED  BY <2>2, <2>3, <3>2, <3>3, CountedIsFinite
  <2>. QED  BY <2>4, <2>5
<1>2. ASSUME NEW w \in Writer, result'[w] = "exhausted"
      PROVE  Cardinality({u \in Writer \ {w} : PidOf[u] = PidOf[w]})
                + Cardinality(Leftover(PidOf[w])') >= Attempts
  <2>. DEFINE p == PidOf[w]
              others == {u \in Writer \ {w} : PidOf[u] = PidOf[w]}
  <2>1. p \in Pid  BY ProcessAssumption
  <2>2. Cardinality(others) + Cardinality(Leftover(p)) >= Attempts
    BY <1>2 DEF ExhaustedOnlyWhenFull
  <2>3. IsFiniteSet(Leftover(p)')  BY CountedIsFinite
  <2>4. /\ Cardinality(Leftover(p)) <= Cardinality(Leftover(p)')
        /\ Cardinality(Leftover(p)') \in Nat /\ Cardinality(Leftover(p)) \in Nat
    BY <2>1, <2>3, FS_Subset, FS_CardinalityType
  <2>5. Cardinality(others) \in Nat  BY FileAssumption, FS_Subset, FS_CardinalityType
  <2>. QED  BY <2>2, <2>4, <2>5, BoundAssumption
<1>3. NamesAreHeld'  BY <1>1 DEF NamesAreHeld, Threads
<1>4. ExhaustedOnlyWhenFull'  BY <1>2 DEF ExhaustedOnlyWhenFull
<1>. QED  BY <1>3, <1>4

(* A name is left over when it names a file that no save owns. *)
LEMMA LeftoverIs ==
    ASSUME NEW p \in Pid, NEW n
    PROVE  /\ n \in Leftover(p) <=>
                /\ n \in {p} \X Attempt /\ staging[n] # None
                /\ \A w \in Writer : ~(Owns(w) /\ Name(w) = n)
           /\ n \in Leftover(p)' <=>
                /\ n \in {p} \X Attempt /\ staging'[n] # None
                /\ \A w \in Writer : ~(Owns(w)' /\ Name(w)' = n)
BY DEF Leftover, Owns, Name, Attempt

(* Nothing changes if the same saves own the same names. *)
LEMMA LeftoverSame ==
    ASSUME staging' = staging,
           \A w \in Writer : (Owns(w)' <=> Owns(w)) /\ (Owns(w) => Name(w)' = Name(w))
    PROVE  \A p \in Pid : Leftover(p)' = Leftover(p)
<1>. SUFFICES ASSUME NEW p \in Pid, NEW n  PROVE n \in Leftover(p)' <=> n \in Leftover(p)
  BY DEF Leftover
<1>1. \A w \in Writer : Owns(w)' /\ Name(w)' = n <=> Owns(w) /\ Name(w) = n
  OBVIOUS
<1>. QED  BY <1>1, LeftoverIs

(* A name is given up. *)
LEMMA NameGivenUp ==
    ASSUME FileTypeOK, NEW m \in Pid \X Attempt, staging' = [staging EXCEPT ![m] = None]
    PROVE  /\ staging' \in [Pid \X Attempt -> File \cup {None}]
           /\ \A n \in Pid \X Attempt : staging'[n] = IF n = m THEN None ELSE staging[n]
BY DEF FileTypeOK

(* A step of one writer leaves what is left over: it takes only a free name and
   gives up only its own. *)
LEMMA LeftoverGrows ==
    ASSUME NEW w \in Writer,
           \A u \in Writer : u # w /\ Owns(u)' => Owns(u) /\ Name(u)' = Name(u),
           Owns(w)' => \/ Owns(w) /\ Name(w)' = Name(w)
                       \/ staging[Name(w)'] = None,
           \A n \in Pid \X Attempt :
               staging'[n] = None => staging[n] = None \/ (Owns(w) /\ n = Name(w))
    PROVE  \A p \in Pid : Leftover(p) \subseteq Leftover(p)'
<1>. SUFFICES ASSUME NEW p \in Pid, NEW n \in Leftover(p)  PROVE n \in Leftover(p)'
  OBVIOUS
<1>1. n \in {p} \X Attempt /\ staging[n] # None /\ \A u \in Writer : ~(Owns(u) /\ Name(u) = n)
  BY LeftoverIs
<1>2. staging'[n] # None  BY <1>1
<1>3. \A u \in Writer : ~(Owns(u)' /\ Name(u)' = n)  BY <1>1
<1>. QED  BY <1>1, <1>2, <1>3, LeftoverIs

(* Without crashes a step leaves nothing if a name gets a file only from the
   save that owns it, and every save that gives up a name frees it or could not
   remove its file. *)
LEMMA NothingLeftKept ==
    ASSUME NothingIsLeft, crashes' = 0 => crashes = 0, undeleted \subseteq undeleted',
           \A n \in Pid \X Attempt : staging'[n] # None =>
               staging[n] # None \/ \E u \in Writer : Owns(u)' /\ Name(u)' = n,
           \A u \in Writer : Owns(u) /\ crashes' = 0 =>
               \/ Owns(u)' /\ Name(u)' = Name(u)
               \/ staging'[Name(u)] = None
               \/ Name(u) \in undeleted'
    PROVE  NothingIsLeft'
<1>. SUFFICES ASSUME crashes' = 0, NEW p \in Pid, NEW n \in Leftover(p)'
              PROVE  n \in undeleted'
  BY DEF NothingIsLeft
<1>1. n \in {p} \X Attempt /\ staging'[n] # None /\ \A u \in Writer : ~(Owns(u)' /\ Name(u)' = n)
  BY LeftoverIs
<1>2. staging[n] # None  BY <1>1
<1>3. CASE n \in Leftover(p)  BY <1>3 DEF NothingIsLeft
<1>4. CASE n \notin Leftover(p)
  <2>1. PICK u \in Writer : Owns(u) /\ Name(u) = n  BY <1>1, <1>2, <1>4, LeftoverIs
  <2>. QED  BY <1>1, <2>1
<1>. QED  BY <1>3, <1>4

(* Fewer threads are beyond the first names when nobody begins or goes on to
   another name. *)
LEMMA ReachedShrinks ==
    ASSUME FileTypeOK,
           \A u \in Writer : pc'[u] # "idle" =>
               \/ pc[u] # "idle" /\ attempt'[u] = attempt[u]
               \/ attempt'[u] = 0
    PROVE  \A p \in Pid : \A a \in 1 .. Attempts : Reached(p, a)' \subseteq Reached(p, a)
<1>. SUFFICES ASSUME NEW p \in Pid, NEW a \in 1 .. Attempts, NEW u \in Reached(p, a)'
              PROVE  u \in Reached(p, a)
  OBVIOUS
<1>1. u \in Writer /\ PidOf[u] = p /\ pc'[u] # "idle" /\ attempt'[u] >= a
  BY DEF Reached, Threads
<1>2. attempt'[u] # 0  BY <1>1, BoundAssumption
<1>. QED  BY <1>1, <1>2 DEF Reached, Threads

-----------------------------------------------------------------------------
(* Initial states and steps *)

(* Nobody saves or loads, and no staging name is taken. *)
LEMMA FileInitInv == FileInit => FileInv
<1>. SUFFICES ASSUME FileInit PROVE FileInv  OBVIOUS
<1>1. /\ \A w \in Writer : pc[w] = "idle" /\ result[w] = "none" /\ calls[w] = 0
      /\ \A r \in Reader : rpc[r] = "idle" /\ opened[r] = None /\ got[r] = None
      /\ \A n \in Pid \X Attempt : staging[n] = None
  BY DEF FileInit
<1>2. Original \in File  BY DEF File
<1>3. FileTypeOK
  <2>1. contents \in [File -> Value \cup {None}]
    BY <1>2, SizeAssumption DEF FileInit
  <2>2. dest \in File \cup {None} /\ past \subseteq File \cup {None} /\ synced \subseteq File
    BY <1>2 DEF FileInit
  <2>3. /\ got \in [Reader -> ({"none", "empty", "some", "whole"} \X Nat) \cup {None}]
        /\ loads \in [Reader -> 0 .. MaxLoads]
        /\ crashes \in 0 .. MaxCrashes /\ faults \in 0 .. MaxFaults
    BY BoundAssumption, FaultAssumption DEF FileInit
  <2>. QED  BY <2>1, <2>2, <2>3, BoundAssumption DEF FileInit, FileTypeOK
<1>4. \A w \in Writer : WriterOK(w)
  <2>1. past = {Original} \/ past = {None}  BY DEF FileInit
  <2>2. \A w \in Writer : \A n \in 1 .. MaxCalls : <<w, n>> \in Save /\ <<w, n>> \in File
    BY DEF Save, File
  <2>. QED  BY <1>1, <2>1, <2>2, FileAssumption DEF WriterOK, Owns
<1>5. PastOK  BY <1>2, SizeAssumption DEF FileInit, PastOK
<1>6. \A p \in Pid : \A a \in 0 .. Attempts : Reached(p, a) = {}  BY <1>1 DEF Reached, Threads
<1>7. \A p \in Pid : Leftover(p) = {}  BY <1>1 DEF Leftover
<1>. QED  BY <1>1, <1>3, <1>4, <1>5, <1>6, <1>7
          DEF FileInv, ReaderOK, LoadsAreWholeAndBounded, NamesAreHeld, ExhaustedOnlyWhenFull,
              NothingIsLeft

(* A step that changes no file, no name and no reader keeps what is said about
   them. *)
LEMMA ReadersKept ==
    ASSUME FileInv, UNCHANGED readers, past \subseteq past'
    PROVE  (\A r \in Reader : ReaderOK(r)') /\ LoadsAreWholeAndBounded'
BY DEF FileInv, ReaderOK, LoadsAreWholeAndBounded, readers

LEMMA BeginInv ==
    ASSUME FileInv, NEW w \in Writer, NEW v \in Value, Begin(w, v)
    PROVE  FileInv'
<1>1. FileTypeOK /\ WriterOK(w)  BY DEF FileInv
<1>2. /\ \A u \in Writer : u # w => /\ pc'[u] = pc[u] /\ attempt'[u] = attempt[u]
                                    /\ calls'[u] = calls[u] /\ result'[u] = result[u]
      /\ pc'[w] = "create" /\ attempt'[w] = 0 /\ calls'[w] = calls[w] + 1 /\ result'[w] = "none"
      /\ UNCHANGED <<part, synced, dest, past, staging, undeleted, handle, readers, crashes, faults>>
      /\ pc[w] = "idle" /\ calls[w] < MaxCalls
  BY <1>1 DEF Begin, FileTypeOK, names, FirstAttempt
<1>3. FileTypeOK'
  <2>1. contents' \in [File -> Value \cup {None}]
    BY <1>1 DEF Begin, FileTypeOK
  <2>2. calls' \in [Writer -> 0 .. MaxCalls]
    BY <1>1, BoundAssumption DEF Begin, FileTypeOK
  <2>3. /\ pc' \in [Writer -> {"idle", "create", "write", "sync", "rename"}]
        /\ attempt' \in [Writer -> 0 .. Attempts]
        /\ result' \in [Writer -> {"none", "ok", "error", "exhausted"}]
    BY <1>1, BoundAssumption DEF Begin, FileTypeOK, FirstAttempt
  <2>. QED  BY <1>1, <1>2, <2>1, <2>2, <2>3 DEF FileTypeOK, readers
<1>4. WriterOK(w)'
  <2>1. calls[w] \in Nat /\ MaxCalls \in Nat  BY <1>1, WriterTypes, BoundAssumption
  <2>2. calls[w] + 1 \in 1 .. MaxCalls /\ calls[w] + 1 > calls[w]  BY <1>2, <2>1
  <2>3. Mine(w)' = <<w, calls[w] + 1>> /\ Mine(w)' \notin past'
    BY <1>1, <1>2, <2>2 DEF Mine, WriterOK
  <2>5. contents'[Mine(w)'] = v
    BY <1>1, <2>2, <2>3 DEF Begin, FileTypeOK, File, Save
  <2>4. \A n \in 1 .. MaxCalls : n > calls'[w] => <<w, n>> \notin past'
    BY <1>1, <1>2, <2>1 DEF WriterOK
  <2>. QED  BY <1>2, <2>1, <2>3, <2>4, <2>5 DEF WriterOK, Owns
<1>5. ASSUME NEW u \in Writer, u # w  PROVE WriterOK(u)'
  <2>1. <<w, calls[w] + 1>> # Mine(u)  BY <1>5, MineDiffers DEF Mine
  <2>2. calls[u] >= 1 => contents'[Mine(u)] = contents[Mine(u)]
    BY <1>1, <2>1, WriterTypes DEF Begin, FileTypeOK
  <2>3. \A n \in 1 .. MaxCalls : <<u, n>> # None
    BY FileAssumption DEF Save, File
  <2>. QED  BY <1>2, <1>5, <2>2, <2>3, OtherWriter
<1>6. PastOK'
  <2>1. calls[w] + 1 \in 1 .. MaxCalls /\ calls[w] + 1 > calls[w]
    BY <1>1, <1>2, WriterTypes, BoundAssumption
  <2>2. <<w, calls[w] + 1>> \notin past  BY <1>1, <2>1 DEF WriterOK
  <2>3. \A f \in past \ {None} : contents'[f] = contents[f]
    BY <1>1, <2>2 DEF Begin, FileTypeOK
  <2>. QED  BY <1>2, <2>3 DEF FileInv, PastOK
<1>7. \A u \in Writer : Owns(u)' <=> Owns(u)  BY <1>2 DEF Owns
<1>8. \A u \in Writer : Owns(u) => Name(u)' = Name(u)  BY <1>2 DEF Owns, Name
<1>9. \A p \in Pid : Leftover(p) \subseteq Leftover(p)'
  BY <1>2, <1>7, <1>8, LeftoverGrows
<1>10. NamesAreHeld' /\ ExhaustedOnlyWhenFull'
  BY <1>1, <1>2, <1>9, ReachedShrinks, CountsKept DEF FileInv
<1>11. NothingIsLeft'
  BY <1>2, <1>7, <1>8, NothingLeftKept DEF FileInv
<1>. QED  BY <1>2, <1>3, <1>4, <1>5, <1>6, <1>10, <1>11, ReadersKept DEF FileInv

LEMMA CreateInv ==
    ASSUME FileInv, NEW w \in Writer, Create(w)
    PROVE  FileInv'
<1>1. FileTypeOK /\ WriterOK(w)  BY DEF FileInv
<1>2. /\ pc[w] = "create" /\ attempt[w] < Attempts /\ staging[Name(w)] = None
      /\ calls[w] >= 1 /\ Mine(w) \notin past /\ Mine(w) \in File
      /\ Name(w) \in Pid \X Attempt
  BY <1>1, WriterTypes DEF Create, WriterOK
<1>3. /\ \A u \in Writer : u # w => pc'[u] = pc[u] /\ handle'[u] = handle[u]
      /\ pc'[w] = "write" /\ handle'[w] = Mine(w)
      /\ \A n \in Pid \X Attempt : staging'[n] = IF n = Name(w) THEN Mine(w) ELSE staging[n]
      /\ \A f \in File : f # Mine(w) => part'[f] = part[f]
      /\ UNCHANGED <<synced, contents, dest, past, undeleted, attempt, calls, result, readers,
                     crashes, faults>>
  BY <1>1, <1>2 DEF Create, FileTypeOK
<1>4. FileTypeOK'
  <2>1. staging' \in [Pid \X Attempt -> File \cup {None}]
    BY <1>1, <1>2 DEF Create, FileTypeOK
  <2>2. part' \in [File -> {"none", "empty", "some", "whole"}]
    BY <1>1 DEF Create, FileTypeOK
  <2>3. /\ pc' \in [Writer -> {"idle", "create", "write", "sync", "rename"}]
        /\ handle' \in [Writer -> File \cup {None}]
    BY <1>1, <1>2 DEF Create, FileTypeOK
  <2>. QED  BY <1>1, <1>3, <2>1, <2>2, <2>3 DEF FileTypeOK, readers
<1>5. Mine(w)' = Mine(w) /\ Name(w)' = Name(w)  BY <1>3 DEF Mine, Name
<1>6. WriterOK(w)'
  BY <1>1, <1>2, <1>3, <1>5 DEF WriterOK, Owns
<1>7. ASSUME NEW u \in Writer, u # w  PROVE WriterOK(u)'
  <2>1. Owns(u) => Name(u) # Name(w) /\ Name(u) \in Pid \X Attempt
    <3>. SUFFICES ASSUME Owns(u) PROVE Name(u) # Name(w) /\ Name(u) \in Pid \X Attempt
      OBVIOUS
    <3>1. /\ staging[Name(u)] = Mine(u) /\ attempt[u] < Attempts /\ calls[u] >= 1
      BY DEF FileInv, WriterOK, Owns
    <3>. QED  BY <1>1, <1>2, <3>1, WriterTypes
  <2>2. Mine(u) # Mine(w)  BY <1>7, MineDiffers DEF Mine
  <2>3. calls[u] >= 1 => Mine(u) \in File  BY <1>1, WriterTypes
  <2>4. calls[u] >= 1 => part'[Mine(u)] = part[Mine(u)]  BY <1>3, <2>2, <2>3
  <2>5. Owns(u) => staging'[Name(u)] = staging[Name(u)]  BY <1>3, <2>1
  <2>6. WriterOK(u)  BY DEF FileInv
  <2>7. Mine(u)' = Mine(u) /\ Name(u)' = Name(u)  BY <1>3 DEF Mine, Name
  <2>. QED  BY <1>3, <1>7, <2>4, <2>5, <2>6, <2>7 DEF WriterOK, Owns
<1>8. PastOK'
  <2>1. \A f \in past \ {None} : f \in File /\ part'[f] = part[f]
    BY <1>1, <1>2, <1>3 DEF FileTypeOK
  <2>. QED  BY <1>3, <2>1 DEF FileInv, PastOK
<1>9. \A u \in Writer : Name(u)' = Name(u)  BY <1>3 DEF Name
<1>10. \A u \in Writer : u # w => (Owns(u)' <=> Owns(u))  BY <1>3 DEF Owns
<1>11. \A p \in Pid : Leftover(p) \subseteq Leftover(p)'
  <2>1. \A n \in Pid \X Attempt : staging'[n] = None => staging[n] = None
    BY <1>2, <1>3
  <2>. QED  BY <1>2, <1>9, <1>10, <2>1, LeftoverGrows
<1>12. NamesAreHeld' /\ ExhaustedOnlyWhenFull'
  <2>1. \A u \in Writer : pc'[u] # "idle" => pc[u] # "idle" /\ attempt'[u] = attempt[u]
    BY <1>2, <1>3
  <2>. QED  BY <1>1, <1>3, <1>11, <2>1, ReachedShrinks, CountsKept DEF FileInv
<1>13. NothingIsLeft'
  <2>1. Owns(w)' /\ ~Owns(w)  BY <1>2, <1>3 DEF Owns
  <2>2. \A n \in Pid \X Attempt : staging'[n] # None =>
            staging[n] # None \/ \E u \in Writer : Owns(u)' /\ Name(u)' = n
    BY <1>3, <1>5, <2>1
  <2>. QED  BY <1>3, <1>9, <1>10, <2>1, <2>2, NothingLeftKept DEF FileInv
<1>. QED  BY <1>3, <1>4, <1>6, <1>7, <1>8, <1>12, <1>13, ReadersKept DEF FileInv

(* A thread that finds a name taken goes on to the next one: the name is left
   over, or its owner is one thread that will not come that far. *)
LEMMA ExistsInv ==
    ASSUME FileInv, NEW w \in Writer, Exists(w)
    PROVE  FileInv'
<1>. DEFINE q == PidOf[w]
<1>1. FileTypeOK /\ WriterOK(w)  BY DEF FileInv
<1>0. PICK b \in Nat : b = attempt[w]  BY <1>1, WriterTypes
<1>2. /\ pc[w] = "create" /\ b < Attempts /\ b \in Nat /\ staging[Name(w)] # None
      /\ Name(w) \in Pid \X Attempt /\ Name(w) = <<q, b>> /\ q \in Pid
  BY <1>0, <1>1, WriterTypes DEF Exists, Name
<1>3. /\ \A u \in Writer : u # w => attempt'[u] = attempt[u]
      /\ attempt'[w] = b + 1
      /\ UNCHANGED <<part, synced, contents, dest, past, staging, undeleted, pc, handle,
                     calls, result, readers, crashes, faults>>
  BY <1>0, <1>1 DEF Exists, FileTypeOK, files, names
<1>4. attempt' \in [Writer -> 0 .. Attempts]
  BY <1>0, <1>1, <1>2, BoundAssumption DEF Exists, FileTypeOK
<1>5. FileTypeOK'  BY <1>1, <1>3, <1>4 DEF FileTypeOK, readers
<1>6. \A u \in Writer : Mine(u)' = Mine(u)  BY <1>3 DEF Mine
<1>7. \A u \in Writer : u # w => Name(u)' = Name(u)  BY <1>3 DEF Name
<1>8. ~Owns(w) /\ \A u \in Writer : Owns(u)' <=> Owns(u)  BY <1>2, <1>3 DEF Owns
<1>9. ASSUME NEW u \in Writer  PROVE WriterOK(u)'
  <2>1. WriterOK(u)  BY DEF FileInv
  <2>2. Owns(u) => u # w  BY <1>8
  <2>3. Owns(u)' => attempt'[u] < Attempts /\ handle'[u] = Mine(u)' /\ staging'[Name(u)'] = Mine(u)'
    BY <1>3, <1>6, <1>7, <1>8, <2>1, <2>2 DEF WriterOK
  <2>. QED  BY <1>3, <1>6, <2>1, <2>3 DEF WriterOK
<1>10. PastOK'  BY <1>3 DEF FileInv, PastOK
<1>11. \A p \in Pid : Leftover(p)' = Leftover(p)
  BY <1>3, <1>7, <1>8, LeftoverSame
<1>12. \A p \in Pid : \A a \in 0 .. Attempts : LeftBelow(p, a)' = LeftBelow(p, a)
  BY <1>11 DEF LeftBelow
<1>13. ASSUME NEW p \in Pid, NEW a \in 0 .. Attempts, ~(p = q /\ a = b + 1)
       PROVE  Reached(p, a)' = Reached(p, a)
  <2>1. ASSUME NEW u \in Writer, PidOf[u] = p
        PROVE  attempt'[u] >= a <=> attempt[u] >= a
    BY <1>0, <1>1, <1>2, <1>3, <1>13, <2>1, WriterTypes
  <2>. QED  BY <1>3, <2>1 DEF Reached, Threads
<1>14. /\ Reached(q, b + 1)' = Reached(q, b + 1) \cup {w}
       /\ Reached(q, b + 1)' \subseteq Reached(q, b) /\ w \in Reached(q, b)
  <2>1. ASSUME NEW u \in Writer
        PROVE  attempt'[u] >= b + 1 <=> attempt[u] >= b + 1 \/ u = w
    BY <1>0, <1>1, <1>2, <1>3, WriterTypes
  <2>2. w \in Threads(q)  BY DEF Threads
  <2>3. \A u \in Writer : attempt[u] >= b + 1 => attempt[u] >= b  BY <1>1, <1>2, WriterTypes
  <2>4. attempt[w] >= b  BY <1>0
  <2>. HIDE DEF q
  <2>. QED  BY <1>2, <1>3, <2>1, <2>2, <2>3, <2>4 DEF Reached, Threads
<1>15. Cardinality(Reached(q, b + 1)') + (b + 1) <=
          Cardinality(Threads(q)) + Cardinality(LeftBelow(q, b + 1))
  <2>. HIDE DEF q
  <2>1. Cardinality(Reached(q, b)) + b <= Cardinality(Threads(q)) + Cardinality(LeftBelow(q, b))
    <3>1. b \in 0 .. Attempts  BY <1>2, BoundAssumption
    <3>. QED  BY <1>2, <1>14, <3>1 DEF FileInv, NamesAreHeld
  <2>2. /\ IsFiniteSet(Reached(q, b)) /\ Cardinality(Reached(q, b)) \in Nat
        /\ IsFiniteSet(LeftBelow(q, b)) /\ Cardinality(LeftBelow(q, b)) \in Nat
        /\ IsFiniteSet(LeftBelow(q, b + 1)) /\ Cardinality(LeftBelow(q, b + 1)) \in Nat
        /\ Cardinality(Threads(q)) \in Nat
    BY CountedIsFinite
  <2>3. LeftBelow(q, b) \subseteq LeftBelow(q, b + 1)
    <3>1. \A n \in Leftover(q) : n[2] \in Nat  BY BoundAssumption DEF Leftover, Attempt
    <3>. QED  BY <1>2, <3>1 DEF LeftBelow
  <2>4. /\ Cardinality(Reached(q, b + 1)') \in Nat
        /\ Cardinality(Reached(q, b + 1)') <= Cardinality(Reached(q, b))
    BY <1>14, <2>2, FS_Subset, FS_CardinalityType
  <2>5. CASE Name(w) \in Leftover(q)
    <3>1. Name(w) \in LeftBelow(q, b + 1) /\ Name(w) \notin LeftBelow(q, b)
      BY <1>2, <2>5 DEF LeftBelow
    <3>2. LeftBelow(q, b) \cup {Name(w)} \subseteq LeftBelow(q, b + 1)  BY <2>3, <3>1
    <3>3. Cardinality(LeftBelow(q, b) \cup {Name(w)}) = Cardinality(LeftBelow(q, b)) + 1
      BY <2>2, <3>1, FS_AddElement
    <3>4. Cardinality(LeftBelow(q, b)) + 1 <= Cardinality(LeftBelow(q, b + 1))
      BY <2>2, <3>2, <3>3, FS_Subset
    <3>. QED  BY <1>2, <2>1, <2>2, <2>4, <3>4
  <2>6. CASE Name(w) \notin Leftover(q)
    <3>1. PICK u \in Writer : Owns(u) /\ Name(u) = Name(w)
      BY <1>2, <2>6, LeftoverIs
    <3>2. u # w /\ PidOf[u] = q /\ attempt[u] = b  BY <1>2, <1>8, <3>1 DEF Name
    <3>3. u \in Reached(q, b) /\ u \notin Reached(q, b + 1)'
      BY <1>2, <1>3, <3>1, <3>2 DEF Reached, Threads, Owns
    <3>4. Reached(q, b + 1)' \subseteq Reached(q, b) \ {u}  BY <1>14, <3>3
    <3>5. /\ Cardinality(Reached(q, b) \ {u}) = Cardinality(Reached(q, b)) - 1
          /\ IsFiniteSet(Reached(q, b) \ {u})
      BY <2>2, <3>3, FS_RemoveElement
    <3>6. Cardinality(Reached(q, b + 1)') <= Cardinality(Reached(q, b)) - 1
      BY <3>4, <3>5, FS_Subset
    <3>7. Cardinality(LeftBelow(q, b)) <= Cardinality(LeftBelow(q, b + 1))
      BY <2>2, <2>3, FS_Subset
    <3>. QED  BY <1>2, <2>1, <2>2, <2>4, <3>6, <3>7
  <2>. QED  BY <2>5, <2>6
<1>16. NamesAreHeld'
  <2>. SUFFICES ASSUME NEW p \in Pid, NEW a \in 0 .. Attempts, Reached(p, a)' # {}
                PROVE  Cardinality(Reached(p, a)') + a <=
                          Cardinality(Threads(p)) + Cardinality(LeftBelow(p, a)')
    BY DEF NamesAreHeld, Threads
  <2>1. CASE p = q /\ a = b + 1  BY <1>12, <1>15, <2>1
  <2>2. CASE ~(p = q /\ a = b + 1)
    BY <1>12, <1>13, <2>2 DEF FileInv, NamesAreHeld
  <2>. QED  BY <2>1, <2>2
<1>17. ExhaustedOnlyWhenFull'
  BY <1>3, <1>11, ProcessAssumption DEF FileInv, ExhaustedOnlyWhenFull
<1>18. NothingIsLeft'  BY <1>3, <1>11 DEF FileInv, NothingIsLeft
<1>. QED  BY <1>3, <1>5, <1>9, <1>10, <1>16, <1>17, <1>18, ReadersKept DEF FileInv

(* A save returns: its thread is idle. *)
LEMMA Returns ==
    ASSUME FileTypeOK, NEW w \in Writer, NEW outcome \in {"ok", "error", "exhausted"},
           Return(w, outcome)
    PROVE  /\ \A u \in Writer : u # w =>
                pc'[u] = pc[u] /\ handle'[u] = handle[u] /\ result'[u] = result[u]
           /\ pc'[w] = "idle" /\ handle'[w] = None /\ result'[w] = outcome
           /\ UNCHANGED <<attempt, calls>>
           /\ pc' \in [Writer -> {"idle", "create", "write", "sync", "rename"}]
           /\ handle' \in [Writer -> File \cup {None}]
           /\ result' \in [Writer -> {"none", "ok", "error", "exhausted"}]
BY DEF Return, FileTypeOK

LEMMA CreateFailsInv ==
    ASSUME FileInv, NEW w \in Writer, CreateFails(w)
    PROVE  FileInv'
<1>1. FileTypeOK /\ WriterOK(w)  BY DEF FileInv
<1>2. pc[w] = "create" /\ ~Owns(w)  BY DEF CreateFails, Owns
<1>3. PICK outcome \in {"error", "exhausted"} :
          Return(w, outcome) /\ (outcome = "exhausted" => attempt[w] = Attempts)
  BY DEF CreateFails
<1>4. UNCHANGED <<part, synced, contents, dest, past, staging, undeleted, readers, crashes>>
  BY DEF CreateFails, files, names
<1>5. /\ \A u \in Writer : u # w =>
           pc'[u] = pc[u] /\ handle'[u] = handle[u] /\ result'[u] = result[u]
      /\ pc'[w] = "idle" /\ handle'[w] = None /\ result'[w] = outcome
      /\ UNCHANGED <<attempt, calls>>
      /\ pc' \in [Writer -> {"idle", "create", "write", "sync", "rename"}]
      /\ handle' \in [Writer -> File \cup {None}]
      /\ result' \in [Writer -> {"none", "ok", "error", "exhausted"}]
  BY <1>1, <1>3, Returns
<1>6. FileTypeOK'
  <2>1. faults' \in 0 .. MaxFaults  BY <1>1, FaultType DEF CreateFails
  <2>. QED  BY <1>1, <1>4, <1>5, <2>1 DEF FileTypeOK, readers
<1>7. \A u \in Writer : Mine(u)' = Mine(u) /\ Name(u)' = Name(u)  BY <1>5 DEF Mine, Name
<1>8. \A u \in Writer : Owns(u)' <=> Owns(u)  BY <1>2, <1>5 DEF Owns
<1>9. WriterOK(w)'
  BY <1>1, <1>2, <1>4, <1>5, <1>7, <1>8 DEF WriterOK
<1>10. ASSUME NEW u \in Writer, u # w  PROVE WriterOK(u)'
  <2>1. WriterOK(u)  BY DEF FileInv
  <2>. QED  BY <1>4, <1>5, <1>7, <1>8, <1>10, <2>1 DEF WriterOK
<1>11. PastOK'  BY <1>4 DEF FileInv, PastOK
<1>12. \A p \in Pid : Leftover(p)' = Leftover(p)
  BY <1>4, <1>7, <1>8, LeftoverSame
<1>13. \A p \in Pid : \A a \in 0 .. Attempts :
          Reached(p, a)' \subseteq Reached(p, a) /\ LeftBelow(p, a)' = LeftBelow(p, a)
  BY <1>5, <1>12 DEF Reached, Threads, LeftBelow
<1>14. NamesAreHeld'
  <2>. SUFFICES ASSUME NEW p \in Pid, NEW a \in 0 .. Attempts, Reached(p, a)' # {}
                PROVE  Cardinality(Reached(p, a)') + a <=
                          Cardinality(Threads(p)) + Cardinality(LeftBelow(p, a))
    BY <1>13 DEF NamesAreHeld, Threads
  <2>1. Cardinality(Reached(p, a)') <= Cardinality(Reached(p, a)) /\ Cardinality(Reached(p, a)') \in Nat
    BY <1>13, CountedIsFinite, FS_Subset, FS_CardinalityType
  <2>2. Cardinality(Reached(p, a)) + a <= Cardinality(Threads(p)) + Cardinality(LeftBelow(p, a))
    BY <1>13 DEF FileInv, NamesAreHeld
  <2>. QED  BY <2>1, <2>2, CountedIsFinite, BoundAssumption
<1>15. ExhaustedOnlyWhenFull'
  <2>. SUFFICES ASSUME NEW u \in Writer, result'[u] = "exhausted"
                PROVE  Cardinality({x \in Writer \ {u} : PidOf[x] = PidOf[u]})
                           + Cardinality(Leftover(PidOf[u])) >= Attempts
    BY <1>12, ProcessAssumption DEF ExhaustedOnlyWhenFull
  <2>1. CASE u # w  BY <1>5, <2>1 DEF FileInv, ExhaustedOnlyWhenFull
  <2>2. CASE u = w
    <3>. DEFINE p == PidOf[w]
                others == {x \in Writer \ {w} : PidOf[x] = p}
    <3>1. attempt[w] = Attempts /\ p \in Pid /\ Attempts \in 0 .. Attempts
      BY <1>3, <1>5, <2>2, ProcessAssumption, BoundAssumption
    <3>2. w \in Reached(p, Attempts)  BY <1>2, <3>1, BoundAssumption DEF Reached, Threads
    <3>3. Cardinality(Reached(p, Attempts)) + Attempts <=
             Cardinality(Threads(p)) + Cardinality(LeftBelow(p, Attempts))
      BY <3>1, <3>2 DEF FileInv, NamesAreHeld
    <3>4. Cardinality(Reached(p, Attempts)) >= 1
      <4>1. {w} \subseteq Reached(p, Attempts)  BY <3>2
      <4>2. Cardinality({w}) = 1 /\ IsFiniteSet(Reached(p, Attempts))
        BY FS_Singleton, CountedIsFinite
      <4>. QED  BY <4>1, <4>2, FS_Subset, CountedIsFinite
    <3>5. Cardinality(others) = Cardinality(Threads(p)) - 1
      <4>1. others = Threads(p) \ {w} /\ w \in Threads(p)  BY DEF Threads
      <4>. QED  BY <4>1, CountedIsFinite, FS_RemoveElement
    <3>6. Cardinality(LeftBelow(p, Attempts)) <= Cardinality(Leftover(p))
      BY CountedIsFinite, FS_Subset DEF LeftBelow
    <3>7. /\ Cardinality(Reached(p, Attempts)) \in Nat /\ Cardinality(Threads(p)) \in Nat
          /\ Cardinality(LeftBelow(p, Attempts)) \in Nat /\ Cardinality(Leftover(p)) \in Nat
      BY CountedIsFinite
    <3>. HIDE DEF p, others
    <3>8. Cardinality(others) + Cardinality(Leftover(p)) >= Attempts
      BY <3>3, <3>4, <3>5, <3>6, <3>7, BoundAssumption
    <3>. QED  BY <2>2, <3>8 DEF p, others
  <2>. QED  BY <2>1, <2>2
<1>16. NothingIsLeft'  BY <1>4, <1>12 DEF FileInv, NothingIsLeft
<1>. QED  BY <1>4, <1>6, <1>9, <1>10, <1>11, <1>14, <1>15, <1>16, ReadersKept DEF FileInv

(* Writing and syncing touch only the save's own file. *)
LEMMA WriteInv ==
    ASSUME FileInv, NEW w \in Writer, Write(w) \/ Sync(w)
    PROVE  FileInv'
<1>1. FileTypeOK /\ WriterOK(w)  BY DEF FileInv
<1>2. /\ pc[w] \in {"write", "sync"} /\ Owns(w) /\ handle[w] = Mine(w) /\ calls[w] >= 1
      /\ Mine(w) \in File /\ Mine(w) \notin past
  BY <1>1, WriterTypes DEF Write, Sync, Owns, WriterOK
<1>3. /\ UNCHANGED <<contents, dest, past, staging, undeleted, attempt, handle, calls, result,
                     readers, crashes, faults>>
      /\ \A u \in Writer : u # w => pc'[u] = pc[u]
      /\ \A f \in File : f # Mine(w) => part'[f] = part[f]
      /\ synced \subseteq synced'
  BY <1>1, <1>2 DEF Write, Sync, names, FileTypeOK, AfterSync
<1>4. /\ pc'[w] \in {"write", "sync", "rename"}
      /\ pc'[w] \in {"sync", "rename"} => part'[Mine(w)] = "whole"
      /\ pc'[w] = "rename" => Mine(w) \in synced'
  <2>1. CASE Write(w)  BY <1>1, <1>2, <2>1 DEF Write, FileTypeOK
  <2>2. CASE Sync(w)  BY <1>1, <1>2, <2>2 DEF Sync, FileTypeOK, AfterSync, WriterOK
  <2>. QED  BY <2>1, <2>2
<1>5. FileTypeOK'
  <2>1. part' \in [File -> {"none", "empty", "some", "whole"}] /\ synced' \subseteq File
    BY <1>1, <1>2 DEF Write, Sync, FileTypeOK, AfterSync
  <2>2. pc' \in [Writer -> {"idle", "create", "write", "sync", "rename"}]
    BY <1>1 DEF Write, Sync, FileTypeOK
  <2>. QED  BY <1>1, <1>3, <2>1, <2>2 DEF FileTypeOK, readers
<1>6. \A u \in Writer : Mine(u)' = Mine(u) /\ Name(u)' = Name(u)  BY <1>3 DEF Mine, Name
<1>7. \A u \in Writer : Owns(u)' <=> Owns(u)  BY <1>2, <1>3, <1>4 DEF Owns
<1>8. WriterOK(w)'
  <2>1. pc[w] # "idle"  BY <1>2
  <2>2. pc'[w] # "idle" => /\ calls'[w] >= 1 /\ result'[w] = "none"
                           /\ Mine(w)' \notin past' /\ contents'[Mine(w)'] \in Value
    BY <1>1, <1>3, <1>6, <2>1 DEF WriterOK
  <2>3. /\ attempt'[w] < Attempts /\ handle'[w] = Mine(w)' /\ staging'[Name(w)'] = Mine(w)'
    BY <1>1, <1>2, <1>3, <1>6 DEF WriterOK
  <2>4. \A n \in 1 .. MaxCalls : n > calls'[w] => <<w, n>> \notin past'
    BY <1>1, <1>3 DEF WriterOK
  <2>. QED  BY <1>1, <1>4, <1>6, <2>1, <2>2, <2>3, <2>4 DEF WriterOK
<1>9. ASSUME NEW u \in Writer, u # w  PROVE WriterOK(u)'
  <2>1. WriterOK(u)  BY DEF FileInv
  <2>2. calls[u] >= 1 => part'[Mine(u)] = part[Mine(u)]
    BY <1>1, <1>3, <1>9, WriterTypes, MineDiffers DEF Mine
  <2>. QED  BY <1>3, <1>6, <1>7, <1>9, <2>1, <2>2 DEF WriterOK
<1>10. PastOK'
  <2>1. \A f \in past \ {None} : part'[f] = part[f]
    BY <1>1, <1>2, <1>3 DEF FileTypeOK
  <2>. QED  BY <1>3, <2>1 DEF FileInv, PastOK
<1>11. \A p \in Pid : Leftover(p)' = Leftover(p)
  BY <1>3, <1>6, <1>7, LeftoverSame
<1>12. NamesAreHeld' /\ ExhaustedOnlyWhenFull'
  <2>1. \A u \in Writer : pc'[u] # "idle" => pc[u] # "idle" /\ attempt'[u] = attempt[u]
    BY <1>2, <1>3
  <2>. QED  BY <1>1, <1>3, <1>11, <2>1, ReachedShrinks, CountsKept DEF FileInv
<1>13. NothingIsLeft'  BY <1>3, <1>11 DEF FileInv, NothingIsLeft
<1>. QED  BY <1>3, <1>5, <1>8, <1>9, <1>10, <1>12, <1>13, ReadersKept DEF FileInv

(* The end of a save that owns a staging file.  It gives up its own name and no
   other, and only its own file may become the destination. *)
LEMMA EndOfSave ==
    ASSUME FileInv, NEW w \in Writer, Owns(w), NEW outcome \in {"ok", "error"},
           Return(w, outcome),
           UNCHANGED <<part, synced, contents, readers, crashes>>, Fault \/ UNCHANGED faults,
           dest' \in past', past \subseteq past', past' \subseteq past \cup {Mine(w)},
           dest' \in File \cup {None}, undeleted' \subseteq Pid \X Attempt,
           Mine(w) \in past' <=> outcome = "ok",
           outcome = "ok" => part[Mine(w)] = "whole" /\ Mine(w) \in synced,
           staging' \in [Pid \X Attempt -> File \cup {None}],
           \A n \in Pid \X Attempt : n # Name(w) => staging'[n] = staging[n],
           undeleted \subseteq undeleted',
           \/ staging'[Name(w)] = None
           \/ staging'[Name(w)] = staging[Name(w)] /\ Name(w) \in undeleted'
    PROVE  FileInv'
<1>1. FileTypeOK /\ WriterOK(w)  BY DEF FileInv
<1>2. /\ pc[w] # "idle" /\ calls[w] >= 1 /\ attempt[w] < Attempts
      /\ Mine(w) \in File /\ Name(w) \in Pid \X Attempt
  BY <1>1, WriterTypes DEF Owns, WriterOK
<1>3. /\ \A u \in Writer : u # w =>
           pc'[u] = pc[u] /\ handle'[u] = handle[u] /\ result'[u] = result[u]
      /\ pc'[w] = "idle" /\ handle'[w] = None /\ result'[w] = outcome
      /\ UNCHANGED <<attempt, calls>>
      /\ pc' \in [Writer -> {"idle", "create", "write", "sync", "rename"}]
      /\ handle' \in [Writer -> File \cup {None}]
      /\ result' \in [Writer -> {"none", "ok", "error", "exhausted"}]
  BY <1>1, Returns
<1>4. FileTypeOK'
  <2>1. past' \subseteq File \cup {None}  BY <1>1, <1>2 DEF FileTypeOK
  <2>2. faults' \in 0 .. MaxFaults  BY <1>1, FaultType
  <2>. QED  BY <1>1, <1>3, <2>1, <2>2 DEF FileTypeOK, readers
<1>5. \A u \in Writer : Mine(u)' = Mine(u) /\ Name(u)' = Name(u)  BY <1>3 DEF Mine, Name
<1>6. WriterOK(w)'
  <2>1. \A n \in 1 .. MaxCalls : n > calls[w] => <<w, n>> # Mine(w)
    BY <1>1, WriterTypes DEF Mine
  <2>2. \A n \in 1 .. MaxCalls : n > calls'[w] => <<w, n>> \notin past'
    BY <1>1, <1>3, <2>1 DEF WriterOK
  <2>. QED  BY <1>2, <1>3, <1>5, <2>2 DEF WriterOK, Owns
<1>7. ASSUME NEW u \in Writer, u # w  PROVE WriterOK(u)'
  <2>1. \A n \in 1 .. MaxCalls : <<u, n>> # Mine(w)  BY <1>7, MineDiffers DEF Mine
  <2>2. Owns(u) => staging'[Name(u)] = staging[Name(u)]
    <3>1. Owns(u) => Name(u) # Name(w)  BY <1>7, OwnersDiffer
    <3>2. Owns(u) => Name(u) \in Pid \X Attempt  BY <1>1, WriterTypes DEF FileInv, WriterOK
    <3>. QED  BY <3>1, <3>2
  <2>. QED  BY <1>3, <1>7, <2>1, <2>2, OtherWriter
<1>8. PastOK'
  <2>1. \A f \in past \ {None} : part[f] = "whole" /\ f \in synced /\ contents[f] \in Value
    BY DEF FileInv, PastOK
  <2>2. contents[Mine(w)] \in Value  BY <1>1, <1>2 DEF WriterOK
  <2>3. \A f \in past' \ {None} : part[f] = "whole" /\ f \in synced /\ contents[f] \in Value
    BY <2>1, <2>2
  <2>. QED  BY <2>3 DEF PastOK
<1>9. \A u \in Writer : Owns(u)' <=> Owns(u) /\ u # w  BY <1>3 DEF Owns
<1>10. \A p \in Pid : Leftover(p) \subseteq Leftover(p)'
  <2>1. \A n \in Pid \X Attempt : staging'[n] = None =>
            staging[n] = None \/ (Owns(w) /\ n = Name(w))
    OBVIOUS
  <2>. QED  BY <1>5, <1>9, <2>1, LeftoverGrows
<1>11. NamesAreHeld' /\ ExhaustedOnlyWhenFull'
  <2>1. \A u \in Writer : pc'[u] # "idle" => pc[u] # "idle" /\ attempt'[u] = attempt[u]
    BY <1>3
  <2>2. \A u \in Writer : result'[u] = "exhausted" => result[u] = "exhausted"
    BY <1>3
  <2>. QED  BY <1>1, <1>10, <2>1, <2>2, ReachedShrinks, CountsKept DEF FileInv
<1>12. NothingIsLeft'
  <2>1. \A n \in Pid \X Attempt : staging'[n] # None => staging[n] # None
    OBVIOUS
  <2>. QED  BY <1>5, <1>9, <2>1, NothingLeftKept DEF FileInv
<1>. QED  BY <1>4, <1>6, <1>7, <1>8, <1>11, <1>12, ReadersKept DEF FileInv

LEMMA SaveFailsInv ==
    ASSUME FileInv, NEW w \in Writer, SaveFails(w)
    PROVE  FileInv'
<1>1. FileTypeOK /\ WriterOK(w) /\ Owns(w)  BY DEF FileInv, SaveFails, Owns
<1>2. Name(w) \in Pid \X Attempt /\ Mine(w) \notin past
  BY <1>1, WriterTypes DEF WriterOK, Owns
<1>3. /\ staging' \in [Pid \X Attempt -> File \cup {None}]
      /\ \A n \in Pid \X Attempt : n # Name(w) => staging'[n] = staging[n]
      /\ undeleted \subseteq undeleted' /\ undeleted' \subseteq Pid \X Attempt
      /\ \/ staging'[Name(w)] = None
         \/ staging'[Name(w)] = staging[Name(w)] /\ Name(w) \in undeleted'
  <2>1. CASE staging' = [staging EXCEPT ![Name(w)] = None] /\ UNCHANGED undeleted
    <3>1. /\ staging' \in [Pid \X Attempt -> File \cup {None}]
          /\ \A n \in Pid \X Attempt : staging'[n] = IF n = Name(w) THEN None ELSE staging[n]
      BY <1>1, <1>2, <2>1, NameGivenUp
    <3>. QED  BY <1>1, <1>2, <2>1, <3>1 DEF FileTypeOK
  <2>2. CASE UNCHANGED staging /\ undeleted' = undeleted \cup {Name(w)}
    BY <1>1, <1>2, <2>2 DEF FileTypeOK
  <2>. QED  BY <2>1, <2>2 DEF SaveFails, RemoveStaging
<1>4. Return(w, "error") /\ Fault /\ UNCHANGED <<part, synced, contents, dest, past, readers, crashes>>
  BY DEF SaveFails, files
<1>5. dest' \in past' /\ dest' \in File \cup {None}  BY <1>1, <1>4 DEF FileInv, PastOK, FileTypeOK
<1>. QED  BY <1>1, <1>2, <1>3, <1>4, <1>5, EndOfSave

LEMMA RenameInv ==
    ASSUME FileInv, NEW w \in Writer, Rename(w)
    PROVE  FileInv'
<1>1. FileTypeOK /\ WriterOK(w) /\ Owns(w) /\ pc[w] = "rename"  BY DEF FileInv, Rename, Owns
<1>2. /\ Name(w) \in Pid \X Attempt /\ staging[Name(w)] = Mine(w)
      /\ Mine(w) \in File /\ part[Mine(w)] = "whole" /\ Mine(w) \in synced
  BY <1>1, WriterTypes DEF WriterOK
<1>3. /\ staging' \in [Pid \X Attempt -> File \cup {None}]
      /\ \A n \in Pid \X Attempt : n # Name(w) => staging'[n] = staging[n]
      /\ staging'[Name(w)] = None
      /\ undeleted' = undeleted /\ undeleted' \subseteq Pid \X Attempt
  BY <1>1, <1>2, NameGivenUp DEF Rename, FileTypeOK
<1>4. Return(w, "ok") /\ UNCHANGED <<part, synced, contents, readers, crashes, faults>>
  BY DEF Rename, files
<1>5. dest' = Mine(w) /\ past' = past \cup {Mine(w)}  BY <1>2 DEF Rename
<1>6. /\ dest' \in past' /\ past \subseteq past' /\ past' \subseteq past \cup {Mine(w)}
      /\ dest' \in File \cup {None} /\ (Mine(w) \in past' <=> "ok" = "ok")
      /\ undeleted \subseteq undeleted'
  BY <1>2, <1>3, <1>5
<1>7. "ok" \in {"ok", "error"}  OBVIOUS
<1>. QED  BY <1>1, <1>2, <1>3, <1>4, <1>6, <1>7, EndOfSave

-----------------------------------------------------------------------------

(* A step that leaves files, names and writers alone. *)
LEMMA ReaderStep ==
    ASSUME FileInv, UNCHANGED <<files, names, writers, crashes>>,
           rpc' \in [Reader -> {"idle", "open", "read"}],
           opened' \in [Reader -> File \cup {None}],
           got' \in [Reader -> ({"none", "empty", "some", "whole"} \X Nat) \cup {None}],
           loads' \in [Reader -> 0 .. MaxLoads], faults' \in 0 .. MaxFaults,
           \A r \in Reader : ReaderOK(r)', LoadsAreWholeAndBounded'
    PROVE  FileInv'
<1>1. FileTypeOK'  BY DEF FileInv, FileTypeOK, files, names, writers
<1>2. \A w \in Writer : WriterOK(w)'
  BY DEF FileInv, WriterOK, Owns, Mine, Name, files, names, writers
<1>3. PastOK'  BY DEF FileInv, PastOK, files, names
<1>4. \A p \in Pid : Leftover(p)' = Leftover(p)
  <2>1. \A w \in Writer : (Owns(w)' <=> Owns(w)) /\ Name(w)' = Name(w)
    BY DEF Owns, Name, writers
  <2>. QED  BY <2>1, LeftoverSame DEF names
<1>5. NamesAreHeld' /\ ExhaustedOnlyWhenFull'
  <2>1. FileTypeOK  BY DEF FileInv
  <2>. QED  BY <1>4, <2>1, ReachedShrinks, CountsKept DEF FileInv, writers
<1>6. NothingIsLeft'  BY <1>4 DEF FileInv, NothingIsLeft, names
<1>. QED  BY <1>1, <1>2, <1>3, <1>5, <1>6 DEF FileInv

LEMMA LoadInv ==
    ASSUME FileInv, NEW r \in Reader, Inspect(r) \/ Open(r) \/ Read(r) \/ LoadFails(r)
    PROVE  FileInv'
<1>1. FileTypeOK /\ ReaderOK(r) /\ PastOK  BY DEF FileInv
<1>2. UNCHANGED <<files, names, writers, crashes>>
  BY DEF Inspect, Open, Read, LoadFails
<1>3. past' = past  BY <1>2 DEF names
<1>4. /\ rpc' \in [Reader -> {"idle", "open", "read"}]
      /\ opened' \in [Reader -> File \cup {None}]
      /\ \A s \in Reader : s # r => rpc'[s] = rpc[s] /\ opened'[s] = opened[s]
  BY <1>1 DEF Inspect, Open, Read, LoadFails, FileTypeOK
<1>8. faults' \in 0 .. MaxFaults
  BY <1>1, FaultType DEF Inspect, Open, Read, LoadFails
<1>9. loads' \in [Reader -> 0 .. MaxLoads]
  BY <1>1, BoundAssumption DEF Inspect, Open, Read, LoadFails, FileTypeOK
<1>10. rpc[r] = "read" => /\ opened[r] \in File /\ part[opened[r]] = "whole"
                          /\ Length(opened[r]) \in Nat
  <2>. SUFFICES ASSUME rpc[r] = "read"
                PROVE  /\ opened[r] \in File /\ part[opened[r]] = "whole"
                       /\ Length(opened[r]) \in Nat
    OBVIOUS
  <2>1. opened[r] \in past \ {None}  BY <1>1 DEF ReaderOK
  <2>2. opened[r] \in File /\ part[opened[r]] = "whole" /\ contents[opened[r]] \in Value
    BY <1>1, <2>1 DEF PastOK, FileTypeOK
  <2>. QED  BY <2>2, SizeAssumption DEF Length
<1>11. got' \in [Reader -> ({"none", "empty", "some", "whole"} \X Nat) \cup {None}]
  BY <1>1, <1>10 DEF Inspect, Open, Read, LoadFails, FileTypeOK
<1>5. ReaderOK(r)'
  BY <1>1, <1>3, <1>4 DEF Inspect, Open, Read, LoadFails, FileTypeOK, ReaderOK, PastOK
<1>6. \A s \in Reader : ReaderOK(s)'
  BY <1>3, <1>4, <1>5 DEF FileInv, ReaderOK
<1>7. LoadsAreWholeAndBounded'
  <2>1. CASE Open(r) \/ LoadFails(r)
    BY <2>1 DEF FileInv, LoadsAreWholeAndBounded, Open, LoadFails
  <2>2. ASSUME NEW v, got' = [got EXCEPT ![r] = v],
               v # None => v[1] = "whole" /\ v[2] <= Maximum
        PROVE  LoadsAreWholeAndBounded'
    <3>. SUFFICES ASSUME NEW s \in Reader, got'[s] # None
                  PROVE  got'[s][1] = "whole" /\ got'[s][2] <= Maximum
      BY DEF LoadsAreWholeAndBounded
    <3>1. got'[s] = IF s = r THEN v ELSE got[s]  BY <1>1, <2>2 DEF FileTypeOK
    <3>. QED  BY <2>2, <3>1 DEF FileInv, LoadsAreWholeAndBounded
  <2>3. CASE Inspect(r)  BY <2>2, <2>3 DEF Inspect
  <2>4. CASE Read(r)
    BY <1>10, <2>2, <2>4 DEF Read, Accepts
  <2>. QED  BY <2>1, <2>3, <2>4
<1>. QED  BY <1>2, <1>4, <1>6, <1>7, <1>8, <1>9, <1>11, ReaderStep

-----------------------------------------------------------------------------

(* The threads of some processes stop where they are. *)
LEMMA StoppedWriters ==
    ASSUME FileTypeOK, NEW P, Stopped(P)
    PROVE  /\ \A w \in Writer :
                /\ pc'[w] = IF PidOf[w] \in P THEN "idle" ELSE pc[w]
                /\ result'[w] = IF PidOf[w] \in P THEN "none" ELSE result[w]
                /\ handle'[w] = IF PidOf[w] \in P THEN None ELSE handle[w]
           /\ attempt' = attempt /\ calls' = calls
           /\ crashes' \in 0 .. MaxCrashes /\ crashes' # 0
           /\ pc' \in [Writer -> {"idle", "create", "write", "sync", "rename"}]
           /\ result' \in [Writer -> {"none", "ok", "error", "exhausted"}]
           /\ handle' \in [Writer -> File \cup {None}]
BY BoundAssumption DEF Stopped, FileTypeOK

(* A crash leaves staging files behind, and only of saves that owned them. *)
LEMMA CrashInv ==
    ASSUME FileInv, NEW p \in Pid, Crash(p)
    PROVE  FileInv'
<1>1. FileTypeOK  BY DEF FileInv
<1>2. /\ UNCHANGED <<part, synced, contents, dest, past, staging, undeleted, readers, faults>>
      /\ Stopped({p})
  BY DEF Crash, files, names
<1>3. /\ \A w \in Writer :
           /\ pc'[w] = IF PidOf[w] = p THEN "idle" ELSE pc[w]
           /\ result'[w] = IF PidOf[w] = p THEN "none" ELSE result[w]
           /\ handle'[w] = IF PidOf[w] = p THEN None ELSE handle[w]
      /\ attempt' = attempt /\ calls' = calls
      /\ crashes' \in 0 .. MaxCrashes /\ crashes' # 0
      /\ pc' \in [Writer -> {"idle", "create", "write", "sync", "rename"}]
      /\ result' \in [Writer -> {"none", "ok", "error", "exhausted"}]
      /\ handle' \in [Writer -> File \cup {None}]
  BY <1>1, <1>2, StoppedWriters
<1>4. FileTypeOK'  BY <1>1, <1>2, <1>3 DEF FileTypeOK, readers
<1>5. \A w \in Writer : Mine(w)' = Mine(w) /\ Name(w)' = Name(w)  BY <1>3 DEF Mine, Name
<1>6. ASSUME NEW w \in Writer  PROVE WriterOK(w)'
  <2>1. WriterOK(w)  BY DEF FileInv
  <2>2. CASE PidOf[w] = p
    BY <1>2, <1>3, <1>5, <2>1, <2>2 DEF WriterOK, Owns
  <2>3. CASE PidOf[w] # p
    BY <1>2, <1>3, <1>5, <2>1, <2>3 DEF WriterOK, Owns
  <2>. QED  BY <2>2, <2>3
<1>7. PastOK'  BY <1>2 DEF FileInv, PastOK
<1>8. \A w \in Writer : Owns(w)' => Owns(w)  BY <1>3 DEF Owns
<1>9. \A q \in Pid : Leftover(q) \subseteq Leftover(q)'
  <2>. SUFFICES ASSUME NEW q \in Pid, NEW n \in Leftover(q)  PROVE n \in Leftover(q)'
    OBVIOUS
  <2>1. n \in {q} \X Attempt /\ staging[n] # None /\ \A w \in Writer : ~(Owns(w) /\ Name(w) = n)
    BY LeftoverIs
  <2>2. \A w \in Writer : ~(Owns(w)' /\ Name(w)' = n)  BY <1>5, <1>8, <2>1
  <2>. QED  BY <1>2, <2>1, <2>2, LeftoverIs
<1>10. NamesAreHeld' /\ ExhaustedOnlyWhenFull'
  <2>1. \A u \in Writer : pc'[u] # "idle" => pc[u] # "idle" /\ attempt'[u] = attempt[u]
    BY <1>3
  <2>2. \A u \in Writer : result'[u] = "exhausted" => result[u] = "exhausted"
    BY <1>3
  <2>. QED  BY <1>1, <1>9, <2>1, <2>2, ReachedShrinks, CountsKept DEF FileInv
<1>11. NothingIsLeft'  BY <1>3 DEF NothingIsLeft
<1>. QED  BY <1>2, <1>4, <1>6, <1>7, <1>10, <1>11, ReadersKept DEF FileInv

(* After a loss of power the destination is one of the files it has named since
   the last one, and those were synced. *)
LEMMA PowerLossInv ==
    ASSUME FileInv, PowerLoss
    PROVE  FileInv'
<1>1. FileTypeOK /\ PastOK  BY DEF FileInv
<1>2. /\ Stopped(Pid) /\ dest' \in past /\ past' = {dest'}
      /\ rpc' = [r \in Reader |-> "idle"] /\ opened' = [r \in Reader |-> None]
      /\ got' = [r \in Reader |-> None]
      /\ UNCHANGED <<synced, contents, loads, undeleted, faults>>
  BY DEF PowerLoss
<1>3. /\ \A w \in Writer : pc'[w] = "idle" /\ result'[w] = "none" /\ handle'[w] = None
      /\ attempt' = attempt /\ calls' = calls
      /\ crashes' \in 0 .. MaxCrashes /\ crashes' # 0
      /\ pc' \in [Writer -> {"idle", "create", "write", "sync", "rename"}]
      /\ result' \in [Writer -> {"none", "ok", "error", "exhausted"}]
      /\ handle' \in [Writer -> File \cup {None}]
  BY <1>1, <1>2, StoppedWriters, ProcessAssumption
<1>4. /\ part' \in [File -> {"none", "empty", "some", "whole"}]
      /\ \A f \in synced : part'[f] = part[f]
  <2>1. PICK torn \in SUBSET {f \in File : part[f] # "none" /\ f \notin synced} :
            part' = [f \in File |-> IF f \in torn THEN "some" ELSE part[f]]
    BY DEF PowerLoss
  <2>. QED  BY <1>1, <2>1 DEF FileTypeOK
<1>5. staging' \in [Pid \X Attempt -> File \cup {None}]
  <2>1. PICK lost \in SUBSET {n \in Pid \X Attempt : staging[n] # None} :
            staging' = [n \in Pid \X Attempt |-> IF n \in lost THEN None ELSE staging[n]]
    BY DEF PowerLoss
  <2>. QED  BY <1>1, <2>1 DEF FileTypeOK
<1>6. FileTypeOK'
  BY <1>1, <1>2, <1>3, <1>4, <1>5 DEF FileTypeOK
<1>7. ASSUME NEW w \in Writer  PROVE WriterOK(w)'
  <2>1. WriterOK(w) /\ past' \subseteq past  BY <1>2 DEF FileInv
  <2>. QED  BY <1>3, <2>1 DEF WriterOK, Owns
<1>8. PastOK'  BY <1>1, <1>2, <1>4 DEF PastOK
<1>9. \A r \in Reader : ReaderOK(r)'  BY <1>2 DEF ReaderOK
<1>10. LoadsAreWholeAndBounded'  BY <1>2 DEF LoadsAreWholeAndBounded
<1>11. \A p \in Pid : \A a \in 0 .. Attempts : Reached(p, a)' = {}
  BY <1>3 DEF Reached, Threads
<1>12. NamesAreHeld'  BY <1>11 DEF NamesAreHeld
<1>13. ExhaustedOnlyWhenFull'  BY <1>3 DEF ExhaustedOnlyWhenFull
<1>14. NothingIsLeft'  BY <1>3 DEF NothingIsLeft
<1>. QED  BY <1>6, <1>7, <1>8, <1>9, <1>10, <1>12, <1>13, <1>14 DEF FileInv

LEMMA FileNextInv == FileInv /\ [FileNext]_fileVars => FileInv'
<1>. SUFFICES ASSUME FileInv, [FileNext]_fileVars PROVE FileInv'  OBVIOUS
<1>1. CASE UNCHANGED fileVars
  <2>1. UNCHANGED <<files, names, writers, crashes>> /\ UNCHANGED readers /\ faults' = faults
    BY <1>1 DEF fileVars
  <2>2. (\A r \in Reader : ReaderOK(r)') /\ LoadsAreWholeAndBounded'
    BY <2>1, ReadersKept DEF names
  <2>. QED  BY <2>1, <2>2, ReaderStep DEF FileInv, FileTypeOK, readers
<1>2. ASSUME NEW w \in Writer,
             \/ \E v \in Value : Begin(w, v)
             \/ Create(w) \/ Exists(w) \/ CreateFails(w) \/ Write(w) \/ Sync(w)
             \/ SaveFails(w) \/ Rename(w)
      PROVE  FileInv'
  BY <1>2, BeginInv, CreateInv, ExistsInv, CreateFailsInv, WriteInv, SaveFailsInv, RenameInv
<1>3. ASSUME NEW r \in Reader, Inspect(r) \/ Open(r) \/ Read(r) \/ LoadFails(r)
      PROVE  FileInv'
  BY <1>3, LoadInv
<1>4. ASSUME NEW p \in Pid, Crash(p)  PROVE FileInv'  BY <1>4, CrashInv
<1>5. CASE PowerLoss  BY <1>5, PowerLossInv
<1>. QED  BY <1>1, <1>2, <1>3, <1>4, <1>5 DEF FileNext

-----------------------------------------------------------------------------
(* Theorems about the replacement of a file *)

(* The inductive invariant of replace_file_bytes_atomically and
   read_file_bytes_bounded: who owns which staging name, what every file that
   may be the destination holds, and how many threads have run through how many
   names. *)
THEOREM FileInvariance == FileSpec => []FileInv
BY FileInitInv, FileNextInv, PTL DEF FileSpec

(* Nobody ever meets half a file under the destination's name or in a load,
   whatever system call fails, whichever process crashes between two of them,
   and at whatever moment the machine loses power. *)
THEOREM FileStaysWhole == FileSpec => []FileIsWhole
<1>1. FileInv => FileIsWhole
  BY DEF FileInv, PastOK, FileIsWhole, DestinationIsWhole
<1>. QED  BY <1>1, FileInvariance, PTL

(* replace_file_bytes_atomically tells the truth: "ok" exactly of a save that
   has been the destination, StagingExhausted only when every staging name can
   have been in use at once, and an error leaves no staging file unless that
   could not be removed. *)
THEOREM SavesStayTruthful == FileSpec => []SavesTellTheTruth
<1>1. FileInv => SavesTellTheTruth
  BY DEF FileInv, WriterOK, SavesTellTheTruth, SaveReportsTruth
<1>. QED  BY <1>1, FileInvariance, PTL

(* A file that has been renamed into place is never written again, although
   staging names are shared by all threads of a process id and reused after
   crashes. *)
THEOREM PublishedStaysImmutable == FileSpec => PublishedIsImmutable
<1>1. FileInv /\ [FileNext]_fileVars =>
          [\A f \in past \ {None} : part'[f] = part[f]]_fileVars
  <2>. SUFFICES ASSUME FileInv, FileNext, NEW f \in past \ {None}
                PROVE  part'[f] = part[f]
    OBVIOUS
  <2>1. FileTypeOK /\ PastOK /\ f \in File /\ f \in synced
    BY DEF FileInv, FileTypeOK, PastOK
  <2>2. ASSUME NEW w \in Writer, Create(w)  PROVE part'[f] = part[f]
    <3>1. Mine(w) # f  BY <2>2 DEF FileInv, WriterOK, Create
    <3>. QED  BY <2>1, <2>2, <3>1 DEF Create, FileTypeOK
  <2>3. ASSUME NEW w \in Writer, Write(w)  PROVE part'[f] = part[f]
    <3>1. handle[w] # f  BY <2>3 DEF FileInv, WriterOK, Owns, Write
    <3>. QED  BY <2>1, <2>3, <3>1 DEF Write, FileTypeOK
  <2>4. CASE PowerLoss
    <3>1. PICK torn \in SUBSET {g \in File : part[g] # "none" /\ g \notin synced} :
              part' = [g \in File |-> IF g \in torn THEN "some" ELSE part[g]]
      BY <2>4 DEF PowerLoss
    <3>. QED  BY <2>1, <3>1
  <2>. QED  BY <2>2, <2>3, <2>4
            DEF FileNext, Begin, Exists, CreateFails, Sync, SaveFails, Rename, Inspect, Open,
                Read, LoadFails, Crash, files
<1>. QED  BY <1>1, FileInvariance, PTL DEF FileSpec, PublishedIsImmutable

-----------------------------------------------------------------------------
(* The cache of compiled libraries *)

CacheTypeOK ==
    /\ lib \in [Key -> {"none", "partial", "good", "damaged"}]
    /\ registry \in [Process -> [Key -> Gate \cup {None}]]
    /\ gate \in [Loader -> Gate \cup {None}]
    /\ owner \in [Gate -> Loader \cup {None}]
    /\ active \in [Process -> Nat]
    /\ stage \in [Loader -> {"idle", "gate", "probe", "units", "rename", "load", "evict", "discard"}]
    /\ key \in [Loader -> Key \cup {None}]
    /\ round \in [Loader -> {1, 2}]
    /\ hit \in [Loader -> BOOLEAN]
    /\ tmp \in [Loader -> {"none", "partial", "good", "damaged"}]
    /\ job \in [Loader -> [Job -> {"none", "ask", "asleep", "run", "ok", "fail"}]]
    /\ cacheLoads \in [Loader -> 0 .. MaxCacheLoads]
    /\ buildFaults \in 0 .. MaxBuildFaults

(* Gates are made by threads of the process that registers them. *)
RegistryOK ==
    \A p \in Process : \A k \in Key :
        registry[p][k] # None => ProcessOf[registry[p][k][1]] = p

(* A load holds the gate that is registered for its key, and has locked it once
   it is beyond "gate". *)
GateOK(t) ==
    /\ stage[t] = "idle" <=> gate[t] = None
    /\ stage[t] # "idle" =>
         /\ key[t] \in Key /\ cacheLoads[t] >= 1
         /\ registry[ProcessOf[t]][key[t]] = gate[t]
    /\ stage[t] \notin {"idle", "gate"} => owner[gate[t]] = t

(* Only one of its compilers writes the library, and it has written all of it
   when the load comes to rename it. *)
BuildOK(t) ==
    /\ stage[t] # "units" => job[t] = NoJobs
    /\ stage[t] = "units" =>
         /\ job[t]["first"] # "none"
         /\ key[t] \notin Chunked => job[t]["second"] = "none" /\ job[t]["link"] = "none"
         /\ \A j \in Job : Writes(t, j) /\ job[t][j] = "ok" => tmp[t] \in {"good", "damaged"}
    /\ stage[t] = "rename" => tmp[t] \in {"good", "damaged"}
    /\ stage[t] \in {"idle", "gate"} => round[t] = 1

Asking(p) == {u \in Loader \X Job : ProcessOf[u[1]] = p /\ job[u[1]][u[2]] = "ask"}

(* The permits that nobody has taken are as many as those who are awake and
   about to ask, or nobody sleeps. *)
PermitsOK(p) ==
    /\ active[p] = Cardinality(Running(p))
    /\ active[p] <= Permits
    /\ Asleep(p) # {} => active[p] + Cardinality(Asking(p)) >= Permits

(* While one process works without faults, the only libraries that do not open
   are those that were there before. *)
HealOK(t) ==
    /\ tmp[t] # "damaged"
    /\ stage[t] \in {"load", "evict"} => lib[key[t]] # "none"
    /\ stage[t] = "load" /\ (round[t] = 2 \/ ~hit[t]) => lib[key[t]] = "good"
    /\ stage[t] = "probe" /\ round[t] = 2 => lib[key[t]] = "none"
    /\ stage[t] # "discard"

Heals ==
    /\ \A t \in Loader : \A j \in Job : job[t][j] = "fail" => buildFaults > 0
    /\ Alone /\ buildFaults = 0 => \A t \in Loader : HealOK(t)

(* The inductive invariant. *)
CacheInv ==
    /\ CacheTypeOK
    /\ RegistryOK
    /\ \A t \in Loader : GateOK(t) /\ BuildOK(t)
    /\ EntriesAreComplete
    /\ \A p \in Process : PermitsOK(p)
    /\ Heals

-----------------------------------------------------------------------------
(* Facts about loads, permits and steps *)

(* What a load in progress holds. *)
LEMMA LoadTypes ==
    ASSUME CacheInv, NEW t \in Loader
    PROVE  /\ ProcessOf[t] \in Process /\ cacheLoads[t] \in Nat
           /\ stage[t] # "idle" => key[t] \in Key /\ gate[t] \in Gate /\ cacheLoads[t] >= 1
BY ThreadAssumption, PermitAssumption DEF CacheInv, CacheTypeOK, GateOK

(* Two loads of one process that have locked the gate of one key are one. *)
LEMMA OneBuilder ==
    ASSUME CacheInv, NEW t \in Loader, NEW u \in Loader,
           ProcessOf[t] = ProcessOf[u], key[t] = key[u],
           stage[t] \notin {"idle", "gate"}, stage[u] \notin {"idle", "gate"}
    PROVE  t = u
<1>1. GateOK(t) /\ GateOK(u)  BY DEF CacheInv
<1>2. gate[t] = gate[u]  BY <1>1 DEF GateOK
<1>. QED  BY <1>1, <1>2 DEF GateOK

(* ... and while one process works alone, any two loads. *)
LEMMA OneBuilderAlone ==
    ASSUME CacheInv, Alone, NEW t \in Loader, NEW u \in Loader, key[t] = key[u],
           stage[t] \notin {"idle", "gate"}, stage[u] \notin {"idle", "gate"}
    PROVE  t = u
<1>1. cacheLoads[t] > 0 /\ cacheLoads[u] > 0  BY LoadTypes
<1>2. ProcessOf[t] = ProcessOf[u]  BY <1>1 DEF Alone
<1>. QED  BY <1>2, OneBuilder

(* The counted sets are finite. *)
LEMMA JobsAreFinite ==
    IsFiniteSet(Loader \X Job)
<1>1. IsFiniteSet(Job)
  <2>1. Job = {"first", "second", "link"}  BY DEF Job, Unit
  <2>2. IsFiniteSet({"first"}) /\ IsFiniteSet({"second"}) /\ IsFiniteSet({"link"})  BY FS_Singleton
  <2>3. Job = ({"first"} \cup {"second"}) \cup {"link"}  BY <2>1
  <2>. QED  BY <2>2, <2>3, FS_Union
<1>. QED  BY <1>1, LoaderAssumption, FS_Product

(* Who runs, sleeps and asks. *)
LEMMA JobSets ==
    ASSUME NEW p
    PROVE  /\ Running(p) = {u \in Loader \X Job : ProcessOf[u[1]] = p /\ job[u[1]][u[2]] = "run"}
           /\ Running(p)' = {u \in Loader \X Job : ProcessOf[u[1]] = p /\ job'[u[1]][u[2]] = "run"}
           /\ Asleep(p)' = {u \in Loader \X Job : ProcessOf[u[1]] = p /\ job'[u[1]][u[2]] = "asleep"}
           /\ Asking(p)' = {u \in Loader \X Job : ProcessOf[u[1]] = p /\ job'[u[1]][u[2]] = "ask"}
           /\ IsFiniteSet(Running(p)) /\ Cardinality(Running(p)) \in Nat
           /\ IsFiniteSet(Running(p)') /\ Cardinality(Running(p)') \in Nat
           /\ IsFiniteSet(Asking(p)) /\ Cardinality(Asking(p)) \in Nat
           /\ IsFiniteSet(Asking(p)') /\ Cardinality(Asking(p)') \in Nat
<1>1. /\ Running(p)' = {u \in Loader \X Job : ProcessOf[u[1]] = p /\ job'[u[1]][u[2]] = "run"}
      /\ Asleep(p)' = {u \in Loader \X Job : ProcessOf[u[1]] = p /\ job'[u[1]][u[2]] = "asleep"}
      /\ Asking(p)' = {u \in Loader \X Job : ProcessOf[u[1]] = p /\ job'[u[1]][u[2]] = "ask"}
  BY DEF Running, Asleep, Asking, Job, Unit
<1>2. /\ Running(p) \subseteq Loader \X Job /\ Running(p)' \subseteq Loader \X Job
      /\ Asking(p) \subseteq Loader \X Job /\ Asking(p)' \subseteq Loader \X Job
  BY <1>1 DEF Running, Asking
<1>3. /\ IsFiniteSet(Running(p)) /\ IsFiniteSet(Running(p)')
      /\ IsFiniteSet(Asking(p)) /\ IsFiniteSet(Asking(p)')
  BY <1>2, JobsAreFinite, FS_Subset
<1>. QED  BY <1>1, <1>3, FS_CardinalityType DEF Running

(* Permits stay exact in a process where nobody starts or stops running or
   sleeping and nobody who asks is forgotten. *)
LEMMA PermitsKept ==
    ASSUME NEW p \in Process, PermitsOK(p), active'[p] = active[p],
           \A u \in Loader \X Job : ProcessOf[u[1]] = p =>
               /\ job'[u[1]][u[2]] = "run" <=> job[u[1]][u[2]] = "run"
               /\ job'[u[1]][u[2]] = "asleep" => job[u[1]][u[2]] = "asleep"
               /\ job[u[1]][u[2]] = "ask" => job'[u[1]][u[2]] = "ask"
    PROVE  PermitsOK(p)'
<1>1. Running(p)' = Running(p)
  <2>1. \A u \in Loader \X Job :
            ProcessOf[u[1]] = p => (job'[u[1]][u[2]] = "run" <=> job[u[1]][u[2]] = "run")
    OBVIOUS
  <2>2. \A u \in Loader \X Job : u \in Running(p)' <=> u \in Running(p)
    BY <2>1, JobSets
  <2>3. Running(p)' \subseteq Loader \X Job /\ Running(p) \subseteq Loader \X Job
    BY JobSets
  <2>. QED  BY <2>2, <2>3
<1>2. Asleep(p)' \subseteq Asleep(p)  BY JobSets DEF Asleep
<1>3. Asking(p) \subseteq Asking(p)'  BY JobSets DEF Asking
<1>4. Cardinality(Asking(p)) <= Cardinality(Asking(p)')  BY <1>3, JobSets, FS_Subset
<1>5. active[p] \in Nat  BY JobSets DEF PermitsOK
<1>6. Asleep(p)' # {} => active'[p] + Cardinality(Asking(p)') >= Permits
  <2>. SUFFICES ASSUME Asleep(p)' # {}
                PROVE  active[p] + Cardinality(Asking(p)') >= Permits
    OBVIOUS
  <2>1. active[p] + Cardinality(Asking(p)) >= Permits  BY <1>2 DEF PermitsOK
  <2>. QED  BY <1>4, <1>5, <2>1, JobSets, PermitAssumption
<1>7. active'[p] = Cardinality(Running(p)') /\ active'[p] <= Permits
  BY <1>1 DEF PermitsOK
<1>. QED  BY <1>6, <1>7 DEF PermitsOK

(* A load that a step does not touch. *)
LEMMA OtherLoader ==
    ASSUME CacheInv, NEW u \in Loader,
           stage'[u] = stage[u], gate'[u] = gate[u], key'[u] = key[u],
           cacheLoads'[u] = cacheLoads[u], tmp'[u] = tmp[u], round'[u] = round[u],
           job'[u] = job[u],
           stage[u] # "idle" =>
               registry'[ProcessOf[u]][key[u]] = registry[ProcessOf[u]][key[u]],
           stage[u] \notin {"idle", "gate"} => owner'[gate[u]] = owner[gate[u]]
    PROVE  GateOK(u)' /\ BuildOK(u)'
<1>1. GateOK(u) /\ BuildOK(u)  BY DEF CacheInv
<1>2. GateOK(u)'  BY <1>1 DEF GateOK
<1>3. \A j \in Job : Writes(u, j)' <=> Writes(u, j)  BY DEF Writes
<1>4. BuildOK(u)'  BY <1>1, <1>3 DEF BuildOK, NoJobs, Job, Unit
<1>. QED  BY <1>2, <1>4

(* Faults and loads are only ever added, so that a process that has worked
   alone and without faults after a step did so before it. *)
LEMMA HealsKept ==
    ASSUME CacheInv, buildFaults' \in Nat, buildFaults' >= buildFaults,
           \A t \in Loader : cacheLoads'[t] \in Nat /\ cacheLoads'[t] >= cacheLoads[t],
           \A t \in Loader : \A j \in Job : job'[t][j] = "fail" =>
               job[t][j] = "fail" \/ buildFaults' > 0,
           Alone /\ buildFaults = 0 /\ buildFaults' = 0 /\ (\A t \in Loader : HealOK(t)) =>
               \A t \in Loader : HealOK(t)'
    PROVE  Heals'
<1>1. buildFaults \in Nat  BY BuildFaultAssumption DEF CacheInv, CacheTypeOK
<1>2. \A t \in Loader : \A j \in Job : job'[t][j] = "fail" => buildFaults' > 0
  BY <1>1 DEF CacheInv, Heals
<1>3. Alone' => Alone
  <2>. SUFFICES ASSUME Alone', NEW t \in Loader, NEW u \in Loader,
                       cacheLoads[t] > 0, cacheLoads[u] > 0
                PROVE  ProcessOf[t] = ProcessOf[u]
    BY DEF Alone
  <2>1. cacheLoads'[t] > 0 /\ cacheLoads'[u] > 0  BY LoadTypes
  <2>. QED  BY <2>1 DEF Alone
<1>4. buildFaults' = 0 => buildFaults = 0  BY <1>1
<1>5. Alone' /\ buildFaults' = 0 => \A t \in Loader : HealOK(t)'
  BY <1>3, <1>4 DEF CacheInv, Heals
<1>. QED  BY <1>2, <1>5 DEF Heals, Job, Unit

(* A load that a step does not touch heals as before if nobody else changes the
   library of its key. *)
LEMMA HealOther ==
    ASSUME NEW u \in Loader, HealOK(u),
           stage'[u] = stage[u], key'[u] = key[u], tmp'[u] = tmp[u],
           round'[u] = round[u], hit'[u] = hit[u],
           stage[u] \notin {"idle", "gate"} => lib'[key[u]] = lib[key[u]]
    PROVE  HealOK(u)'
BY DEF HealOK

-----------------------------------------------------------------------------
(* Initial states and steps of the cache *)

(* Nobody loads; the directory holds what earlier processes have left. *)
LEMMA CacheInitInv == CacheInit => CacheInv
<1>. SUFFICES ASSUME CacheInit PROVE CacheInv  OBVIOUS
<1>1. NoJobs \in [Job -> {"none", "ask", "asleep", "run", "ok", "fail"}] /\ \A j \in Job : NoJobs[j] = "none"
  BY DEF NoJobs
<1>2. /\ \A t \in Loader : /\ stage[t] = "idle" /\ gate[t] = None /\ job[t] = NoJobs
                           /\ round[t] = 1 /\ tmp[t] = "none"
      /\ \A p \in Process : active[p] = 0 /\ \A k \in Key : registry[p][k] = None
      /\ \A k \in Key : lib[k] # "partial"
  BY DEF CacheInit
<1>3. CacheTypeOK
  <2>1. job \in [Loader -> [Job -> {"none", "ask", "asleep", "run", "ok", "fail"}]]
    BY <1>1 DEF CacheInit
  <2>. QED  BY <2>1, PermitAssumption, BuildFaultAssumption DEF CacheInit, CacheTypeOK
<1>4. RegistryOK  BY <1>2 DEF RegistryOK
<1>5. \A t \in Loader : GateOK(t) /\ BuildOK(t)  BY <1>2 DEF GateOK, BuildOK
<1>6. ASSUME NEW p \in Process  PROVE PermitsOK(p)
  <2>1. \A u \in Loader \X Job : job[u[1]][u[2]] = "none"  BY <1>1, <1>2
  <2>2. Running(p) = {} /\ Asleep(p) = {}  BY <2>1 DEF Running, Asleep
  <2>. QED  BY <1>2, <2>2, FS_EmptySet, PermitAssumption DEF PermitsOK
<1>7. Heals  BY <1>1, <1>2 DEF Heals, HealOK
<1>. QED  BY <1>2, <1>3, <1>4, <1>5, <1>6, <1>7 DEF CacheInv, EntriesAreComplete

(* A step of a load that has locked its gate and does not return: it changes
   its own state and the library of its own key. *)
LEMMA LocalStep ==
    ASSUME CacheInv, CacheTypeOK', NEW t \in Loader,
           stage[t] \notin {"idle", "gate"}, stage'[t] \notin {"idle", "gate"},
           UNCHANGED <<locks, active, key, cacheLoads>>,
           \A u \in Loader : u # t =>
               /\ stage'[u] = stage[u] /\ round'[u] = round[u] /\ hit'[u] = hit[u]
               /\ tmp'[u] = tmp[u] /\ job'[u] = job[u],
           \A k \in Key : k # key[t] => lib'[k] = lib[k],
           lib'[key[t]] # "partial",
           BuildOK(t)',
           \A j \in Job :
               /\ job'[t][j] = "run" <=> job[t][j] = "run"
               /\ job'[t][j] = "asleep" => job[t][j] = "asleep"
               /\ job[t][j] = "ask" => job'[t][j] = "ask"
               /\ job'[t][j] = "fail" => job[t][j] = "fail",
           buildFaults' \in Nat, buildFaults' >= buildFaults,
           Alone /\ buildFaults' = 0 /\ HealOK(t) => HealOK(t)'
    PROVE  CacheInv'
<1>1. /\ registry' = registry /\ gate' = gate /\ owner' = owner /\ key' = key
      /\ cacheLoads' = cacheLoads /\ active' = active
  BY DEF locks
<1>2. RegistryOK'  BY <1>1 DEF CacheInv, RegistryOK
<1>3. \A u \in Loader : u # t => GateOK(u)' /\ BuildOK(u)'
  BY <1>1, OtherLoader
<1>4. GateOK(t)'
  <2>1. GateOK(t)  BY DEF CacheInv
  <2>. QED  BY <1>1, <2>1 DEF GateOK
<1>5. EntriesAreComplete'  BY DEF CacheInv, EntriesAreComplete, Key
<1>6. ASSUME NEW p \in Process  PROVE PermitsOK(p)'
  <2>1. \A u \in Loader \X Job : u[1] \in Loader /\ u[2] \in Job  OBVIOUS
  <2>2. PermitsOK(p)  BY DEF CacheInv
  <2>. QED  BY <1>1, <2>1, <2>2, PermitsKept
<1>7. Heals'
  <2>1. ASSUME Alone, buildFaults' = 0, \A u \in Loader : HealOK(u), NEW u \in Loader, u # t
        PROVE  HealOK(u)'
    <3>1. stage[u] \notin {"idle", "gate"} => key[u] # key[t]  BY <2>1, OneBuilderAlone
    <3>2. stage[u] \notin {"idle", "gate"} => lib'[key[u]] = lib[key[u]]
      BY <3>1, LoadTypes
    <3>. QED  BY <1>1, <2>1, <3>2, HealOther
  <2>2. \A u \in Loader : cacheLoads'[u] \in Nat /\ cacheLoads'[u] >= cacheLoads[u]
    BY <1>1, LoadTypes
  <2>3. \A u \in Loader : \A j \in Job : job'[u][j] = "fail" => job[u][j] = "fail"
    OBVIOUS
  <2>. QED  BY <2>1, <2>2, <2>3, HealsKept
<1>. QED  BY <1>2, <1>3, <1>4, <1>5, <1>6, <1>7 DEF CacheInv

(* A load returns: its compilers have ended, and it unlocks and drops its
   gate. *)
LEMMA ReturnStep ==
    ASSUME CacheInv, NEW t \in Loader, stage[t] \notin {"idle", "gate"},
           stage' = [stage EXCEPT ![t] = "idle"], Returned(t),
           UNCHANGED <<active, cacheLoads>>,
           Joined(t),
           lib' \in [Key -> {"none", "partial", "good", "damaged"}],
           \A k \in Key : k # key[t] => lib'[k] = lib[k],
           lib'[key[t]] # "partial",
           buildFaults' \in 0 .. MaxBuildFaults, buildFaults' >= buildFaults
    PROVE  CacheInv'
<1>1. CacheTypeOK /\ GateOK(t) /\ gate[t] \in Gate  BY LoadTypes DEF CacheInv
<1>0. NoJobs \in [Job -> {"none", "ask", "asleep", "run", "ok", "fail"}] /\ \A j \in Job : NoJobs[j] = "none"
  BY DEF NoJobs
<1>2. /\ \A u \in Loader : u # t =>
           /\ stage'[u] = stage[u] /\ round'[u] = round[u] /\ hit'[u] = hit[u]
           /\ tmp'[u] = tmp[u] /\ job'[u] = job[u] /\ key'[u] = key[u] /\ gate'[u] = gate[u]
      /\ stage'[t] = "idle" /\ round'[t] = 1 /\ hit'[t] = FALSE /\ tmp'[t] = "none"
      /\ job'[t] = NoJobs /\ key'[t] = None /\ gate'[t] = None
      /\ \A g \in Gate : owner'[g] = IF g = gate[t] THEN None ELSE owner[g]
      /\ registry' = registry /\ active' = active /\ cacheLoads' = cacheLoads
  BY <1>1 DEF Returned, CacheTypeOK
<1>3. CacheTypeOK'
  <2>1. owner' \in [Gate -> Loader \cup {None}] /\ gate' \in [Loader -> Gate \cup {None}]
    BY <1>1 DEF Returned, CacheTypeOK
  <2>2. /\ stage' \in [Loader -> {"idle", "gate", "probe", "units", "rename", "load", "evict", "discard"}]
        /\ key' \in [Loader -> Key \cup {None}] /\ round' \in [Loader -> {1, 2}]
        /\ hit' \in [Loader -> BOOLEAN] /\ tmp' \in [Loader -> {"none", "partial", "good", "damaged"}]
    BY <1>1 DEF Returned, CacheTypeOK
  <2>3. job' \in [Loader -> [Job -> {"none", "ask", "asleep", "run", "ok", "fail"}]]
    BY <1>0, <1>1 DEF Returned, CacheTypeOK
  <2>. QED  BY <1>1, <1>2, <2>1, <2>2, <2>3 DEF CacheTypeOK, Key, Job, Unit, Gate
<1>4. RegistryOK'  BY <1>2 DEF CacheInv, RegistryOK
<1>5. ASSUME NEW u \in Loader, u # t  PROVE GateOK(u)' /\ BuildOK(u)'
  <2>1. stage[u] \notin {"idle", "gate"} => gate[u] # gate[t] /\ gate[u] \in Gate
    BY <1>1, <1>5, LoadTypes DEF CacheInv, GateOK
  <2>2. stage[u] \notin {"idle", "gate"} => owner'[gate[u]] = owner[gate[u]]
    BY <1>2, <2>1
  <2>. QED  BY <1>2, <1>5, <2>2, OtherLoader
<1>6. GateOK(t)' /\ BuildOK(t)'  BY <1>2 DEF GateOK, BuildOK, NoJobs, Job, Unit
<1>7. EntriesAreComplete'  BY DEF CacheInv, EntriesAreComplete, Key
<1>8. ASSUME NEW p \in Process  PROVE PermitsOK(p)'
  <2>1. \A u \in Loader \X Job : u[1] \in Loader /\ u[2] \in Job  OBVIOUS
  <2>2. PermitsOK(p)  BY DEF CacheInv
  <2>3. \A j \in Job : job[t][j] \notin {"run", "asleep", "ask"} /\ job'[t][j] = "none"
    BY <1>0, <1>2 DEF Joined
  <2>4. \A u \in Loader : \A j \in Job :
            /\ job'[u][j] = "run" <=> job[u][j] = "run"
            /\ job'[u][j] = "asleep" => job[u][j] = "asleep"
            /\ job[u][j] = "ask" => job'[u][j] = "ask"
    BY <1>2, <2>3
  <2>. QED  BY <1>2, <2>1, <2>2, <2>4, PermitsKept
<1>9. Heals'
  <2>1. ASSUME Alone, buildFaults' = 0, \A u \in Loader : HealOK(u), NEW u \in Loader
        PROVE  HealOK(u)'
    <3>1. CASE u = t  BY <1>2, <3>1 DEF HealOK
    <3>2. CASE u # t
      <4>1. stage[u] \notin {"idle", "gate"} => key[u] # key[t]  BY <2>1, <3>2, OneBuilderAlone
      <4>2. stage[u] \notin {"idle", "gate"} => lib'[key[u]] = lib[key[u]]
        BY <4>1, LoadTypes
      <4>. QED  BY <1>2, <2>1, <3>2, <4>2, HealOther
    <3>. QED  BY <3>1, <3>2
  <2>2. \A u \in Loader : cacheLoads'[u] \in Nat /\ cacheLoads'[u] >= cacheLoads[u]
    BY <1>2, LoadTypes
  <2>3. \A u \in Loader : \A j \in Job : job'[u][j] = "fail" => job[u][j] = "fail"
    BY <1>0, <1>2
  <2>4. buildFaults' \in Nat  BY BuildFaultAssumption
  <2>. QED  BY <2>1, <2>2, <2>3, <2>4, HealsKept
<1>. QED  BY <1>3, <1>4, <1>5, <1>6, <1>7, <1>8, <1>9 DEF CacheInv

(* Faults are counted up to their bound. *)
LEMMA BuildFaultType ==
    ASSUME CacheInv, BuildFault \/ UNCHANGED buildFaults
    PROVE  /\ buildFaults' \in 0 .. MaxBuildFaults /\ buildFaults' \in Nat
           /\ buildFaults' >= buildFaults /\ (BuildFault => buildFaults' > 0)
BY BuildFaultAssumption DEF CacheInv, CacheTypeOK, BuildFault

LEMMA ProbeInv ==
    ASSUME CacheInv, NEW t \in Loader, Probe(t)
    PROVE  CacheInv'
<1>. DEFINE started == [j \in Job |-> IF j \in Units(key[t]) THEN "ask" ELSE "none"]
<1>1. CacheTypeOK /\ BuildOK(t) /\ stage[t] = "probe" /\ key[t] \in Key /\ lib[key[t]] # "partial"
  BY LoadTypes DEF CacheInv, Probe, EntriesAreComplete
<1>2. /\ \A j \in Job : job[t][j] = "none"
      /\ \A j \in Job : started[j] \in {"ask", "none"} /\ started["first"] = "ask"
      /\ key[t] \notin Chunked => started["second"] = "none" /\ started["link"] = "none"
      /\ started \in [Job -> {"none", "ask", "asleep", "run", "ok", "fail"}]
  BY <1>1 DEF BuildOK, NoJobs, Units, Unit, Job
<1>. HIDE DEF started
<1>3. /\ UNCHANGED <<locks, active, key, cacheLoads>> /\ lib' = lib /\ buildFaults' = buildFaults
      /\ tmp' = tmp /\ round' = round
  BY DEF Probe
<1>4. CASE lib[key[t]] # "none"
  <2>1. /\ stage' = [stage EXCEPT ![t] = "load"] /\ hit' = [hit EXCEPT ![t] = TRUE] /\ job' = job
    BY <1>4 DEF Probe
  <2>2. CacheTypeOK'  BY <1>1, <1>3, <2>1 DEF CacheTypeOK, locks, Key, Job, Unit, Gate
  <2>3. BuildOK(t)'
    BY <1>1, <1>3, <2>1 DEF BuildOK, CacheTypeOK, NoJobs, Job, Unit
  <2>4. HealOK(t) => HealOK(t)'
    BY <1>1, <1>3, <1>4, <2>1 DEF HealOK, CacheTypeOK
  <2>5. buildFaults' \in Nat /\ buildFaults' >= buildFaults  BY <1>3, BuildFaultType
  <2>6. /\ stage'[t] = "load"
        /\ \A u \in Loader : u # t => stage'[u] = stage[u] /\ hit'[u] = hit[u]
    BY <1>1, <2>1 DEF CacheTypeOK
  <2>. QED  BY <1>1, <1>3, <2>1, <2>2, <2>3, <2>4, <2>5, <2>6, LocalStep
<1>5. CASE lib[key[t]] = "none"
  <2>1. /\ stage' = [stage EXCEPT ![t] = "units"] /\ hit' = [hit EXCEPT ![t] = FALSE]
        /\ job' = [job EXCEPT ![t] = started]
    BY <1>5 DEF Probe, started
  <2>2. CacheTypeOK'
    BY <1>1, <1>2, <1>3, <2>1 DEF CacheTypeOK, locks, Key, Job, Unit, Gate
  <2>3. /\ stage'[t] = "units" /\ job'[t] = started
        /\ \A u \in Loader : u # t => stage'[u] = stage[u] /\ hit'[u] = hit[u] /\ job'[u] = job[u]
    BY <1>1, <2>1 DEF CacheTypeOK
  <2>4. BuildOK(t)'
    <3>1. \A j \in Job : job'[t][j] # "ok"  BY <1>2, <2>3
    <3>. QED  BY <1>2, <1>3, <2>3, <3>1 DEF BuildOK, Job, Unit
  <2>5. HealOK(t) => HealOK(t)'  BY <1>3, <2>3 DEF HealOK
  <2>6. buildFaults' \in Nat /\ buildFaults' >= buildFaults  BY <1>3, BuildFaultType
  <2>7. \A j \in Job : job'[t][j] \in {"ask", "none"} /\ job[t][j] = "none"  BY <1>2, <2>3
  <2>. QED  BY <1>1, <1>3, <2>2, <2>3, <2>4, <2>5, <2>6, <2>7, LocalStep
<1>. QED  BY <1>4, <1>5

(* The load has all its jobs' results: it starts the link or has its library. *)
LEMMA JoinUnitsInv ==
    ASSUME CacheInv, NEW t \in Loader, JoinUnits(t)
    PROVE  CacheInv'
<1>1. /\ CacheTypeOK /\ BuildOK(t) /\ stage[t] = "units" /\ key[t] \in Key /\ lib[key[t]] # "partial"
      /\ \A j \in Job : job[t][j] \in {"none", "ok"}
  BY LoadTypes DEF CacheInv, JoinUnits, Joined, EntriesAreComplete
<1>2. /\ UNCHANGED <<locks, active, key, cacheLoads>> /\ lib' = lib /\ buildFaults' = buildFaults
      /\ tmp' = tmp /\ round' = round /\ hit' = hit
  BY DEF JoinUnits
<1>3. buildFaults' \in Nat /\ buildFaults' >= buildFaults  BY <1>2, BuildFaultType
<1>4. CASE key[t] \in Chunked /\ job[t]["link"] = "none"
  <2>1. job' = [job EXCEPT ![t]["link"] = "ask"] /\ stage' = stage
    BY <1>4 DEF JoinUnits
  <2>2. CacheTypeOK'
    <3>1. job' \in [Loader -> [Job -> {"none", "ask", "asleep", "run", "ok", "fail"}]]
      BY <1>1, <2>1 DEF CacheTypeOK
    <3>. QED  BY <1>1, <1>2, <2>1, <3>1 DEF CacheTypeOK, locks, Key, Job, Unit, Gate
  <2>3. /\ \A j \in Job : job'[t][j] = IF j = "link" THEN "ask" ELSE job[t][j]
        /\ \A u \in Loader : u # t => job'[u] = job[u]
    BY <1>1, <2>1 DEF CacheTypeOK
  <2>4. BuildOK(t)'
    <3>1. \A j \in Job : Writes(t, j)' /\ job'[t][j] = "ok" => Writes(t, j) /\ job[t][j] = "ok"
      BY <1>2, <2>3 DEF Writes
    <3>2. "first" \in Job  BY DEF Job, Unit
    <3>. QED  BY <1>1, <1>2, <1>4, <2>1, <2>3, <3>1, <3>2 DEF BuildOK, Job, Unit
  <2>5. HealOK(t) => HealOK(t)'  BY <1>1, <1>2, <2>1 DEF HealOK
  <2>6. stage[t] \notin {"idle", "gate"} /\ stage'[t] \notin {"idle", "gate"}  BY <1>1, <2>1
  <2>7. \A j \in Job : job'[t][j] \in {"none", "ok", "ask"}  BY <1>1, <2>3
  <2>. QED  BY <1>1, <1>2, <1>3, <2>1, <2>2, <2>3, <2>4, <2>5, <2>6, <2>7, LocalStep
<1>5. CASE ~(key[t] \in Chunked /\ job[t]["link"] = "none")
  <2>1. job' = [job EXCEPT ![t] = NoJobs] /\ stage' = [stage EXCEPT ![t] = "rename"]
    BY <1>5 DEF JoinUnits
  <2>0. NoJobs \in [Job -> {"none", "ask", "asleep", "run", "ok", "fail"}] /\ \A j \in Job : NoJobs[j] = "none"
    BY DEF NoJobs
  <2>2. CacheTypeOK'
    BY <1>1, <1>2, <2>0, <2>1 DEF CacheTypeOK, locks, Key, Job, Unit, Gate
  <2>3. /\ stage'[t] = "rename" /\ job'[t] = NoJobs
        /\ \A u \in Loader : u # t => stage'[u] = stage[u] /\ job'[u] = job[u]
    BY <1>1, <2>1 DEF CacheTypeOK
  <2>4. tmp[t] \in {"good", "damaged"}
    <3>1. CASE key[t] \in Chunked
      <4>1. "link" \in Job /\ Writes(t, "link")  BY <3>1 DEF Job, Writes
      <4>2. job[t]["link"] = "ok"  BY <1>1, <1>5, <3>1, <4>1
      <4>. QED  BY <1>1, <4>1, <4>2 DEF BuildOK
    <3>2. CASE key[t] \notin Chunked
      <4>1. "first" \in Job /\ Writes(t, "first")  BY <3>2 DEF Job, Unit, Writes
      <4>2. job[t]["first"] = "ok"  BY <1>1, <4>1 DEF BuildOK
      <4>. QED  BY <1>1, <4>1, <4>2 DEF BuildOK
    <3>. QED  BY <3>1, <3>2
  <2>5. BuildOK(t)'  BY <1>2, <2>3, <2>4 DEF BuildOK, NoJobs, Job, Unit
  <2>6. HealOK(t) => HealOK(t)'  BY <1>2, <2>3 DEF HealOK
  <2>7. \A j \in Job : job'[t][j] = "none"  BY <2>0, <2>3
  <2>. QED  BY <1>1, <1>2, <1>3, <2>2, <2>3, <2>5, <2>6, <2>7, LocalStep
<1>. QED  BY <1>4, <1>5

LEMMA BuildFailsInv ==
    ASSUME CacheInv, NEW t \in Loader, BuildFails(t)
    PROVE  CacheInv'
<1>1. /\ stage[t] = "units" /\ stage' = [stage EXCEPT ![t] = "idle"] /\ Returned(t)
      /\ UNCHANGED <<lib, active, cacheLoads, buildFaults>> /\ Joined(t)
  BY DEF BuildFails
<1>2. buildFaults' \in 0 .. MaxBuildFaults /\ buildFaults' >= buildFaults  BY <1>1, BuildFaultType
<1>3. lib' \in [Key -> {"none", "partial", "good", "damaged"}] /\ lib'[key[t]] # "partial"
  BY <1>1, LoadTypes DEF CacheInv, CacheTypeOK, EntriesAreComplete
<1>. QED  BY <1>1, <1>2, <1>3, ReturnStep

(* A load that is not building has no compilers. *)
LEMMA NoCompilers ==
    ASSUME CacheInv, NEW t \in Loader, stage[t] # "units"
    PROVE  Joined(t) /\ \A j \in Job : job[t][j] = "none"
BY DEF CacheInv, BuildOK, NoJobs, Joined

LEMMA PublishLibraryInv ==
    ASSUME CacheInv, NEW t \in Loader, PublishLibrary(t)
    PROVE  CacheInv'
<1>1. /\ CacheTypeOK /\ BuildOK(t) /\ stage[t] = "rename" /\ key[t] \in Key
      /\ tmp[t] \in {"good", "damaged"}
  BY LoadTypes DEF CacheInv, PublishLibrary, BuildOK
<1>2. /\ UNCHANGED <<locks, active, key, cacheLoads>> /\ buildFaults' = buildFaults
      /\ round' = round /\ hit' = hit /\ job' = job
      /\ lib' = [lib EXCEPT ![key[t]] = tmp[t]]
      /\ tmp' = [tmp EXCEPT ![t] = "none"] /\ stage' = [stage EXCEPT ![t] = "load"]
  BY DEF PublishLibrary
<1>3. buildFaults' \in Nat /\ buildFaults' >= buildFaults  BY <1>2, BuildFaultType
<1>4. CacheTypeOK'
  BY <1>1, <1>2 DEF CacheTypeOK, locks, Key, Job, Unit, Gate
<1>5. /\ \A k \in Key : lib'[k] = IF k = key[t] THEN tmp[t] ELSE lib[k]
      /\ \A u \in Loader : u # t => tmp'[u] = tmp[u] /\ stage'[u] = stage[u]
      /\ tmp'[t] = "none" /\ stage'[t] = "load"
  BY <1>1, <1>2 DEF CacheTypeOK
<1>6. BuildOK(t)'  BY <1>1, <1>2, <1>5 DEF BuildOK, NoJobs, Job, Unit
<1>7. HealOK(t) => HealOK(t)'
  BY <1>1, <1>2, <1>5 DEF HealOK
<1>8. lib'[key[t]] # "partial"  BY <1>1, <1>5
<1>9. \A j \in Job : job'[t][j] = "none" /\ job[t][j] = "none"  BY <1>1, <1>2, NoCompilers
<1>. QED  BY <1>1, <1>2, <1>3, <1>4, <1>5, <1>6, <1>7, <1>8, <1>9, LocalStep

LEMMA PublishFailsInv ==
    ASSUME CacheInv, NEW t \in Loader, PublishFails(t)
    PROVE  CacheInv'
<1>1. /\ CacheTypeOK /\ BuildOK(t) /\ stage[t] = "rename" /\ key[t] \in Key /\ lib[key[t]] # "partial"
      /\ Joined(t) /\ \A j \in Job : job[t][j] = "none"
  BY LoadTypes, NoCompilers DEF CacheInv, PublishFails, EntriesAreComplete
<1>2. lib' = lib /\ active' = active /\ cacheLoads' = cacheLoads /\ BuildFault
  BY DEF PublishFails
<1>3. /\ buildFaults' \in 0 .. MaxBuildFaults /\ buildFaults' \in Nat
      /\ buildFaults' >= buildFaults /\ buildFaults' > 0
  BY <1>2, BuildFaultType
<1>4. CASE lib[key[t]] # "none"
  <2>1. /\ UNCHANGED <<locks, key, round, hit, job>>
        /\ tmp' = [tmp EXCEPT ![t] = "none"] /\ stage' = [stage EXCEPT ![t] = "load"]
    BY <1>4 DEF PublishFails
  <2>2. CacheTypeOK'
    BY <1>1, <1>2, <1>3, <2>1 DEF CacheTypeOK, locks, Key, Job, Unit, Gate
  <2>3. /\ \A u \in Loader : u # t => tmp'[u] = tmp[u] /\ stage'[u] = stage[u]
        /\ tmp'[t] = "none" /\ stage'[t] = "load"
    BY <1>1, <2>1 DEF CacheTypeOK
  <2>4. BuildOK(t)'  BY <1>1, <2>1, <2>3 DEF BuildOK, NoJobs, Job, Unit
  <2>. QED  BY <1>1, <1>2, <1>3, <2>1, <2>2, <2>3, <2>4, LocalStep
<1>5. CASE lib[key[t]] = "none"
  <2>1. stage' = [stage EXCEPT ![t] = "idle"] /\ Returned(t)
    BY <1>5 DEF PublishFails
  <2>2. lib' \in [Key -> {"none", "partial", "good", "damaged"}]  BY <1>1, <1>2 DEF CacheTypeOK
  <2>. QED  BY <1>1, <1>2, <1>3, <2>1, <2>2, ReturnStep
<1>. QED  BY <1>4, <1>5

LEMMA LibraryOpensInv ==
    ASSUME CacheInv, NEW t \in Loader, LibraryOpens(t) \/ EvictFails(t)
    PROVE  CacheInv'
<1>1. /\ stage[t] \in {"load", "evict"} /\ stage' = [stage EXCEPT ![t] = "idle"] /\ Returned(t)
      /\ UNCHANGED <<lib, active, cacheLoads, buildFaults>>
  BY DEF LibraryOpens, EvictFails
<1>2. buildFaults' \in 0 .. MaxBuildFaults /\ buildFaults' >= buildFaults  BY <1>1, BuildFaultType
<1>3. lib' \in [Key -> {"none", "partial", "good", "damaged"}] /\ lib'[key[t]] # "partial"
  BY <1>1, LoadTypes DEF CacheInv, CacheTypeOK, EntriesAreComplete
<1>4. Joined(t)  BY <1>1, NoCompilers
<1>. QED  BY <1>1, <1>2, <1>3, <1>4, ReturnStep

LEMMA LibraryRejectedInv ==
    ASSUME CacheInv, NEW t \in Loader, LibraryRejected(t)
    PROVE  CacheInv'
<1>1. /\ CacheTypeOK /\ BuildOK(t) /\ stage[t] = "load" /\ key[t] \in Key /\ lib[key[t]] # "partial"
      /\ lib[key[t]] # "good" /\ \A j \in Job : job[t][j] = "none"
  BY LoadTypes, NoCompilers DEF CacheInv, LibraryRejected, EntriesAreComplete
<1>2. /\ UNCHANGED <<lib, locks, active, key, round, hit, tmp, job, cacheLoads, buildFaults>>
      /\ stage' = [stage EXCEPT ![t] = IF MayRebuild(t) THEN "evict" ELSE "discard"]
  BY DEF LibraryRejected
<1>3. buildFaults' \in Nat /\ buildFaults' >= buildFaults  BY <1>2, BuildFaultType
<1>4. CacheTypeOK'
  BY <1>1, <1>2 DEF CacheTypeOK, locks, Key, Job, Unit, Gate
<1>5. /\ \A u \in Loader : u # t => stage'[u] = stage[u]
      /\ stage'[t] = IF MayRebuild(t) THEN "evict" ELSE "discard"
  BY <1>1, <1>2 DEF CacheTypeOK
<1>6. BuildOK(t)'  BY <1>1, <1>2, <1>5 DEF BuildOK, NoJobs, Job, Unit
<1>7. HealOK(t) => HealOK(t)'
  <2>. SUFFICES ASSUME HealOK(t) PROVE HealOK(t)'  OBVIOUS
  <2>1. round[t] \in {1, 2} /\ hit[t] \in BOOLEAN  BY <1>1 DEF CacheTypeOK
  <2>2. round[t] # 2 /\ hit[t]  BY <1>1 DEF HealOK
  <2>3. MayRebuild(t)  BY <2>1, <2>2 DEF MayRebuild
  <2>. QED  BY <1>1, <1>2, <1>5, <2>3 DEF HealOK
<1>. QED  BY <1>1, <1>2, <1>3, <1>4, <1>5, <1>6, <1>7, LocalStep

LEMMA EvictInv ==
    ASSUME CacheInv, NEW t \in Loader, Evict(t)
    PROVE  CacheInv'
<1>1. /\ CacheTypeOK /\ BuildOK(t) /\ stage[t] = "evict" /\ key[t] \in Key
      /\ \A j \in Job : job[t][j] = "none"
  BY LoadTypes, NoCompilers DEF CacheInv, Evict
<1>2. /\ UNCHANGED <<locks, active, key, hit, tmp, job, cacheLoads, buildFaults>>
      /\ lib' = [lib EXCEPT ![key[t]] = "none"]
      /\ stage' = [stage EXCEPT ![t] = "probe"] /\ round' = [round EXCEPT ![t] = 2]
  BY DEF Evict
<1>3. buildFaults' \in Nat /\ buildFaults' >= buildFaults  BY <1>2, BuildFaultType
<1>4. CacheTypeOK'
  BY <1>1, <1>2 DEF CacheTypeOK, locks, Key, Job, Unit, Gate
<1>5. /\ \A k \in Key : lib'[k] = IF k = key[t] THEN "none" ELSE lib[k]
      /\ \A u \in Loader : u # t => round'[u] = round[u] /\ stage'[u] = stage[u]
      /\ round'[t] = 2 /\ stage'[t] = "probe"
  BY <1>1, <1>2 DEF CacheTypeOK
<1>6. BuildOK(t)'  BY <1>1, <1>2, <1>5 DEF BuildOK, NoJobs, Job, Unit
<1>7. HealOK(t) => HealOK(t)'  BY <1>1, <1>2, <1>5 DEF HealOK
<1>. QED  BY <1>1, <1>2, <1>3, <1>4, <1>5, <1>6, <1>7, LocalStep

LEMMA DiscardInv ==
    ASSUME CacheInv, NEW t \in Loader, Discard(t)
    PROVE  CacheInv'
<1>1. /\ stage[t] = "discard" /\ stage' = [stage EXCEPT ![t] = "idle"] /\ Returned(t)
      /\ UNCHANGED <<active, cacheLoads, buildFaults>>
      /\ lib' = [lib EXCEPT ![key[t]] = "none"]
  BY DEF Discard
<1>2. CacheTypeOK /\ key[t] \in Key  BY <1>1, LoadTypes DEF CacheInv
<1>3. buildFaults' \in 0 .. MaxBuildFaults /\ buildFaults' >= buildFaults  BY <1>1, BuildFaultType
<1>4. /\ lib' \in [Key -> {"none", "partial", "good", "damaged"}] /\ lib'[key[t]] # "partial"
      /\ \A k \in Key : k # key[t] => lib'[k] = lib[k]
  BY <1>1, <1>2 DEF CacheTypeOK
<1>5. Joined(t)  BY <1>1, NoCompilers
<1>. QED  BY <1>1, <1>3, <1>4, <1>5, ReturnStep

(* A load gets the gate of its key: the registered one as long as a load of the
   process holds it, so that no holder loses its gate. *)
LEMMA BeginLoadInv ==
    ASSUME CacheInv, NEW t \in Loader, NEW k \in Key, BeginLoad(t, k)
    PROVE  CacheInv'
<1>. DEFINE p == ProcessOf[t]
            g == FindGate(t, k)
<1>1. /\ CacheTypeOK /\ GateOK(t) /\ BuildOK(t) /\ stage[t] = "idle" /\ p \in Process
      /\ cacheLoads[t] \in Nat /\ cacheLoads[t] + 1 \in 1 .. MaxCacheLoads
  BY LoadTypes, PermitAssumption DEF CacheInv, BeginLoad
<1>2. /\ gate' = [gate EXCEPT ![t] = g] /\ registry' = [registry EXCEPT ![p][k] = g]
      /\ stage' = [stage EXCEPT ![t] = "gate"] /\ key' = [key EXCEPT ![t] = k]
      /\ cacheLoads' = [cacheLoads EXCEPT ![t] = @ + 1]
      /\ UNCHANGED <<lib, owner, active, round, hit, tmp, job, buildFaults>>
  BY DEF BeginLoad
<1>3. /\ registry[p][k] \in Gate \cup {None} /\ <<t, cacheLoads[t] + 1>> \in Gate
      /\ g = IF registry[p][k] # None /\ Alive(registry[p][k])
             THEN registry[p][k] ELSE <<t, cacheLoads[t] + 1>>
  BY <1>1 DEF CacheTypeOK, FindGate, Gate
<1>4. g \in Gate /\ g # None /\ ProcessOf[g[1]] = p
  BY <1>1, <1>3, LoaderAssumption DEF CacheInv, RegistryOK
<1>. HIDE DEF g, p
<1>5. /\ \A u \in Loader : u # t => /\ gate'[u] = gate[u] /\ stage'[u] = stage[u]
                                    /\ key'[u] = key[u] /\ cacheLoads'[u] = cacheLoads[u]
      /\ gate'[t] = g /\ stage'[t] = "gate" /\ key'[t] = k /\ cacheLoads'[t] = cacheLoads[t] + 1
      /\ \A q \in Process : \A j \in Key :
            registry'[q][j] = IF q = p /\ j = k THEN g ELSE registry[q][j]
  BY <1>1, <1>2 DEF CacheTypeOK
<1>6. CacheTypeOK'
  <2>1. registry' \in [Process -> [Key -> Gate \cup {None}]]
    BY <1>1, <1>2, <1>4 DEF CacheTypeOK
  <2>2. /\ gate' \in [Loader -> Gate \cup {None}] /\ key' \in [Loader -> Key \cup {None}]
        /\ stage' \in [Loader -> {"idle", "gate", "probe", "units", "rename", "load", "evict", "discard"}]
    BY <1>1, <1>2, <1>4 DEF CacheTypeOK
  <2>3. cacheLoads' \in [Loader -> 0 .. MaxCacheLoads]
    BY <1>1, <1>2 DEF CacheTypeOK
  <2>. QED  BY <1>1, <1>2, <2>1, <2>2, <2>3 DEF CacheTypeOK, Key, Job, Unit, Gate
<1>7. RegistryOK'
  <2>. SUFFICES ASSUME NEW q \in Process, NEW j \in Key, registry'[q][j] # None
                PROVE  ProcessOf[registry'[q][j][1]] = q
    BY DEF RegistryOK, Key
  <2>. QED  BY <1>4, <1>5 DEF CacheInv, RegistryOK
<1>8. ASSUME NEW u \in Loader, u # t  PROVE GateOK(u)' /\ BuildOK(u)'
  <2>1. ASSUME stage[u] # "idle"
        PROVE  registry'[ProcessOf[u]][key[u]] = registry[ProcessOf[u]][key[u]]
    <3>1. /\ ProcessOf[u] \in Process /\ key[u] \in Key /\ gate[u] \in Gate /\ gate[u] # None
          /\ registry[ProcessOf[u]][key[u]] = gate[u]
      BY <2>1, LoadTypes, LoaderAssumption DEF CacheInv, GateOK
    <3>2. Alive(gate[u])  BY DEF Alive
    <3>. QED  BY <1>3, <1>5, <3>1, <3>2
  <2>. QED  BY <1>2, <1>5, <1>8, <2>1, OtherLoader
<1>9. GateOK(t)' /\ BuildOK(t)'
  <2>1. registry'[p][k] = g  BY <1>1, <1>5
  <2>2. GateOK(t)'  BY <1>1, <1>4, <1>5, <2>1 DEF GateOK, p, Key
  <2>3. BuildOK(t)'  BY <1>1, <1>2, <1>5 DEF BuildOK, NoJobs, Job, Unit
  <2>. QED  BY <2>2, <2>3
<1>10. EntriesAreComplete'  BY <1>2 DEF CacheInv, EntriesAreComplete, Key
<1>11. ASSUME NEW q \in Process  PROVE PermitsOK(q)'
  <2>1. PermitsOK(q)  BY DEF CacheInv
  <2>. QED  BY <1>2, <2>1, PermitsKept
<1>12. Heals'
  <2>1. ASSUME \A u \in Loader : HealOK(u), NEW u \in Loader  PROVE HealOK(u)'
    <3>1. CASE u # t  BY <1>2, <1>5, <2>1, <3>1, HealOther
    <3>2. CASE u = t  BY <1>2, <1>5, <2>1, <3>2 DEF HealOK
    <3>. QED  BY <3>1, <3>2
  <2>2. \A u \in Loader : cacheLoads'[u] \in Nat /\ cacheLoads'[u] >= cacheLoads[u]
    BY <1>1, <1>5, LoadTypes
  <2>3. buildFaults' \in Nat /\ buildFaults' >= buildFaults  BY <1>2, BuildFaultType
  <2>. QED  BY <1>2, <2>1, <2>2, <2>3, HealsKept
<1>. QED  BY <1>6, <1>7, <1>8, <1>9, <1>10, <1>11, <1>12 DEF CacheInv

LEMMA LockGateInv ==
    ASSUME CacheInv, NEW t \in Loader, LockGate(t)
    PROVE  CacheInv'
<1>1. /\ CacheTypeOK /\ GateOK(t) /\ BuildOK(t) /\ stage[t] = "gate" /\ gate[t] \in Gate
      /\ owner[gate[t]] = None
  BY LoadTypes DEF CacheInv, LockGate
<1>2. /\ owner' = [owner EXCEPT ![gate[t]] = t] /\ stage' = [stage EXCEPT ![t] = "probe"]
      /\ UNCHANGED <<lib, registry, gate, active, key, round, hit, tmp, job, cacheLoads, buildFaults>>
  BY DEF LockGate
<1>3. /\ \A h \in Gate : owner'[h] = IF h = gate[t] THEN t ELSE owner[h]
      /\ \A u \in Loader : u # t => stage'[u] = stage[u]
      /\ stage'[t] = "probe"
  BY <1>1, <1>2 DEF CacheTypeOK
<1>4. CacheTypeOK'
  BY <1>1, <1>2 DEF CacheTypeOK, Key, Job, Unit, Gate
<1>5. RegistryOK'  BY <1>2 DEF CacheInv, RegistryOK, Key
<1>6. ASSUME NEW u \in Loader, u # t  PROVE GateOK(u)' /\ BuildOK(u)'
  <2>1. stage[u] \notin {"idle", "gate"} => gate[u] # gate[t] /\ gate[u] \in Gate
    BY <1>1, LoadTypes, LoaderAssumption DEF CacheInv, GateOK
  <2>2. stage[u] \notin {"idle", "gate"} => owner'[gate[u]] = owner[gate[u]]
    BY <1>3, <2>1
  <2>. QED  BY <1>2, <1>3, <1>6, <2>2, OtherLoader
<1>7. GateOK(t)' /\ BuildOK(t)'
  <2>1. GateOK(t)'  BY <1>1, <1>2, <1>3 DEF GateOK, Key
  <2>2. BuildOK(t)'  BY <1>1, <1>2, <1>3 DEF BuildOK, NoJobs, Job, Unit
  <2>. QED  BY <2>1, <2>2
<1>8. EntriesAreComplete'  BY <1>2 DEF CacheInv, EntriesAreComplete, Key
<1>9. ASSUME NEW q \in Process  PROVE PermitsOK(q)'
  <2>1. PermitsOK(q)  BY DEF CacheInv
  <2>. QED  BY <1>2, <2>1, PermitsKept
<1>10. Heals'
  <2>1. ASSUME \A u \in Loader : HealOK(u), NEW u \in Loader  PROVE HealOK(u)'
    <3>1. CASE u # t  BY <1>2, <1>3, <2>1, <3>1, HealOther
    <3>2. CASE u = t  BY <1>1, <1>2, <1>3, <2>1, <3>2 DEF HealOK, BuildOK
    <3>. QED  BY <3>1, <3>2
  <2>2. \A u \in Loader : cacheLoads'[u] \in Nat /\ cacheLoads'[u] >= cacheLoads[u]
    BY <1>2, LoadTypes
  <2>3. buildFaults' \in Nat /\ buildFaults' >= buildFaults  BY <1>2, BuildFaultType
  <2>. QED  BY <1>2, <2>1, <2>2, <2>3, HealsKept
<1>. QED  BY <1>4, <1>5, <1>6, <1>7, <1>8, <1>9, <1>10 DEF CacheInv

(* A step of compilers: nothing but jobs, temporary files and permits changes,
   nobody becomes a builder, and a compiler that has written the library has
   left a finished file. *)
LEMMA CompilerStep ==
    ASSUME CacheInv, NEW t \in Loader,
           UNCHANGED <<lib, locks, stage, key, round, hit, cacheLoads>>,
           job' \in [Loader -> [Job -> {"none", "ask", "asleep", "run", "ok", "fail"}]],
           tmp' \in [Loader -> {"none", "partial", "good", "damaged"}],
           active' \in [Process -> Nat],
           \A u \in Loader : u # t => tmp'[u] = tmp[u],
           \A u \in Loader : \A j \in Job :
               /\ job[u][j] = "none" <=> job'[u][j] = "none"
               /\ u # t => (job'[u][j] = "ok" => job[u][j] = "ok")
               /\ job'[u][j] = "fail" => job[u][j] = "fail" \/ buildFaults' > 0,
           stage[t] = "units",
           \A j \in Job : Writes(t, j) /\ job'[t][j] = "ok" => tmp'[t] \in {"good", "damaged"},
           tmp'[t] = "damaged" => tmp[t] = "damaged" \/ buildFaults' > 0,
           buildFaults' \in 0 .. MaxBuildFaults, buildFaults' >= buildFaults,
           \A p \in Process : PermitsOK(p)'
    PROVE  CacheInv'
<1>1. CacheTypeOK  BY DEF CacheInv
<1>2. /\ lib' = lib /\ registry' = registry /\ gate' = gate /\ owner' = owner /\ stage' = stage
      /\ key' = key /\ round' = round /\ hit' = hit /\ cacheLoads' = cacheLoads
  BY DEF locks
<1>3. CacheTypeOK'  BY <1>1, <1>2 DEF CacheTypeOK, Key, Job, Unit, Gate
<1>4. RegistryOK' /\ EntriesAreComplete'
  BY <1>2 DEF CacheInv, RegistryOK, EntriesAreComplete, Key
<1>5. \A u \in Loader : GateOK(u)'  BY <1>2 DEF CacheInv, GateOK, Key
<1>6. ASSUME NEW u \in Loader  PROVE BuildOK(u)'
  <2>1. BuildOK(u)  BY DEF CacheInv
  <2>2. \A j \in Job : Writes(u, j)' <=> Writes(u, j)  BY <1>2 DEF Writes
  <2>3. ASSUME stage[u] # "units"  PROVE job'[u] = NoJobs
    <3>1. \A j \in Job : job[u][j] = "none"  BY <2>1, <2>3 DEF BuildOK, NoJobs
    <3>2. job'[u] \in [Job -> {"none", "ask", "asleep", "run", "ok", "fail"}]  OBVIOUS
    <3>3. \A j \in Job : job'[u][j] = "none"  BY <3>1
    <3>. QED  BY <3>2, <3>3 DEF NoJobs
  <2>4. "first" \in Job /\ "second" \in Job /\ "link" \in Job  BY DEF Job, Unit
  <2>5. stage[u] # "units" => u # t  OBVIOUS
  <2>6. ASSUME stage[u] = "units"
        PROVE  /\ job'[u]["first"] # "none"
               /\ key[u] \notin Chunked => job'[u]["second"] = "none" /\ job'[u]["link"] = "none"
               /\ \A j \in Job : Writes(u, j) /\ job'[u][j] = "ok" => tmp'[u] \in {"good", "damaged"}
    <3>1. job'[u]["first"] # "none"  BY <2>1, <2>4, <2>6 DEF BuildOK
    <3>2. key[u] \notin Chunked => job'[u]["second"] = "none" /\ job'[u]["link"] = "none"
      BY <2>1, <2>4, <2>6 DEF BuildOK
    <3>3. ASSUME NEW j \in Job, Writes(u, j), job'[u][j] = "ok"  PROVE tmp'[u] \in {"good", "damaged"}
      BY <2>1, <2>6, <3>3 DEF BuildOK
    <3>. QED  BY <3>1, <3>2, <3>3
  <2>7. stage[u] = "rename" => tmp'[u] \in {"good", "damaged"}
    BY <2>1, <2>5 DEF BuildOK
  <2>8. stage[u] \in {"idle", "gate"} => round[u] = 1  BY <2>1 DEF BuildOK
  <2>9. NoJobs' = NoJobs /\ Job' = Job  BY DEF NoJobs, Job, Unit
  <2>. QED  BY <1>2, <2>2, <2>3, <2>6, <2>7, <2>8, <2>9 DEF BuildOK
<1>7. Heals'
  <2>1. ASSUME buildFaults' = 0, \A u \in Loader : HealOK(u), NEW u \in Loader  PROVE HealOK(u)'
    <3>1. tmp'[u] # "damaged"  BY <2>1, BuildFaultAssumption DEF HealOK
    <3>. QED  BY <1>2, <2>1, <3>1 DEF HealOK
  <2>2. \A u \in Loader : cacheLoads'[u] \in Nat /\ cacheLoads'[u] >= cacheLoads[u]
    BY <1>2, LoadTypes
  <2>3. buildFaults' \in Nat  BY BuildFaultAssumption
  <2>. QED  BY <2>1, <2>2, <2>3, HealsKept
<1>. QED  BY <1>3, <1>4, <1>5, <1>6, <1>7 DEF CacheInv

(* A load that has a job is building. *)
LEMMA JobMeansUnits ==
    ASSUME CacheInv, NEW t \in Loader, NEW j \in Job, job[t][j] # "none"
    PROVE  stage[t] = "units"
BY DEF CacheInv, BuildOK, NoJobs

(* A permit is taken while there is one; a job that finds none falls asleep. *)
LEMMA AcquirePermitInv ==
    ASSUME CacheInv, NEW t \in Loader, NEW j \in Job, AcquirePermit(t, j)
    PROVE  CacheInv'
<1>. DEFINE p == ProcessOf[t]
            x == <<t, j>>
<1>1. /\ CacheTypeOK /\ job[t][j] = "ask" /\ stage[t] = "units" /\ p \in Process
      /\ x \in Loader \X Job /\ active[p] \in Nat
  BY LoadTypes, JobMeansUnits DEF CacheInv, AcquirePermit, CacheTypeOK
<1>2. UNCHANGED <<lib, locks, stage, key, round, hit, cacheLoads, buildFaults>>
  BY DEF AcquirePermit
<1>3. /\ buildFaults' \in 0 .. MaxBuildFaults /\ buildFaults' >= buildFaults
  BY <1>2, BuildFaultType
<1>4. BuildOK(t)  BY DEF CacheInv
<1>5. PICK state \in {"run", "asleep"} :
         /\ job' = [job EXCEPT ![t][j] = state]
         /\ state = "run" => /\ active[p] < Permits /\ active' = [active EXCEPT ![p] = @ + 1]
                             /\ tmp' = [tmp EXCEPT ![t] = IF Writes(t, j) THEN "partial" ELSE @]
         /\ state = "asleep" => active[p] >= Permits /\ active' = active /\ tmp' = tmp
  <2>1. CASE active[p] < Permits  BY <2>1 DEF AcquirePermit
  <2>2. CASE ~(active[p] < Permits)
    <3>1. active[p] >= Permits  BY <1>1, <2>2, PermitAssumption
    <3>2. job' = [job EXCEPT ![t][j] = "asleep"] /\ active' = active /\ tmp' = tmp
      BY <2>2 DEF AcquirePermit
    <3>. QED  BY <3>1, <3>2
  <2>. QED  BY <2>1, <2>2
<1>6. /\ job' \in [Loader -> [Job -> {"none", "ask", "asleep", "run", "ok", "fail"}]]
      /\ \A u \in Loader : \A i \in Job :
            job'[u][i] = IF u = t /\ i = j THEN state ELSE job[u][i]
  BY <1>1, <1>5 DEF CacheTypeOK
<1>7. /\ tmp' \in [Loader -> {"none", "partial", "good", "damaged"}]
      /\ \A u \in Loader : u # t => tmp'[u] = tmp[u]
      /\ tmp'[t] = IF state = "run" /\ Writes(t, j) THEN "partial" ELSE tmp[t]
  BY <1>1, <1>5 DEF CacheTypeOK
<1>8. active' \in [Process -> Nat] /\ \A q \in Process : q # p => active'[q] = active[q]
  BY <1>1, <1>5 DEF CacheTypeOK
<1>9. ASSUME NEW i \in Job, Writes(t, i), job'[t][i] = "ok"  PROVE tmp'[t] \in {"good", "damaged"}
  <2>1. i # j /\ job[t][i] = "ok"  BY <1>6, <1>9
  <2>2. tmp[t] \in {"good", "damaged"}  BY <1>1, <1>4, <1>9, <2>1 DEF BuildOK
  <2>3. ~Writes(t, j)
    <3>1. CASE key[t] \in Chunked  BY <1>9, <2>1, <3>1 DEF Writes
    <3>2. CASE key[t] \notin Chunked
      <4>1. job[t]["second"] = "none" /\ job[t]["link"] = "none"  BY <1>1, <1>4, <3>2 DEF BuildOK
      <4>2. i = "first" /\ j = "first"  BY <1>1, <2>1, <4>1 DEF Job, Unit
      <4>. QED  BY <2>1, <4>2
    <3>. QED  BY <3>1, <3>2
  <2>. QED  BY <1>7, <2>2, <2>3
<1>10. ASSUME NEW q \in Process  PROVE PermitsOK(q)'
  <2>0. PermitsOK(q)  BY DEF CacheInv
  <2>1. CASE q # p
    <3>1. \A u \in Loader \X Job : ProcessOf[u[1]] = q => job'[u[1]][u[2]] = job[u[1]][u[2]]
      BY <1>6, <2>1
    <3>. QED  BY <1>8, <2>0, <2>1, <3>1, PermitsKept
  <2>2. CASE q = p
    <3>0. \A u \in Loader \X Job : job'[u[1]][u[2]] = IF u = x THEN state ELSE job[u[1]][u[2]]
      <4>. TAKE u \in Loader \X Job
      <4>1. u = <<u[1], u[2]>> /\ u[1] \in Loader /\ u[2] \in Job  OBVIOUS
      <4>2. u = x <=> u[1] = t /\ u[2] = j  BY <4>1
      <4>. QED  BY <1>6, <4>1, <4>2
    <3>1. ProcessOf[x[1]] = p /\ job[x[1]][x[2]] = "ask"  BY <1>1
    <3>. HIDE DEF p, x
    <3>2. CASE state = "run"
      <4>1. Running(p)' = Running(p) \cup {x} /\ x \notin Running(p)
        <5>1. \A u \in Loader \X Job : u \in Running(p)' <=> u \in Running(p) \cup {x}
          BY <1>1, <3>0, <3>1, <3>2, JobSets
        <5>2. Running(p)' \subseteq Loader \X Job /\ Running(p) \cup {x} \subseteq Loader \X Job
          BY <1>1, JobSets
        <5>3. x \notin Running(p)  BY <3>1, JobSets
        <5>. QED  BY <5>1, <5>2, <5>3
      <4>2. Asleep(p)' \subseteq Asleep(p)
        BY <3>0, <3>2, JobSets DEF Asleep
      <4>3. Asking(p)' = Asking(p) \ {x} /\ x \in Asking(p)
        <5>1. \A u \in Loader \X Job : u \in Asking(p)' <=> u \in Asking(p) \ {x}
          BY <1>1, <3>0, <3>1, <3>2, JobSets DEF Asking
        <5>2. Asking(p)' \subseteq Loader \X Job /\ Asking(p) \subseteq Loader \X Job
          BY JobSets DEF Asking
        <5>3. x \in Asking(p)  BY <1>1, <3>1 DEF Asking
        <5>. QED  BY <5>1, <5>2, <5>3
      <4>4. Cardinality(Running(p)') = Cardinality(Running(p)) + 1
        BY <4>1, JobSets, FS_AddElement
      <4>5. Cardinality(Asking(p)') = Cardinality(Asking(p)) - 1
        BY <4>3, JobSets, FS_RemoveElement
      <4>6. active'[p] = active[p] + 1 /\ active[p] < Permits  BY <1>1, <1>5, <3>2 DEF CacheTypeOK
      <4>7. active'[p] = Cardinality(Running(p)') /\ active'[p] <= Permits
        BY <1>1, <2>0, <2>2, <4>4, <4>6, PermitAssumption DEF PermitsOK
      <4>8. Asleep(p)' # {} => active'[p] + Cardinality(Asking(p)') >= Permits
        BY <1>1, <2>0, <2>2, <4>2, <4>5, <4>6, JobSets, PermitAssumption DEF PermitsOK
      <4>. QED  BY <2>2, <4>7, <4>8 DEF PermitsOK
    <3>3. CASE state = "asleep"
      <4>1. Running(p)' = Running(p)
        <5>1. \A u \in Loader \X Job : u \in Running(p)' <=> u \in Running(p)
          BY <1>1, <3>0, <3>1, <3>3, JobSets
        <5>2. Running(p)' \subseteq Loader \X Job /\ Running(p) \subseteq Loader \X Job
          BY JobSets
        <5>. QED  BY <5>1, <5>2
      <4>2. active'[p] = active[p] /\ active[p] >= Permits  BY <1>5, <3>3
      <4>3. active'[p] + Cardinality(Asking(p)') >= Permits
        BY <1>1, <4>2, JobSets, PermitAssumption
      <4>. QED  BY <2>0, <2>2, <4>1, <4>2, <4>3 DEF PermitsOK
    <3>. QED  BY <3>2, <3>3
  <2>. QED  BY <2>1, <2>2
<1>11. \A u \in Loader : \A i \in Job :
          /\ job[u][i] = "none" <=> job'[u][i] = "none"
          /\ job'[u][i] = "ok" => job[u][i] = "ok"
          /\ job'[u][i] = "fail" => job[u][i] = "fail"
  BY <1>1, <1>6
<1>12. tmp'[t] = "damaged" => tmp[t] = "damaged"  BY <1>7
<1>. QED  BY <1>1, <1>2, <1>3, <1>6, <1>7, <1>8, <1>9, <1>10, <1>11, <1>12, CompilerStep

(* A compiler ends: its permit is free, and one sleeper of the process, if there
   is any, is awake and about to ask for it. *)
LEMMA ExitInv ==
    ASSUME CacheInv, NEW t \in Loader, NEW j \in Job,
           NEW outcome \in {"ok", "fail"}, NEW library \in {"good", "damaged"},
           Exit(t, j, outcome, library)
    PROVE  CacheInv'
<1>. DEFINE p == ProcessOf[t]
            x == <<t, j>>
<1>1. /\ CacheTypeOK /\ job[t][j] = "run" /\ stage[t] = "units" /\ p \in Process
      /\ x \in Loader \X Job /\ active[p] \in Nat
  BY LoadTypes, JobMeansUnits DEF CacheInv, Exit, CacheTypeOK
<1>2. UNCHANGED <<lib, locks, stage, key, round, hit, cacheLoads>>
  BY DEF Exit
<1>3. /\ buildFaults' \in 0 .. MaxBuildFaults /\ buildFaults' >= buildFaults
      /\ outcome = "fail" \/ library = "damaged" => buildFaults' > 0
  BY BuildFaultType DEF Exit
<1>4. BuildOK(t)  BY DEF CacheInv
<1>5. PICK woken : /\ job' = Notified(t, j, outcome, woken)
                   /\ (woken = None /\ Asleep(p) = {}) \/ woken \in Asleep(p)
  BY DEF Exit
<1>6. \A u \in Loader : \A i \in Job :
         job'[u][i] = IF u = t /\ i = j THEN outcome
                      ELSE IF <<u, i>> = woken THEN "ask" ELSE job[u][i]
  BY <1>5 DEF Notified
<1>7. job' \in [Loader -> [Job -> {"none", "ask", "asleep", "run", "ok", "fail"}]]
  BY <1>1, <1>5 DEF Notified, CacheTypeOK
<1>8. \A u \in Loader : \A i \in Job : <<u, i>> = woken =>
         ProcessOf[u] = p /\ job[u][i] = "asleep" /\ ~(u = t /\ i = j)
  <2>. SUFFICES ASSUME NEW u \in Loader, NEW i \in Job, <<u, i>> = woken
                PROVE  ProcessOf[u] = p /\ job[u][i] = "asleep" /\ ~(u = t /\ i = j)
    OBVIOUS
  <2>1. CASE woken \in Asleep(p)  BY <1>1, <2>1 DEF Asleep
  <2>2. CASE woken = None /\ Asleep(p) = {}
    <3>1. \A y \in Loader \X Job : y # None  BY LoaderAssumption
    <3>. QED  BY <2>2, <3>1
  <2>. QED  BY <1>5, <2>1, <2>2
<1>9. /\ tmp' \in [Loader -> {"none", "partial", "good", "damaged"}]
      /\ \A u \in Loader : u # t => tmp'[u] = tmp[u]
      /\ tmp'[t] = IF Writes(t, j) /\ outcome = "ok" THEN library ELSE tmp[t]
  BY <1>1 DEF CacheTypeOK, Exit
<1>10. \A u \in Loader : \A i \in Job :
          /\ job[u][i] = "none" <=> job'[u][i] = "none"
          /\ u # t => (job'[u][i] = "ok" => job[u][i] = "ok")
          /\ job'[u][i] = "fail" => job[u][i] = "fail" \/ buildFaults' > 0
  BY <1>1, <1>3, <1>6, <1>8
<1>11. ASSUME NEW i \in Job, Writes(t, i), job'[t][i] = "ok"  PROVE tmp'[t] \in {"good", "damaged"}
  <2>1. CASE i = j  BY <1>6, <1>9, <1>11, <2>1
  <2>2. CASE i # j
    <3>1. job[t][i] = "ok"  BY <1>6, <1>11, <2>2
    <3>2. tmp[t] \in {"good", "damaged"}  BY <1>1, <1>4, <1>11, <3>1 DEF BuildOK
    <3>. QED  BY <1>9, <3>2
  <2>. QED  BY <2>1, <2>2
<1>12. tmp'[t] = "damaged" => tmp[t] = "damaged" \/ buildFaults' > 0  BY <1>3, <1>9
<1>13. active' = [active EXCEPT ![p] = @ - 1]  BY DEF Exit
<1>14. \A u \in Loader \X Job : job'[u[1]][u[2]] =
           IF u = x THEN outcome ELSE IF u = woken THEN "ask" ELSE job[u[1]][u[2]]
  <2>. TAKE u \in Loader \X Job
  <2>1. u = <<u[1], u[2]>> /\ u[1] \in Loader /\ u[2] \in Job  OBVIOUS
  <2>2. u = x <=> u[1] = t /\ u[2] = j  BY <2>1
  <2>. QED  BY <1>6, <2>1, <2>2
<1>15. ProcessOf[x[1]] = p /\ job[x[1]][x[2]] = "run"  BY <1>1
<1>16. PermitsOK(p)  BY <1>1 DEF CacheInv
<1>17. x \in Running(p) /\ active[p] > 0
  <2>1. x \in Running(p)  BY <1>1, <1>15, JobSets
  <2>2. Cardinality(Running(p)) # 0  BY <2>1, JobSets, FS_EmptySet
  <2>. QED  BY <1>1, <1>16, <2>1, <2>2 DEF PermitsOK
<1>18. /\ active' \in [Process -> Nat] /\ active'[p] = active[p] - 1
       /\ \A q \in Process : q # p => active'[q] = active[q]
  BY <1>1, <1>13, <1>17 DEF CacheTypeOK
<1>19. ASSUME NEW q \in Process  PROVE PermitsOK(q)'
  <2>1. CASE q # p
    <3>1. \A u \in Loader \X Job : ProcessOf[u[1]] = q => job'[u[1]][u[2]] = job[u[1]][u[2]]
      <4>. TAKE u \in Loader \X Job
      <4>1. u = <<u[1], u[2]>> /\ u[1] \in Loader /\ u[2] \in Job  OBVIOUS
      <4>. QED  BY <1>8, <1>14, <1>15, <2>1, <4>1
    <3>2. PermitsOK(q)  BY DEF CacheInv
    <3>. QED  BY <1>18, <2>1, <3>1, <3>2, PermitsKept
  <2>2. CASE q = p
    <3>0. \A u \in Loader \X Job : u = woken => ProcessOf[u[1]] = p /\ job[u[1]][u[2]] = "asleep"
      <4>. TAKE u \in Loader \X Job
      <4>1. u = <<u[1], u[2]>> /\ u[1] \in Loader /\ u[2] \in Job  OBVIOUS
      <4>. QED  BY <1>8, <4>1
    <3>. HIDE DEF p, x
    <3>1. Running(p)' = Running(p) \ {x}
      <4>1. \A u \in Loader \X Job : u \in Running(p)' <=> u \in Running(p) \ {x}
        BY <1>1, <1>14, <1>15, <3>0, JobSets
      <4>2. Running(p)' \subseteq Loader \X Job /\ Running(p) \subseteq Loader \X Job
        BY JobSets
      <4>. QED  BY <4>1, <4>2
    <3>2. Cardinality(Running(p)') = Cardinality(Running(p)) - 1
      BY <1>17, <3>1, JobSets, FS_RemoveElement
    <3>3. active'[p] = Cardinality(Running(p)') /\ active'[p] <= Permits
      BY <1>1, <1>16, <1>18, <3>2, PermitAssumption DEF PermitsOK
    <3>4. ASSUME Asleep(p)' # {}
          PROVE  active'[p] + Cardinality(Asking(p)') >= Permits
      <4>1. Asleep(p)' \subseteq Asleep(p)
        BY <1>14, JobSets DEF Asleep
      <4>2. Asleep(p) # {} /\ woken \in Asleep(p)  BY <1>5, <3>4, <4>1 DEF p
      <4>3. woken \in Loader \X Job /\ woken # x
        BY <1>15, <4>2 DEF Asleep
      <4>4. Asking(p)' = Asking(p) \cup {woken} /\ woken \notin Asking(p)
        <5>1. \A u \in Loader \X Job : u \in Asking(p)' <=> u \in Asking(p) \cup {woken}
          BY <1>1, <1>14, <1>15, <3>0, <4>3, JobSets DEF Asking
        <5>2. Asking(p)' \subseteq Loader \X Job /\ Asking(p) \cup {woken} \subseteq Loader \X Job
          BY <4>3, JobSets DEF Asking
        <5>3. woken \notin Asking(p)  BY <4>2 DEF Asking, Asleep
        <5>. QED  BY <5>1, <5>2, <5>3
      <4>5. Cardinality(Asking(p)') = Cardinality(Asking(p)) + 1
        BY <4>4, JobSets, FS_AddElement
      <4>6. active[p] + Cardinality(Asking(p)) >= Permits  BY <1>16, <4>2 DEF PermitsOK
      <4>. QED  BY <1>1, <1>18, <4>5, <4>6, JobSets, PermitAssumption
    <3>. QED  BY <2>2, <3>3, <3>4 DEF PermitsOK
  <2>. QED  BY <2>1, <2>2
<1>. QED  BY <1>1, <1>2, <1>3, <1>7, <1>9, <1>10, <1>11, <1>12, <1>18, <1>19, CompilerStep

(* A process dies: what it held is gone, and no other process held any of it. *)
LEMMA ProcessDiesInv ==
    ASSUME CacheInv, NEW p \in Process, ProcessDies(p)
    PROVE  CacheInv'
<1>1. CacheTypeOK  BY DEF CacheInv
<1>0. NoJobs \in [Job -> {"none", "ask", "asleep", "run", "ok", "fail"}] /\ \A j \in Job : NoJobs[j] = "none"
  BY DEF NoJobs
<1>2. /\ \A t \in Loader :
           /\ stage'[t] = IF ProcessOf[t] = p THEN "idle" ELSE stage[t]
           /\ key'[t] = IF ProcessOf[t] = p THEN None ELSE key[t]
           /\ round'[t] = IF ProcessOf[t] = p THEN 1 ELSE round[t]
           /\ hit'[t] = IF ProcessOf[t] = p THEN FALSE ELSE hit[t]
           /\ tmp'[t] = IF ProcessOf[t] = p THEN "none" ELSE tmp[t]
           /\ job'[t] = IF ProcessOf[t] = p THEN NoJobs ELSE job[t]
           /\ gate'[t] = IF ProcessOf[t] = p THEN None ELSE gate[t]
      /\ lib' = lib /\ cacheLoads' = cacheLoads /\ BuildFault
  BY DEF ProcessDies
<1>3. \A g \in Gate : g[1] \in Loader /\ owner'[g] = IF ProcessOf[g[1]] = p THEN None ELSE owner[g]
  BY DEF ProcessDies, Gate
<1>4. /\ \A q \in Process : q # p => registry'[q] = registry[q] /\ active'[q] = active[q]
      /\ registry'[p] = [k \in Key |-> None] /\ active'[p] = 0
  BY <1>1 DEF ProcessDies, CacheTypeOK
<1>5. /\ buildFaults' \in 0 .. MaxBuildFaults /\ buildFaults' \in Nat
      /\ buildFaults' >= buildFaults /\ buildFaults' > 0
  BY <1>2, BuildFaultType
<1>6. CacheTypeOK'
  <2>1. /\ registry' \in [Process -> [Key -> Gate \cup {None}]] /\ active' \in [Process -> Nat]
    BY <1>1 DEF ProcessDies, CacheTypeOK
  <2>2. owner' \in [Gate -> Loader \cup {None}]  BY <1>1 DEF ProcessDies, CacheTypeOK
  <2>3. /\ stage' \in [Loader -> {"idle", "gate", "probe", "units", "rename", "load", "evict", "discard"}]
        /\ key' \in [Loader -> Key \cup {None}] /\ round' \in [Loader -> {1, 2}]
    BY <1>1 DEF ProcessDies, CacheTypeOK
  <2>4. /\ hit' \in [Loader -> BOOLEAN] /\ tmp' \in [Loader -> {"none", "partial", "good", "damaged"}]
        /\ gate' \in [Loader -> Gate \cup {None}]
    BY <1>1 DEF ProcessDies, CacheTypeOK
  <2>5. job' \in [Loader -> [Job -> {"none", "ask", "asleep", "run", "ok", "fail"}]]
    BY <1>0, <1>1 DEF ProcessDies, CacheTypeOK
  <2>. QED  BY <1>1, <1>2, <1>5, <2>1, <2>2, <2>3, <2>4, <2>5 DEF CacheTypeOK, Key, Job, Unit, Gate
<1>7. RegistryOK'
  <2>. SUFFICES ASSUME NEW q \in Process, NEW k \in Key, registry'[q][k] # None
                PROVE  ProcessOf[registry'[q][k][1]] = q
    BY DEF RegistryOK, Key
  <2>1. q # p  BY <1>4
  <2>. QED  BY <1>4, <2>1 DEF CacheInv, RegistryOK
<1>8. ASSUME NEW t \in Loader  PROVE GateOK(t)' /\ BuildOK(t)'
  <2>1. CASE ProcessOf[t] = p
    BY <1>2, <2>1 DEF GateOK, BuildOK, NoJobs, Job, Unit
  <2>2. CASE ProcessOf[t] # p
    <3>1. ProcessOf[t] \in Process  BY LoadTypes
    <3>2. registry'[ProcessOf[t]] = registry[ProcessOf[t]]  BY <1>4, <2>2, <3>1
    <3>3. ASSUME stage[t] # "idle"  PROVE owner'[gate[t]] = owner[gate[t]]
      <4>1. gate[t] \in Gate /\ key[t] \in Key /\ registry[ProcessOf[t]][key[t]] = gate[t]
        BY <3>3, LoadTypes DEF CacheInv, GateOK
      <4>2. ProcessOf[gate[t][1]] = ProcessOf[t]
        BY <3>1, <4>1, LoaderAssumption DEF CacheInv, RegistryOK
      <4>. QED  BY <1>3, <2>2, <4>1, <4>2
    <3>. QED  BY <1>2, <2>2, <3>2, <3>3, OtherLoader
  <2>. QED  BY <2>1, <2>2
<1>9. EntriesAreComplete'  BY <1>2 DEF CacheInv, EntriesAreComplete, Key
<1>10. ASSUME NEW q \in Process  PROVE PermitsOK(q)'
  <2>1. CASE q = p
    <3>1. \A u \in Loader \X Job : ProcessOf[u[1]] = p => job'[u[1]][u[2]] = "none"
      BY <1>0, <1>2
    <3>2. Running(p)' = {} /\ Asleep(p)' = {}  BY <3>1, JobSets
    <3>. QED  BY <1>4, <2>1, <3>2, FS_EmptySet, PermitAssumption DEF PermitsOK
  <2>2. CASE q # p
    <3>1. \A u \in Loader \X Job : ProcessOf[u[1]] = q => job'[u[1]][u[2]] = job[u[1]][u[2]]
      BY <1>2, <2>2
    <3>2. PermitsOK(q)  BY DEF CacheInv
    <3>. QED  BY <1>4, <2>2, <3>1, <3>2, PermitsKept
  <2>. QED  BY <2>1, <2>2
<1>11. Heals'  BY <1>5, BuildFaultAssumption DEF Heals
<1>. QED  BY <1>6, <1>7, <1>8, <1>9, <1>10, <1>11 DEF CacheInv

LEMMA CacheNextInv == CacheInv /\ [CacheNext]_cacheVars => CacheInv'
<1>. SUFFICES ASSUME CacheInv, [CacheNext]_cacheVars PROVE CacheInv'  OBVIOUS
<1>1. CASE UNCHANGED cacheVars
  <2>1. UNCHANGED <<lib, registry, gate, owner, active, stage, key, round, hit, tmp, job,
                    cacheLoads, buildFaults>>
    BY <1>1 DEF cacheVars, locks, local
  <2>2. CacheTypeOK'  BY <2>1 DEF CacheInv, CacheTypeOK, Key, Job, Unit, Gate
  <2>3. RegistryOK' /\ EntriesAreComplete'
    BY <2>1 DEF CacheInv, RegistryOK, EntriesAreComplete, Key
  <2>4. \A t \in Loader : GateOK(t)' /\ BuildOK(t)'  BY <2>1, OtherLoader
  <2>5. \A p \in Process : PermitsOK(p)'  BY <2>1, PermitsKept DEF CacheInv
  <2>6. \A u \in Loader : HealOK(u) => HealOK(u)'  BY <2>1, HealOther
  <2>7. buildFaults' \in Nat /\ buildFaults' >= buildFaults  BY <2>1, BuildFaultType
  <2>8. \A u \in Loader : cacheLoads'[u] \in Nat /\ cacheLoads'[u] >= cacheLoads[u]
    BY <2>1, LoadTypes
  <2>9. Heals'  BY <2>1, <2>6, <2>7, <2>8, HealsKept
  <2>. QED  BY <2>2, <2>3, <2>4, <2>5, <2>9 DEF CacheInv
<1>2. ASSUME NEW t \in Loader, NEW k \in Key, BeginLoad(t, k)  PROVE CacheInv'
  BY <1>2, BeginLoadInv
<1>3. ASSUME NEW t \in Loader, Proceed(t)  PROVE CacheInv'
  BY <1>3, LockGateInv, ProbeInv, JoinUnitsInv, BuildFailsInv, PublishLibraryInv, PublishFailsInv,
     LibraryOpensInv, LibraryRejectedInv, EvictInv, DiscardInv DEF Proceed
<1>4. ASSUME NEW t \in Loader, NEW j \in Job, Compile(t, j)  PROVE CacheInv'
  BY <1>4, AcquirePermitInv, ExitInv DEF Compile
<1>5. ASSUME NEW p \in Process, ProcessDies(p)  PROVE CacheInv'
  BY <1>5, ProcessDiesInv
<1>. QED  BY <1>1, <1>2, <1>3, <1>4, <1>5 DEF CacheNext

-----------------------------------------------------------------------------
(* Theorems about the cache of compiled libraries *)

(* The inductive invariant of compile_gate, the compile_cached functions and the
   load functions above them. *)
THEOREM CacheInvariance == CacheSpec => []CacheInv
BY CacheInitInv, CacheNextInv, PTL DEF CacheSpec

(* Permits are exact and no notification of a sleeper is lost, a process has one
   builder for each key, and the directory never holds half a library, for any
   number of threads, processes, keys and permits. *)
THEOREM CacheStaysSound == CacheSpec => []CacheIsSound
<1>1. CacheInv => CacheIsSound
  <2>. SUFFICES ASSUME CacheInv PROVE CacheIsSound  OBVIOUS
  <2>1. ASSUME NEW p \in Process, Asleep(p) # {}, active[p] < Permits
        PROVE  \E t \in Loader, j \in Job : ProcessOf[t] = p /\ job[t][j] = "ask"
    <3>1. active[p] + Cardinality(Asking(p)) >= Permits /\ active[p] = Cardinality(Running(p))
      BY <2>1 DEF CacheInv, PermitsOK
    <3>2. Cardinality(Asking(p)) # 0  BY <2>1, <3>1, JobSets, PermitAssumption
    <3>3. Asking(p) # {}  BY <3>2, FS_EmptySet
    <3>4. PICK u \in Asking(p) : TRUE  BY <3>3
    <3>5. u[1] \in Loader /\ u[2] \in Job /\ ProcessOf[u[1]] = p /\ job[u[1]][u[2]] = "ask"
      BY DEF Asking
    <3>. QED  BY <3>5
  <2>2. PermitsAreExact  BY <2>1 DEF CacheInv, PermitsOK, PermitsAreExact
  <2>3. OneBuilderPerProcess  BY OneBuilder DEF OneBuilderPerProcess
  <2>. QED  BY <2>2, <2>3 DEF CacheIsSound, CacheInv
<1>. QED  BY <1>1, CacheInvariance, PTL

(* As long as one process uses the directory and no compiler, rename or process
   fails, no load returns an error: a library that does not open is replaced by
   the load that meets it. *)
THEOREM LoadsStayHealing == CacheSpec => LoadsHeal
<1>1. CacheInv => (Alone /\ buildFaults = 0 =>
          \A t \in Loader : ~(BuildFails(t) \/ EvictFails(t) \/ Discard(t)))
  <2>. SUFFICES ASSUME CacheInv, Alone, buildFaults = 0, NEW t \in Loader,
                       BuildFails(t) \/ EvictFails(t) \/ Discard(t)
                PROVE  FALSE
    OBVIOUS
  <2>1. HealOK(t) /\ \A j \in Job : job[t][j] # "fail"  BY DEF CacheInv, Heals
  <2>. QED  BY <2>1 DEF HealOK, BuildFails, EvictFails, Discard
<1>2. CacheInv /\ [CacheNext]_cacheVars =>
         [Alone /\ buildFaults = 0 =>
             \A t \in Loader : ~(BuildFails(t) \/ EvictFails(t) \/ Discard(t))]_cacheVars
  BY <1>1
<1>. QED  BY <1>2, CacheInvariance, PTL DEF CacheSpec, LoadsHeal
=============================================================================
