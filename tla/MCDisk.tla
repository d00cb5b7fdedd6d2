------------------------------- MODULE MCDisk -------------------------------
(***************************************************************************)
(* What is kept on disk, for TLC: the cache of compiled libraries and a     *)
(* file that is replaced.  They share no state, so one of them is in use in *)
(* each behaviour.                                                          *)
(***************************************************************************)
EXTENDS CompileCache, FileReplace, TLC

CONSTANTS l1, l2, l3, w1, w2, w3, p1, p2, small, large

VARIABLE store    \* the one in use: "cache" or "file"

\* Two threads of one process and one of another.
LoaderProcess == [t \in Loader |-> IF t = l3 THEN p2 ELSE p1]
WriterProcess == [w \in Writer |-> IF w = w3 THEN p2 ELSE p1]

SizeByName == [v \in Value |-> IF v = small THEN 2 ELSE 4]

Symmetric == Permutations({w1, w2}) \cup Permutations({l1, l2})

(* Every writer saves once, beside a reader and a crash; or those of one process
   do, without either, and one of them twice, so that it finds the file that it
   left. *)
Bounded ==
    \/ \A w \in Writer : calls'[w] <= 1
    \/ /\ calls'[w3] = 0 /\ calls'[w1] + calls'[w2] <= 3
       /\ crashes' = 0 /\ \A r \in Reader : loads'[r] = 0

Init ==
    /\ store \in {"cache", "file"}
    /\ CacheInit /\ FileInit
    /\ store = "file" => lib = [k \in Key |-> "none"]
    /\ store = "cache" => dest = None

Next ==
    \/ store = "cache" /\ CacheNext /\ UNCHANGED <<fileVars, store>>
    \/ store = "file" /\ FileNext /\ Bounded /\ UNCHANGED <<cacheVars, store>>

Spec == Init /\ [][Next]_<<cacheVars, fileVars, store>>
=============================================================================
