-------------------------- MODULE WriteBehind_proofs --------------------------
(* Proofs about WriteBehind, for every number of events, concurrent flushes, *)
(* faults and clears.                                                        *)
EXTENDS WriteBehind, FiniteSetTheorems, TLAPS

(* XADD adds its entry to what is pending and removes nothing.               *)
LEMMA RangeOfAppend ==
    ASSUME NEW S, NEW s \in Seq(S), NEW e \in S
    PROVE  Range(Append(s, e)) = Range(s) \cup {e}
  <1> DEFINE t == Append(s, e)
  <1>1. /\ DOMAIN t = 1 .. Len(s) + 1
        /\ \A i \in 1 .. Len(s) : t[i] = s[i]
        /\ t[Len(s) + 1] = e
        /\ DOMAIN s = 1 .. Len(s)
        /\ Len(s) \in Nat
    OBVIOUS
  <1> HIDE DEF t
  <1>2. Range(t) \subseteq Range(s) \cup {e}
    BY <1>1 DEF Range
  <1>3. Range(s) \subseteq Range(t)
    BY <1>1 DEF Range
  <1>4. e \in Range(t)
    BY <1>1 DEF Range
  <1> QED
    BY <1>2, <1>3, <1>4 DEF t

(* XRANGE: an entry is in the batch or among the entries beyond it.          *)
LEMMA RangeOfSplit ==
    ASSUME NEW S, NEW s \in Seq(S), NEW n \in 0 .. Len(s)
    PROVE  /\ SubSeq(s, 1, n) \in Seq(S)
           /\ Range(s) = Range(SubSeq(s, 1, n)) \cup {s[i] : i \in n + 1 .. Len(s)}
  <1> DEFINE t == SubSeq(s, 1, n)
  <1>1. /\ DOMAIN t = 1 .. n
        /\ \A i \in 1 .. n : t[i] = s[i]
        /\ DOMAIN s = 1 .. Len(s)
        /\ Len(s) \in Nat
        /\ t \in Seq(S)
    OBVIOUS
  <1> HIDE DEF t
  <1>2. Range(t) \cup {s[i] : i \in n + 1 .. Len(s)} \subseteq Range(s)
    BY <1>1 DEF Range
  <1>3. Range(s) \subseteq Range(t) \cup {s[i] : i \in n + 1 .. Len(s)}
    <2> SUFFICES ASSUME NEW i \in 1 .. Len(s)
                 PROVE  s[i] \in Range(t) \cup {s[j] : j \in n + 1 .. Len(s)}
      BY <1>1 DEF Range
    <2>1. CASE i <= n
      BY <1>1, <2>1 DEF Range
    <2>2. CASE i > n
      BY <1>1, <2>2
    <2> QED
      BY <1>1, <2>1, <2>2
  <1> QED
    BY <1>1, <1>2, <1>3 DEF t

----------------------------------------------------------------------------
(* The type invariant: whatever the interleaving, the stream and the table   *)
(* hold events only and the counters stay natural numbers.                   *)
THEOREM TypeCorrect == Spec => []TypeOK
  <1>1. Init => TypeOK
    BY WriteBehindAssumption DEF Init, TypeOK, NoStats, Flushers
  <1>2. TypeOK /\ [Next]_vars => TypeOK'
    <2> SUFFICES ASSUME TypeOK, [Next]_vars
                 PROVE  TypeOK'
      OBVIOUS
    <2> USE WriteBehindAssumption DEF TypeOK, history, counters
    <2>1. ASSUME NEW e \in Events, Post(e) PROVE TypeOK'
      BY <2>1 DEF Post
    <2>2. ASSUME NEW f \in Flushers, Read(f) PROVE TypeOK'
      <3> DEFINE n == ReadLength(f)
      <3>1. n \in 0 .. Len(stream)
        BY DEF ReadLength
      <3>2. SubSeq(stream, 1, n) \in Seq(Events)
        BY <3>1, RangeOfSplit
      <3>3. {stream[i] : i \in n + 1 .. Len(stream)} \subseteq Events
        BY <3>1
      <3> HIDE DEF n
      <3>4. batch' \in [Flushers -> Seq(Events)]
        BY <2>2, <3>2 DEF Read, n
      <3>5. left' \subseteq Events
        BY <2>2, <3>3 DEF Read, n
      <3> QED
        BY <2>2, <3>4, <3>5 DEF Read
    <2>3. ASSUME NEW f \in Flushers, Commit(f) PROVE TypeOK'
      <3>1. Taken(f) \subseteq Events
        BY DEF Taken, Range
      <3>2. table' \in Seq(Events)
        BY <2>3 DEF Commit
      <3> QED
        BY <2>3, <3>1, <3>2 DEF Commit
    <2>4. ASSUME NEW f \in Flushers, Delete(f) PROVE TypeOK'
      BY <2>4 DEF Delete
    <2>5. ASSUME NEW f \in Flushers, Count(f) PROVE TypeOK'
      BY <2>5 DEF Count
    <2>6. ASSUME NEW f \in Flushers, Fail(f) PROVE TypeOK'
      <3>1. stream' \in Seq(Events)
        <4>1. stream' = stream \/ stream' = <<>>
          BY <2>6, Zenon DEF Fail
        <4>2. stream \in Seq(Events) /\ <<>> \in Seq(Events)
          OBVIOUS
        <4> QED
          BY <4>1, <4>2, Zenon
      <3>2. faults' \in 0 .. MaxFaults
        BY <2>6 DEF Fail
      <3> QED
        BY <2>6, <3>1, <3>2 DEF Fail
    <2>7. CASE Clear
      <3>1. CASE ClearStream
        <4>1. Pending \subseteq Events
          BY DEF Pending, Range
        <4> QED
          BY <3>1, <4>1 DEF ClearStream
      <3>2. CASE ClearRows
        BY <3>2 DEF ClearRows
      <3>3. CASE ClearCounters
        BY <3>3 DEF ClearCounters
      <3>4. CASE ClearFail
        BY <3>4 DEF ClearFail
      <3> QED
        BY <2>7, <3>1, <3>2, <3>3, <3>4 DEF Clear
    <2>8. CASE Stats
      <3>1. CASE StatsDepth
        BY <3>1 DEF StatsDepth
      <3>2. CASE StatsTotal
        <4>1. Len(table) \in Nat
          OBVIOUS
        <4> QED
          BY <3>2, <4>1 DEF StatsTotal
      <3> QED
        BY <2>8, <3>1, <3>2 DEF Stats
    <2>9. ASSUME Reboot, faults' \in 0 .. MaxFaults PROVE TypeOK'
      BY <2>9 DEF Reboot, NoStats
    <2>10. CASE Crash
      BY <2>9, <2>10 DEF Crash
    <2>11. CASE Restart
      BY <2>9, <2>11 DEF Restart
    <2>12. CASE UNCHANGED vars
      BY <2>12 DEF vars
    <2> QED
      BY <2>1, <2>2, <2>3, <2>4, <2>5, <2>6, <2>7, <2>8, <2>10, <2>11, <2>12
         DEF Next, Flush
  <1> QED
    BY <1>1, <1>2, PTL DEF Spec

----------------------------------------------------------------------------
(* A flusher that is about to delete has saved what it read; and what is in  *)
(* the stream during a flush is in the batch, was beyond it, or came late.   *)
BatchSaved ==
    \A f \in Flushers : pc[f] = "delete" => Taken(f) \subseteq saved

BatchCovers ==
    \A f \in Flushers :
        pc[f] \in {"commit", "delete"} =>
            Pending \subseteq Taken(f) \cup left \cup late

LossInv == BatchSaved /\ BatchCovers /\ LossNeedsExposure

LEMMA LossInit == Init => LossInv
  BY DEF Init, LossInv, BatchSaved, BatchCovers, LossNeedsExposure, Posted, Range

(* The empty stream has nothing pending.                                     *)
LEMMA NothingPending == stream' = <<>> => Pending' = {}
  BY DEF Pending, Range

(* POST /event while a flush is under way makes the event late; otherwise    *)
(* there is no batch it could be missing from.                               *)
LEMMA LossPost ==
    ASSUME TypeOK, LossInv, NEW e \in Events, Post(e)
    PROVE  LossInv'
  <1>1. Pending' = Pending \cup {e} /\ Posted' = Posted \cup {e}
    BY RangeOfAppend DEF Post, Pending, Posted, TypeOK
  <1>2. late \subseteq late' /\ UNCHANGED <<pc, batch, saved, left, wiped>>
    BY DEF Post, history
  <1>3. BatchSaved'
    BY <1>2 DEF LossInv, BatchSaved, Taken
  <1>4. BatchCovers'
    <2> SUFFICES ASSUME NEW f \in Flushers, pc[f] \in {"commit", "delete"}
                 PROVE  Pending' \subseteq Taken(f) \cup left \cup late'
      BY <1>2 DEF BatchCovers, Taken
    <2>1. e \in late'
      BY DEF Post
    <2> QED
      BY <1>1, <1>2, <2>1 DEF LossInv, BatchCovers
  <1>5. LossNeedsExposure'
    BY <1>1, <1>2 DEF LossInv, LossNeedsExposure
  <1> QED
    BY <1>3, <1>4, <1>5 DEF LossInv

(* XRANGE splits the stream into the batch and what is left beyond it.       *)
LEMMA LossRead ==
    ASSUME TypeOK, LossInv, NEW f \in Flushers, Read(f)
    PROVE  LossInv'
  <1> DEFINE n == ReadLength(f)
             beyond == {stream[i] : i \in n + 1 .. Len(stream)}
  <1>1. n \in 0 .. Len(stream)
    BY WriteBehindAssumption DEF ReadLength, TypeOK
  <1>2. Pending = Range(SubSeq(stream, 1, n)) \cup beyond
    BY <1>1, RangeOfSplit DEF TypeOK, Pending
  <1>3. /\ batch' = [batch EXCEPT ![f] = SubSeq(stream, 1, n)]
        /\ pc' = [pc EXCEPT ![f] = "commit"]
        /\ left' = left \cup beyond
        /\ UNCHANGED <<stream, posted, saved, late, wiped>>
    BY DEF Read
  <1> HIDE DEF n, beyond
  <1>4. ASSUME NEW g \in Flushers, g # f
        PROVE  pc'[g] = pc[g] /\ batch'[g] = batch[g]
    BY <1>3, <1>4 DEF TypeOK
  <1>5. pc'[f] = "commit" /\ Taken(f)' = Range(SubSeq(stream, 1, n))
    BY <1>3 DEF TypeOK, Taken
  <1>6. BatchSaved'
    BY <1>3, <1>4, <1>5 DEF LossInv, BatchSaved, Taken
  <1>7. BatchCovers'
    <2> SUFFICES ASSUME NEW g \in Flushers, pc'[g] \in {"commit", "delete"}
                 PROVE  Pending' \subseteq Taken(g)' \cup left' \cup late'
      BY DEF BatchCovers
    <2>1. Pending' = Pending /\ late' = late
      BY <1>3 DEF Pending
    <2>2. CASE g = f
      BY <1>2, <1>3, <1>5, <2>1, <2>2
    <2>3. CASE g # f
      <3>1. Pending \subseteq Taken(g) \cup left \cup late
        BY <1>4, <2>3 DEF LossInv, BatchCovers
      <3>2. Taken(g)' = Taken(g)
        BY <1>4, <2>3 DEF Taken
      <3> QED
        BY <1>3, <2>1, <3>1, <3>2
    <2> QED
      BY <2>2, <2>3
  <1>8. LossNeedsExposure'
    BY <1>3 DEF LossInv, LossNeedsExposure, Posted, Pending
  <1> QED
    BY <1>6, <1>7, <1>8 DEF LossInv

(* The commit saves exactly the batch.                                       *)
LEMMA LossCommit ==
    ASSUME TypeOK, LossInv, NEW f \in Flushers, Commit(f)
    PROVE  LossInv'
  <1>1. /\ saved' = saved \cup Taken(f)
        /\ pc' = [pc EXCEPT ![f] = "delete"]
        /\ pc[f] = "commit"
        /\ UNCHANGED <<stream, batch, posted, left, late, wiped>>
    BY DEF Commit
  <1>2. BatchSaved'
    BY <1>1 DEF LossInv, BatchSaved, Taken, TypeOK
  <1>3. BatchCovers'
    BY <1>1 DEF LossInv, BatchCovers, Taken, Pending, TypeOK
  <1>4. LossNeedsExposure'
    BY <1>1 DEF LossInv, LossNeedsExposure, Posted, Pending
  <1> QED
    BY <1>2, <1>3, <1>4 DEF LossInv

(* A DEL, carried out or not, by a flusher that has saved its batch.         *)
LEMMA LossDelete ==
    ASSUME TypeOK, LossInv, NEW f \in Flushers, pc[f] = "delete",
           NEW q \in {"count", "idle"}, pc' = [pc EXCEPT ![f] = q],
           \A g \in Flushers \ {f} : batch'[g] = batch[g],
           stream' \in {stream, <<>>}, UNCHANGED history
    PROVE  LossInv'
  <1>1. Pending \subseteq saved \cup left \cup late
    BY DEF LossInv, BatchSaved, BatchCovers
  <1>2. Pending' \subseteq Pending
    BY NothingPending DEF Pending
  <1>3. /\ pc'[f] = q
        /\ \A g \in Flushers \ {f} : pc'[g] = pc[g] /\ Taken(g)' = Taken(g)
    BY DEF TypeOK, Taken
  <1>4. UNCHANGED <<posted, saved, left, late, wiped>>
    BY DEF history
  <1>5. BatchSaved'
    BY <1>3, <1>4 DEF LossInv, BatchSaved
  <1>6. BatchCovers'
    BY <1>2, <1>3, <1>4 DEF LossInv, BatchCovers
  <1>7. LossNeedsExposure'
    BY <1>1, <1>4 DEF LossInv, LossNeedsExposure, Posted
  <1> QED
    BY <1>5, <1>6, <1>7 DEF LossInv

(* DELETE /clear exposes what it deletes; a restart drops every batch.       *)
LEMMA LossClear ==
    ASSUME TypeOK, LossInv, Clear
    PROVE  LossInv'
  <1>1. CASE ClearStream
    <2>1. /\ Pending' = {}
          /\ wiped' = wiped \cup Pending
          /\ UNCHANGED <<pc, batch, posted, saved, left, late>>
      BY <1>1, NothingPending DEF ClearStream
    <2> QED
      BY <2>1 DEF LossInv, BatchSaved, BatchCovers, LossNeedsExposure, Taken, Posted
  <1>2. CASE ClearRows \/ ClearCounters \/ ClearFail
    <2>1. UNCHANGED <<stream, pc, batch, posted, saved, left, late, wiped>>
      BY <1>2 DEF ClearRows, ClearCounters, ClearFail, history
    <2> QED
      BY <2>1 DEF LossInv, BatchSaved, BatchCovers, LossNeedsExposure, Taken,
                  Posted, Pending
  <1> QED
    BY <1>1, <1>2 DEF Clear

LEMMA LossReboot ==
    ASSUME TypeOK, LossInv, Reboot
    PROVE  LossInv'
  <1>1. /\ \A f \in Flushers : pc'[f] = "idle"
        /\ UNCHANGED <<stream, posted, saved, left, late, wiped>>
    BY DEF Reboot, history
  <1> QED
    BY <1>1 DEF LossInv, BatchSaved, BatchCovers, LossNeedsExposure, Posted, Pending

(* What a flusher is about to delete is saved, in every reachable state.     *)
LEMMA LossCorrect == Spec => []LossInv
  <1>1. TypeOK /\ LossInv /\ [Next]_vars => LossInv'
    <2> SUFFICES ASSUME TypeOK, LossInv, [Next]_vars
                 PROVE  LossInv'
      OBVIOUS
    <2>1. CASE \E e \in Events : Post(e)
      BY <2>1, LossPost
    <2>2. ASSUME NEW f \in Flushers, Read(f) PROVE LossInv'
      BY <2>2, LossRead
    <2>3. ASSUME NEW f \in Flushers, Commit(f) PROVE LossInv'
      BY <2>3, LossCommit
    <2>4. ASSUME NEW f \in Flushers, Delete(f) PROVE LossInv'
      <3>1. stream' = <<>> /\ batch' = batch /\ UNCHANGED history
        BY <2>4 DEF Delete
      <3>2. pc[f] = "delete" /\ pc' = [pc EXCEPT ![f] = "count"]
        BY <2>4 DEF Delete
      <3> QED
        BY <3>1, <3>2, LossDelete
    <2>5. ASSUME NEW f \in Flushers, Count(f) PROVE LossInv'
      <3>1. /\ UNCHANGED <<stream, posted, saved, left, late, wiped>>
            /\ pc'[f] = "idle"
            /\ \A g \in Flushers \ {f} : pc'[g] = pc[g] /\ batch'[g] = batch[g]
        BY <2>5 DEF Count, history, TypeOK
      <3> QED
        BY <3>1 DEF LossInv, BatchSaved, BatchCovers, LossNeedsExposure, Taken,
                    Posted, Pending
    <2>6. ASSUME NEW f \in Flushers, Fail(f) PROVE LossInv'
      <3>1. /\ pc' = [pc EXCEPT ![f] = "idle"]
            /\ \A g \in Flushers \ {f} : batch'[g] = batch[g]
            /\ UNCHANGED history
        BY <2>6 DEF Fail, TypeOK
      <3>2. CASE pc[f] = "delete"
        <4>1. stream' \in {stream, <<>>}
          BY <2>6, <3>2, Zenon DEF Fail
        <4> QED
          BY <3>1, <3>2, <4>1, LossDelete
      <3>3. CASE pc[f] # "delete"
        <4>1. stream' = stream
          BY <2>6, <3>3 DEF Fail
        <4>2. /\ pc'[f] = "idle"
              /\ \A g \in Flushers \ {f} : pc'[g] = pc[g]
          BY <3>1 DEF TypeOK
        <4> QED
          BY <3>1, <4>1, <4>2
             DEF LossInv, BatchSaved, BatchCovers, LossNeedsExposure, Taken,
                 Posted, Pending, history
      <3> QED
        BY <3>2, <3>3
    <2>7. CASE Clear
      BY <2>7, LossClear
    <2>8. CASE Crash \/ Restart
      BY <2>8, LossReboot DEF Crash, Restart
    <2>9. CASE Stats \/ UNCHANGED vars
      <3>1. UNCHANGED <<stream, pc, batch, posted, saved, left, late, wiped>>
        BY <2>9 DEF Stats, StatsDepth, StatsTotal, vars, history
      <3> QED
        BY <3>1 DEF LossInv, BatchSaved, BatchCovers, LossNeedsExposure, Taken,
                    Posted, Pending
    <2> QED
      BY <2>1, <2>2, <2>3, <2>4, <2>5, <2>6, <2>7, <2>8, <2>9 DEF Next, Flush
  <1> QED
    BY <1>1, LossInit, TypeCorrect, PTL DEF Spec

(* Every acknowledged event is in SQLite, in the stream, or was exposed to a *)
(* DEL it was not read for: the code's order of commit and DEL, for any      *)
(* number of flushers, faults and restarts.                                  *)
THEOREM NothingLostUnexposed == Spec => []LossNeedsExposure
  <1>1. LossInv => LossNeedsExposure
    BY DEF LossInv
  <1> QED
    BY <1>1, LossCorrect, PTL

----------------------------------------------------------------------------
(* Appending what a sequence does not hold yet brings in no repeat.          *)
LEMMA InjectiveAppend ==
    ASSUME NEW S, NEW s \in Seq(S), NEW e \in S, e \notin Range(s), IsInjective(s)
    PROVE  IsInjective(Append(s, e))
  <1> DEFINE t == Append(s, e)
  <1>1. /\ DOMAIN t = 1 .. Len(s) + 1
        /\ \A i \in 1 .. Len(s) : t[i] = s[i]
        /\ t[Len(s) + 1] = e
        /\ DOMAIN s = 1 .. Len(s)
        /\ Len(s) \in Nat
    OBVIOUS
  <1> HIDE DEF t
  <1>2. \A i \in 1 .. Len(s) : t[i] # e
    BY <1>1 DEF Range
  <1>3. IsInjective(t)
    BY <1>1, <1>2 DEF IsInjective
  <1> QED
    BY <1>3 DEF t

(* The batch of XRANGE repeats no entry that the stream does not repeat.     *)
LEMMA InjectivePrefix ==
    ASSUME NEW S, NEW s \in Seq(S), NEW n \in 0 .. Len(s), IsInjective(s)
    PROVE  IsInjective(SubSeq(s, 1, n))
  <1> DEFINE t == SubSeq(s, 1, n)
  <1>1. /\ DOMAIN t = 1 .. n
        /\ \A i \in 1 .. n : t[i] = s[i]
        /\ DOMAIN s = 1 .. Len(s)
        /\ Len(s) \in Nat
    OBVIOUS
  <1> HIDE DEF t
  <1>2. IsInjective(t)
    BY <1>1 DEF IsInjective
  <1> QED
    BY <1>2 DEF t

(* A transaction adds the rows of its batch behind those that exist.         *)
LEMMA Concatenation ==
    ASSUME NEW S, NEW s \in Seq(S), NEW b \in Seq(S)
    PROVE  /\ Len(s) \in Nat /\ Len(b) \in Nat
           /\ DOMAIN s = 1 .. Len(s) /\ DOMAIN b = 1 .. Len(b)
           /\ DOMAIN (s \o b) = 1 .. Len(s) + Len(b)
           /\ Len(s \o b) = Len(s) + Len(b)
           /\ \A i \in 1 .. Len(s) : (s \o b)[i] = s[i]
           /\ \A i \in 1 .. Len(b) : (s \o b)[Len(s) + i] = b[i]
           /\ Range(s \o b) = Range(s) \cup Range(b)
  <1> DEFINE t == s \o b
  <1>1. /\ Len(s) \in Nat /\ Len(b) \in Nat
        /\ DOMAIN s = 1 .. Len(s) /\ DOMAIN b = 1 .. Len(b)
        /\ DOMAIN t = 1 .. Len(s) + Len(b)
        /\ Len(t) = Len(s) + Len(b)
        /\ \A i \in 1 .. Len(s) : t[i] = s[i]
        /\ \A i \in 1 .. Len(b) : t[Len(s) + i] = b[i]
    OBVIOUS
  <1> HIDE DEF t
  <1>2. Range(s) \subseteq Range(t)
    BY <1>1 DEF Range
  <1>3. Range(b) \subseteq Range(t)
    BY <1>1 DEF Range
  <1>4. Range(t) \subseteq Range(s) \cup Range(b)
    <2> SUFFICES ASSUME NEW i \in 1 .. Len(s) + Len(b)
                 PROVE  t[i] \in Range(s) \cup Range(b)
      BY <1>1 DEF Range
    <2>1. CASE i <= Len(s)
      BY <1>1, <2>1 DEF Range
    <2>2. CASE i > Len(s)
      <3>1. i - Len(s) \in 1 .. Len(b) /\ t[i] = b[i - Len(s)]
        BY <1>1, <2>2
      <3> QED
        BY <1>1, <3>1 DEF Range
    <2> QED
      BY <1>1, <2>1, <2>2
  <1> QED
    BY <1>1, <1>2, <1>3, <1>4 DEF t

----------------------------------------------------------------------------
(* What the stream, the batches and the table hold was posted; an event is   *)
(* posted once, so a stream and a batch never repeat one; without a Redis    *)
(* handle no flusher runs; until the first clear, saved rows stay.           *)
Known ==
    /\ Range(table) \cup Pending \cup saved \subseteq Posted
    /\ \A f \in Flushers : Taken(f) \subseteq Posted

Distinct ==
    /\ IsInjective(posted) /\ IsInjective(stream)
    /\ \A f \in Flushers : IsInjective(batch[f])

OfflineIdle == ~connected => \A f \in Flushers : pc[f] = "idle"

NoClearYet ==
    clears = 0 => clearing = "idle" /\ wiped = {} /\ saved \subseteq Range(table)

KnownInv == Known /\ Distinct /\ OfflineIdle /\ NoClearYet

LEMMA EmptySequence == IsInjective(<<>>) /\ Range(<<>>) = {} /\ Len(<<>>) = 0
  BY DEF IsInjective, Range

LEMMA KnownInit == Init => KnownInv
  BY EmptySequence
     DEF Init, KnownInv, Known, Distinct, OfflineIdle, NoClearYet, Pending,
         Posted, Taken

LEMMA KnownPost ==
    ASSUME TypeOK, KnownInv, NEW e \in Events, Post(e)
    PROVE  KnownInv'
  <1>1. Pending' = Pending \cup {e} /\ Posted' = Posted \cup {e}
    BY RangeOfAppend DEF Post, Pending, Posted, TypeOK
  <1>2. e \notin Pending /\ e \notin Posted
    BY DEF Post, KnownInv, Known
  <1>3. UNCHANGED <<table, saved, wiped, batch, pc, connected, clearing, clears>>
    BY DEF Post
  <1>4. IsInjective(posted') /\ IsInjective(stream')
    BY <1>2, InjectiveAppend
       DEF Post, KnownInv, Distinct, TypeOK, Pending, Posted
  <1>5. Known' /\ Distinct'
    BY <1>1, <1>3, <1>4 DEF KnownInv, Known, Distinct, Taken
  <1> QED
    BY <1>3, <1>5 DEF KnownInv, OfflineIdle, NoClearYet

LEMMA KnownRead ==
    ASSUME TypeOK, KnownInv, NEW f \in Flushers, Read(f)
    PROVE  KnownInv'
  <1> DEFINE n == ReadLength(f)
             b == SubSeq(stream, 1, n)
  <1>1. n \in 0 .. Len(stream)
    BY WriteBehindAssumption DEF ReadLength, TypeOK
  <1>2. Range(b) \subseteq Pending /\ IsInjective(b)
    BY <1>1, RangeOfSplit, InjectivePrefix
       DEF TypeOK, Pending, KnownInv, Distinct
  <1>3. /\ batch' = [batch EXCEPT ![f] = b]
        /\ pc' = [pc EXCEPT ![f] = "commit"]
        /\ connected
        /\ UNCHANGED <<stream, table, connected, clearing, clears, posted,
                       saved, wiped>>
    BY DEF Read
  <1> HIDE DEF b
  <1>4. \A g \in Flushers : batch'[g] \in {batch[g], b}
    BY <1>3 DEF TypeOK
  <1>5. Known' /\ Distinct'
    BY <1>2, <1>3, <1>4 DEF KnownInv, Known, Distinct, Taken, Pending, Posted
  <1> QED
    BY <1>3, <1>5 DEF KnownInv, OfflineIdle, NoClearYet

LEMMA KnownCommit ==
    ASSUME TypeOK, KnownInv, NEW f \in Flushers, Commit(f)
    PROVE  KnownInv'
  <1>1. Range(table)' = Range(table) \cup Taken(f)
    BY Concatenation DEF Commit, TypeOK, Taken
  <1>2. /\ saved' = saved \cup Taken(f)
        /\ pc[f] = "commit"
        /\ UNCHANGED <<stream, batch, posted, wiped, connected, clearing, clears>>
    BY DEF Commit
  <1>3. Known' /\ Distinct' /\ NoClearYet'
    BY <1>1, <1>2
       DEF KnownInv, Known, Distinct, NoClearYet, Taken, Pending, Posted
  <1>4. OfflineIdle'
    BY <1>2 DEF KnownInv, OfflineIdle
  <1> QED
    BY <1>3, <1>4 DEF KnownInv

(* Every other step posts, reads and saves nothing.                          *)
LEMMA KnownElse ==
    ASSUME KnownInv, UNCHANGED <<posted, saved>>,
           stream' \in {stream, <<>>}, table' \in {table, <<>>},
           \A f \in Flushers : batch'[f] \in {batch[f], <<>>},
           OfflineIdle',
           clears' = 0 => clears = 0 /\ clearing' = "idle" /\ UNCHANGED <<table, wiped>>
    PROVE  KnownInv'
  <1>1. /\ Range(table') \subseteq Range(table)
        /\ Pending' \subseteq Pending
        /\ \A f \in Flushers : Taken(f)' \subseteq Taken(f)
    BY EmptySequence DEF Pending, Taken
  <1>2. Known'
    BY <1>1 DEF KnownInv, Known, Posted
  <1>3. Distinct'
    BY EmptySequence DEF KnownInv, Distinct
  <1>4. NoClearYet'
    BY DEF KnownInv, NoClearYet
  <1> QED
    BY <1>2, <1>3, <1>4 DEF KnownInv

(* The four facts hold in every reachable state.                             *)
LEMMA KnownCorrect == Spec => []KnownInv
  <1>1. TypeOK /\ KnownInv /\ [Next]_vars => KnownInv'
    <2> SUFFICES ASSUME TypeOK, KnownInv, [Next]_vars
                 PROVE  KnownInv'
      OBVIOUS
    <2> USE DEF TypeOK, history, counters
    <2>1. ASSUME NEW e \in Events, Post(e) PROVE KnownInv'
      BY <2>1, KnownPost
    <2>2. ASSUME NEW f \in Flushers, Read(f) PROVE KnownInv'
      BY <2>2, KnownRead
    <2>3. ASSUME NEW f \in Flushers, Commit(f) PROVE KnownInv'
      BY <2>3, KnownCommit
    <2>4. ASSUME NEW f \in Flushers, Delete(f) \/ Count(f) PROVE KnownInv'
      <3>1. OfflineIdle'
        BY <2>4 DEF Delete, Count, KnownInv, OfflineIdle
      <3>2. clears' = 0 => clearing' = "idle"
        BY <2>4 DEF Delete, Count, KnownInv, NoClearYet
      <3> QED
        BY <2>4, <3>1, <3>2, KnownElse DEF Delete, Count
    <2>5. ASSUME NEW f \in Flushers, Fail(f) PROVE KnownInv'
      <3>1. stream' \in {stream, <<>>}
        BY <2>5, Zenon DEF Fail
      <3>2. OfflineIdle'
        BY <2>5 DEF Fail, KnownInv, OfflineIdle
      <3>3. clears' = 0 => clearing' = "idle"
        BY <2>5 DEF Fail, KnownInv, NoClearYet
      <3> QED
        BY <2>5, <3>1, <3>2, <3>3, KnownElse DEF Fail
    <2>6. CASE Clear
      <3>1. OfflineIdle'
        BY <2>6 DEF Clear, ClearStream, ClearRows, ClearCounters, ClearFail,
                    KnownInv, OfflineIdle
      <3>2. CASE ClearStream
        BY <3>1, <3>2, KnownElse DEF ClearStream
      <3>3. CASE ClearRows \/ ClearCounters \/ ClearFail
        <4>1. clears' # 0
          BY <3>3 DEF ClearRows, ClearCounters, ClearFail, KnownInv, NoClearYet
        <4> QED
          BY <3>1, <3>3, <4>1, KnownElse DEF ClearRows, ClearCounters, ClearFail
      <3> QED
        BY <2>6, <3>2, <3>3 DEF Clear
    <2>7. CASE Crash \/ Restart
      <3>1. Reboot
        BY <2>7 DEF Crash, Restart
      <3>2. OfflineIdle'
        BY <3>1 DEF Reboot, OfflineIdle
      <3> QED
        BY <3>1, <3>2, KnownElse DEF Reboot
    <2>8. CASE Stats \/ UNCHANGED vars
      <3>1. OfflineIdle' /\ (clears' = 0 => clearing' = "idle")
        BY <2>8 DEF Stats, StatsDepth, StatsTotal, vars, KnownInv, OfflineIdle,
                    NoClearYet
      <3> QED
        BY <2>8, <3>1, KnownElse DEF Stats, StatsDepth, StatsTotal, vars
    <2> QED
      BY <2>1, <2>2, <2>3, <2>4, <2>5, <2>6, <2>7, <2>8 DEF Next, Flush
  <1> QED
    BY <1>1, KnownInit, TypeCorrect, PTL DEF Spec

----------------------------------------------------------------------------
(* The flushers that may still insert a row of e: those about to commit it,  *)
(* and, while it is in the stream or yet to be posted, those that have not   *)
(* inserted it in their present round. Every row has used one of them up,    *)
(* and only a fault gives them back.                                         *)
Could(e) ==
    {f \in Flushers :
        \/ pc[f] = "commit" /\ e \in Taken(f)
        \/ /\ e \in Pending \/ e \notin Posted
           /\ ~(pc[f] = "delete" /\ e \in Taken(f))}

RowsBounded(e) ==
    /\ IsFiniteSet(Rows(e))
    /\ Cardinality(Rows(e)) + Cardinality(Could(e))
           <= Cardinality(Flushers) * (1 + faults)

DuplicationInv == \A e \in Events : RowsBounded(e)

LEMMA FlushersFinite ==
    /\ IsFiniteSet(Flushers)
    /\ Cardinality(Flushers) \in Nat
    /\ \A e \in Events :
           /\ IsFiniteSet(Could(e))
           /\ Cardinality(Could(e)) \in 0 .. Cardinality(Flushers)
  <1>1. IsFiniteSet(Flushers)
    BY WriteBehindAssumption, FS_Union, FS_Singleton DEF Flushers
  <1>2. Cardinality(Flushers) \in Nat
    BY <1>1, FS_CardinalityType
  <1>3. ASSUME NEW e \in Events
        PROVE  /\ IsFiniteSet(Could(e))
               /\ Cardinality(Could(e)) \in 0 .. Cardinality(Flushers)
    <2> DEFINE C == Could(e)
    <2>1. C \in SUBSET Flushers
      BY DEF Could
    <2> HIDE DEF C
    <2>2. IsFiniteSet(C) /\ Cardinality(C) <= Cardinality(Flushers)
      BY <1>1, <2>1, FS_Subset
    <2>3. Cardinality(C) \in Nat
      BY <2>2, FS_CardinalityType
    <2>4. Cardinality(C) \in 0 .. Cardinality(Flushers)
      BY <1>2, <2>2, <2>3
    <2> QED
      BY <2>2, <2>4 DEF C
  <1> QED
    BY <1>1, <1>2, <1>3

LEMMA TimesNext ==
    ASSUME NEW m \in Nat, NEW n \in Nat
    PROVE  /\ m * (1 + n) \in Nat
           /\ m * (1 + (n + 1)) = m * (1 + n) + m
  BY Z3

LEMMA DuplicationInit == Init => DuplicationInv
  <1> SUFFICES ASSUME Init, NEW e \in Events
               PROVE  RowsBounded(e)
    BY DEF DuplicationInv
  <1>1. Rows(e) = {}
    BY DEF Init, Rows
  <1>2. faults = 0
    BY DEF Init
  <1> QED
    BY <1>1, <1>2, FS_EmptySet, FlushersFinite, TimesNext DEF RowsBounded

(* A step that inserts no row and gives no flusher a new chance.             *)
LEMMA DuplicationSame ==
    ASSUME TypeOK, NEW e \in Events, RowsBounded(e), UNCHANGED <<table, faults>>,
           Could(e)' \subseteq Could(e)
    PROVE  RowsBounded(e)'
  <1> DEFINE C == Could(e)
             D == Could(e)'
  <1>1. IsFiniteSet(C) /\ D \in SUBSET C
    BY FlushersFinite
  <1>2. Rows(e)' = Rows(e)
    BY DEF Rows
  <1>3. IsFiniteSet(Rows(e)) /\ Cardinality(Rows(e)) \in Nat
    BY FS_CardinalityType DEF RowsBounded
  <1>4. Cardinality(Rows(e)) + Cardinality(C) <= Cardinality(Flushers) * (1 + faults)
    BY DEF RowsBounded
  <1>5. Cardinality(C) \in Nat /\ faults \in Nat
    BY <1>1, FS_CardinalityType DEF TypeOK
  <1> HIDE DEF C, D
  <1>6. Cardinality(D) \in Nat /\ Cardinality(D) <= Cardinality(C)
    BY <1>1, FS_Subset, FS_CardinalityType
  <1>7. Cardinality(Rows(e)) + Cardinality(D) <= Cardinality(Flushers) * (1 + faults)
    BY <1>3, <1>4, <1>5, <1>6, FlushersFinite, TimesNext
  <1> QED
    BY <1>2, <1>3, <1>7 DEF RowsBounded, D

(* A commit spends the flusher's chance for each event it inserts.           *)
LEMMA DuplicationCommit ==
    ASSUME TypeOK, KnownInv, NEW f \in Flushers, Commit(f),
           NEW e \in Events, RowsBounded(e)
    PROVE  RowsBounded(e)'
  <1> DEFINE b == batch[f]
             C == Could(e)
             D == Could(e)'
  <1>1. /\ table \in Seq(Events) /\ b \in Seq(Events)
        /\ IsInjective(b)
        /\ table' = table \o b
        /\ pc[f] = "commit" /\ pc' = [pc EXCEPT ![f] = "delete"]
        /\ UNCHANGED <<stream, batch, posted, faults>>
    BY DEF Commit, TypeOK, KnownInv, Distinct
  <1>2. ASSUME NEW g \in Flushers, g # f PROVE pc'[g] = pc[g]
    BY <1>1, <1>2 DEF TypeOK
  <1>3. pc'[f] = "delete"
    BY <1>1 DEF TypeOK
  <1>4. CASE e \notin Range(b)
    <2>1. Rows(e)' = Rows(e)
      <3>1. \A i \in DOMAIN b : b[i] # e
        BY <1>4 DEF Range
      <3>2. ASSUME NEW i \in DOMAIN (table \o b), (table \o b)[i] = e
            PROVE  i \in DOMAIN table /\ table[i] = e
        <4>1. CASE i <= Len(table)
          BY <1>1, <3>2, <4>1, Concatenation
        <4>2. CASE i > Len(table)
          <5>1. i - Len(table) \in 1 .. Len(b) /\ i = Len(table) + (i - Len(table))
            BY <1>1, <3>2, <4>2, Concatenation
          <5>2. b[i - Len(table)] = e
            BY <1>1, <3>2, <5>1, Concatenation
          <5> QED
            BY <1>1, <3>1, <5>1, <5>2, Concatenation
        <4> QED
          BY <1>1, <3>2, <4>1, <4>2, Concatenation
      <3>3. ASSUME NEW i \in DOMAIN table
            PROVE  i \in DOMAIN (table \o b) /\ (table \o b)[i] = table[i]
        BY <1>1, Concatenation
      <3> QED
        BY <1>1, <3>2, <3>3, Zenon DEF Rows
    <2>2. D = C
      BY <1>1, <1>2, <1>3, <1>4 DEF Could, Taken, Pending, Posted
    <2> QED
      BY <1>1, <2>1, <2>2 DEF RowsBounded
  <1>5. CASE e \in Range(b)
    <2>1. PICK q \in DOMAIN b : b[q] = e
      BY <1>5 DEF Range
    <2>2. \A i \in DOMAIN b : b[i] = e => i = q
      BY <1>1, <2>1 DEF IsInjective
    <2>3. Rows(e)' = Rows(e) \cup {Len(table) + q}
      <3>1. ASSUME NEW i \in DOMAIN (table \o b), (table \o b)[i] = e
            PROVE  (i \in DOMAIN table /\ table[i] = e) \/ i = Len(table) + q
        <4>1. CASE i <= Len(table)
          BY <1>1, <3>1, <4>1, Concatenation
        <4>2. CASE i > Len(table)
          <5>1. i - Len(table) \in 1 .. Len(b) /\ i = Len(table) + (i - Len(table))
            BY <1>1, <3>1, <4>2, Concatenation
          <5>2. b[i - Len(table)] = e
            BY <1>1, <3>1, <5>1, Concatenation
          <5> QED
            BY <1>1, <2>2, <5>1, <5>2, Concatenation
        <4> QED
          BY <1>1, <3>1, <4>1, <4>2, Concatenation
      <3>2. ASSUME NEW i \in DOMAIN table
            PROVE  i \in DOMAIN (table \o b) /\ (table \o b)[i] = table[i]
        BY <1>1, Concatenation
      <3>3. Len(table) + q \in DOMAIN (table \o b) /\ (table \o b)[Len(table) + q] = e
        BY <1>1, <2>1, Concatenation
      <3> QED
        BY <1>1, <3>1, <3>2, <3>3, Zenon DEF Rows
    <2>4. f \in C
      BY <1>1, <1>5 DEF Could, Taken
    <2>5. D \in SUBSET (C \ {f})
      <3>1. D \subseteq C
        BY <1>1, <1>2, <2>4 DEF Could, Taken, Pending, Posted
      <3>2. f \notin D
        BY <1>1, <1>3, <1>5 DEF Could, Taken
      <3> QED
        BY <3>1, <3>2
    <2>6. IsFiniteSet(Rows(e)) /\ Cardinality(Rows(e)) \in Nat
      BY FS_CardinalityType DEF RowsBounded
    <2>7. /\ IsFiniteSet(Rows(e)')
          /\ Cardinality(Rows(e)') <= Cardinality(Rows(e)) + 1
          /\ Cardinality(Rows(e)') \in Nat
      <3> DEFINE R == Rows(e)
                 x == Len(table) + q
      <3>1. IsFiniteSet(R) /\ Cardinality(R) \in Nat
        BY <2>6
      <3> HIDE DEF R, x
      <3>2. /\ IsFiniteSet(R \cup {x})
            /\ Cardinality(R \cup {x})
                   = IF x \in R THEN Cardinality(R) ELSE Cardinality(R) + 1
        BY <3>1, FS_AddElement
      <3>3. /\ Cardinality(R \cup {x}) \in Nat
            /\ Cardinality(R \cup {x}) <= Cardinality(R) + 1
        BY <3>1, <3>2
      <3> QED
        BY <2>3, <3>2, <3>3 DEF R, x
    <2>8. IsFiniteSet(C) /\ Cardinality(C) \in Nat
      BY FlushersFinite
    <2>9. Cardinality(Rows(e)) + Cardinality(C) <= Cardinality(Flushers) * (1 + faults)
      BY DEF RowsBounded
    <2> HIDE DEF C, D
    <2>10. IsFiniteSet(C \ {f}) /\ Cardinality(C \ {f}) = Cardinality(C) - 1
      BY <2>4, <2>8, FS_RemoveElement
    <2>11. Cardinality(D) \in Nat /\ Cardinality(D) <= Cardinality(C) - 1
      BY <2>5, <2>10, FS_Subset, FS_CardinalityType
    <2>12. Cardinality(Rows(e)') + Cardinality(D) <= Cardinality(Flushers) * (1 + faults)
      <3>1. Cardinality(Flushers) * (1 + faults) \in Nat
        BY FlushersFinite, TimesNext DEF TypeOK
      <3> QED
        BY <2>6, <2>7, <2>8, <2>9, <2>11, <3>1
    <2>13. faults' = faults
      BY <1>1
    <2> QED
      BY <2>7, <2>12, <2>13 DEF RowsBounded, D
  <1> QED
    BY <1>4, <1>5

(* A fault may give every flusher another chance.                            *)
LEMMA DuplicationFault ==
    ASSUME TypeOK, NEW e \in Events, RowsBounded(e), UNCHANGED table,
           faults' = faults + 1
    PROVE  RowsBounded(e)'
  <1> DEFINE R == Cardinality(Rows(e))
             C == Cardinality(Could(e))
             D == Cardinality(Could(e)')
             F == Cardinality(Flushers)
  <1>1. Rows(e)' = Rows(e)
    BY DEF Rows
  <1>2. IsFiniteSet(Rows(e)) /\ R \in Nat /\ R + C <= F * (1 + faults)
    BY FS_CardinalityType DEF RowsBounded
  <1>3. C \in 0 .. F
    BY FlushersFinite
  <1>4. D \in 0 .. F
    <2>1. Could(e)' \in SUBSET Flushers
      BY DEF Could
    <2> DEFINE S == Could(e)'
    <2> HIDE DEF S
    <2>2. IsFiniteSet(S) /\ Cardinality(S) <= F
      BY <2>1, FlushersFinite, FS_Subset DEF S
    <2>3. Cardinality(S) \in Nat
      BY <2>2, FS_CardinalityType
    <2> QED
      BY <2>2, <2>3, FlushersFinite DEF S
  <1>5. F \in Nat /\ faults \in Nat
    BY FlushersFinite DEF TypeOK
  <1>6. F * (1 + faults') = F * (1 + faults) + F /\ F * (1 + faults) \in Nat
    BY <1>5, TimesNext
  <1> HIDE DEF R, C, D, F
  <1>7. R + D <= F * (1 + faults')
    BY <1>2, <1>3, <1>4, <1>5, <1>6
  <1> QED
    BY <1>1, <1>2, <1>7 DEF RowsBounded, R, D, F

(* Posting, reading, deleting and counting give no flusher a new chance.     *)
LEMMA CouldShrinks ==
    ASSUME TypeOK, KnownInv, NEW e \in Events,
           \/ \E e0 \in Events : Post(e0)
           \/ \E f \in Flushers : Read(f) \/ Delete(f) \/ Count(f)
           \/ ClearStream \/ Restart
           \/ UNCHANGED <<stream, pc, batch, posted>>
    PROVE  Could(e)' \subseteq Could(e)
  <1>1. ASSUME NEW e0 \in Events, Post(e0) PROVE Could(e)' \subseteq Could(e)
    <2>1. Pending' = Pending \cup {e0} /\ Posted' = Posted \cup {e0}
      BY <1>1, RangeOfAppend DEF Post, Pending, Posted, TypeOK
    <2>2. e0 \notin Posted /\ UNCHANGED <<pc, batch>>
      BY <1>1 DEF Post
    <2> QED
      BY <2>1, <2>2 DEF Could, Taken, KnownInv, Known
  <1>2. ASSUME NEW f \in Flushers, Read(f) PROVE Could(e)' \subseteq Could(e)
    <2> DEFINE n == ReadLength(f)
               b == SubSeq(stream, 1, n)
    <2>1. n \in 0 .. Len(stream)
      BY WriteBehindAssumption DEF ReadLength, TypeOK
    <2>2. Range(b) \subseteq Pending
      BY <2>1, RangeOfSplit DEF TypeOK, Pending
    <2>3. /\ batch' = [batch EXCEPT ![f] = b]
          /\ pc' = [pc EXCEPT ![f] = "commit"]
          /\ pc[f] = "idle"
          /\ UNCHANGED <<stream, posted>>
      BY <1>2 DEF Read
    <2> HIDE DEF b
    <2>4. /\ pc'[f] = "commit" /\ batch'[f] = b
          /\ \A g \in Flushers \ {f} : pc'[g] = pc[g] /\ batch'[g] = batch[g]
      BY <2>3 DEF TypeOK
    <2> SUFFICES ASSUME NEW g \in Could(e)' PROVE g \in Could(e)
      OBVIOUS
    <2>5. CASE g = f
      BY <2>2, <2>3, <2>4, <2>5 DEF Could, Taken, Pending, Posted
    <2>6. CASE g # f
      BY <2>3, <2>4, <2>6 DEF Could, Taken, Pending, Posted
    <2> QED
      BY <2>5, <2>6
  <1>3. ASSUME NEW f \in Flushers, Delete(f) PROVE Could(e)' \subseteq Could(e)
    <2>1. /\ pc[f] = "delete" /\ pc' = [pc EXCEPT ![f] = "count"]
          /\ Pending' = {}
          /\ UNCHANGED <<batch, posted>>
      BY <1>3, NothingPending DEF Delete, history
    <2>2. /\ pc'[f] = "count"
          /\ \A g \in Flushers \ {f} : pc'[g] = pc[g]
      BY <2>1 DEF TypeOK
    <2> SUFFICES ASSUME NEW g \in Could(e)' PROVE g \in Could(e)
      OBVIOUS
    <2>3. CASE g = f
      BY <2>1, <2>2, <2>3 DEF Could, Taken, Posted, KnownInv, Known
    <2>4. CASE g # f
      BY <2>1, <2>2, <2>4 DEF Could, Taken, Posted
    <2> QED
      BY <2>3, <2>4
  <1>4. ASSUME NEW f \in Flushers, Count(f) PROVE Could(e)' \subseteq Could(e)
    <2>1. /\ pc[f] = "count" /\ pc'[f] = "idle"
          /\ \A g \in Flushers \ {f} : pc'[g] = pc[g] /\ batch'[g] = batch[g]
          /\ UNCHANGED <<stream, posted>>
      BY <1>4 DEF Count, history, TypeOK
    <2> QED
      BY <2>1 DEF Could, Taken, Pending, Posted
  <1>5. CASE ClearStream
    <2>1. Pending' = {} /\ UNCHANGED <<pc, batch, posted>>
      BY <1>5, NothingPending DEF ClearStream
    <2> QED
      BY <2>1 DEF Could, Taken, Posted
  <1>6. CASE Restart
    <2>1. \A f \in Flushers : pc[f] = "idle" /\ pc'[f] = "idle"
      BY <1>6 DEF Restart, Reboot, KnownInv, OfflineIdle
    <2>2. UNCHANGED <<stream, posted>>
      BY <1>6 DEF Restart, Reboot, history
    <2> QED
      BY <2>1, <2>2 DEF Could, Taken, Pending, Posted
  <1>7. CASE UNCHANGED <<stream, pc, batch, posted>>
    BY <1>7 DEF Could, Taken, Pending, Posted
  <1> QED
    BY <1>1, <1>2, <1>3, <1>4, <1>5, <1>6, <1>7

(* The rows that an event has are paid for by flushers and faults.           *)
LEMMA DuplicationStep ==
    ASSUME TypeOK, KnownInv, DuplicationInv, [Next]_vars
    PROVE  DuplicationInv'
  <1> SUFFICES ASSUME NEW e \in Events
               PROVE  RowsBounded(e)'
    BY DEF DuplicationInv
  <1> USE DEF history, counters
  <1>1. RowsBounded(e)
    BY DEF DuplicationInv
  <1>2. CASE \/ \E e0 \in Events : Post(e0)
             \/ \E f \in Flushers : Read(f) \/ Delete(f) \/ Count(f)
             \/ ClearStream \/ Restart
    <2>1. Could(e)' \subseteq Could(e)
      BY <1>2, CouldShrinks
    <2>2. UNCHANGED <<table, faults>>
      BY <1>2 DEF Post, Read, Delete, Count, ClearStream, Restart, Reboot
    <2> QED
      BY <1>1, <2>1, <2>2, DuplicationSame
  <1>3. ASSUME NEW f \in Flushers, Commit(f) PROVE RowsBounded(e)'
    BY <1>1, <1>3, DuplicationCommit
  <1>4. CASE (\E f \in Flushers : Fail(f)) \/ Crash \/ ClearFail
    <2>1. UNCHANGED table /\ faults' = faults + 1
      BY <1>4 DEF Fail, Crash, Reboot, ClearFail
    <2> QED
      BY <1>1, <2>1, DuplicationFault
  <1>5. CASE ClearRows
    <2>1. table' = <<>> /\ UNCHANGED <<stream, pc, batch, posted, faults>>
      BY <1>5 DEF ClearRows
    <2>2. Rows(e)' = {}
      BY <2>1 DEF Rows
    <2>3. Could(e)' = Could(e)
      BY <2>1 DEF Could, Taken, Pending, Posted
    <2>4. Cardinality(Rows(e)) \in Nat
      BY <1>1, FS_CardinalityType DEF RowsBounded
    <2>5. Cardinality(Could(e)) <= Cardinality(Flushers) * (1 + faults)
      <3>1. Cardinality(Flushers) * (1 + faults) \in Nat
        BY FlushersFinite, TimesNext DEF TypeOK
      <3> QED
        BY <1>1, <2>4, <3>1, FlushersFinite DEF RowsBounded
    <2>6. Cardinality(Could(e)) \in Nat
      BY FlushersFinite
    <2> QED
      BY <2>1, <2>2, <2>3, <2>5, <2>6, FS_EmptySet DEF RowsBounded
  <1>6. CASE ClearCounters \/ Stats \/ UNCHANGED vars
    <2>1. UNCHANGED <<stream, table, pc, batch, posted, faults>>
      BY <1>6 DEF ClearCounters, Stats, StatsDepth, StatsTotal, vars
    <2>2. Could(e)' \subseteq Could(e)
      BY <2>1, CouldShrinks
    <2> QED
      BY <1>1, <2>1, <2>2, DuplicationSame
  <1> QED
    BY <1>2, <1>3, <1>4, <1>5, <1>6 DEF Next, Flush, Clear

LEMMA DuplicationBounded == TypeOK /\ DuplicationInv => DuplicationBound
  <1> SUFFICES ASSUME TypeOK, DuplicationInv, NEW e \in Events
               PROVE  Cardinality(Rows(e)) <= Cardinality(Flushers) * (1 + faults)
    BY DEF DuplicationBound
  <1>1. RowsBounded(e)
    BY DEF DuplicationInv
  <1>2. Cardinality(Rows(e)) \in Nat
    BY <1>1, FS_CardinalityType DEF RowsBounded
  <1>3. Cardinality(Flushers) * (1 + faults) \in Nat
    BY FlushersFinite, TimesNext DEF TypeOK
  <1> QED
    BY <1>1, <1>2, <1>3, FlushersFinite DEF RowsBounded

----------------------------------------------------------------------------
(* Where the j-th posted event is in a sequence about to be inserted, the    *)
(* i-th is in SQLite already or precedes it there.                           *)
Ahead(s, i, j) ==
    \A q \in DOMAIN s :
        s[q] = posted[j] =>
            posted[i] \in saved \/ \E p \in 1 .. q - 1 : s[p] = posted[i]

RowsOrdered(i, j) ==
    \A n \in Rows(posted[j]) : \E m \in Rows(posted[i]) : m < n

Ordered(i, j) ==
    /\ RowsOrdered(i, j)
    /\ Ahead(stream, i, j)
    /\ \A f \in Flushers : pc[f] = "commit" => Ahead(batch[f], i, j)

Unexposed(i, j) == i < j /\ posted[i] \notin left \cup late

OrderInv ==
    clears = 0 =>
        \A i, j \in DOMAIN posted : Unexposed(i, j) => Ordered(i, j)

LEMMA OrderInit == Init => OrderInv
  BY DEF Init, OrderInv

(* What is posted after an event that nothing exposed finds that event in    *)
(* SQLite or before it in the stream.                                        *)
LEMMA OrderPost ==
    ASSUME TypeOK, KnownInv, LossInv, OrderInv, NEW e \in Events, Post(e)
    PROVE  OrderInv'
  <1> SUFFICES ASSUME clears' = 0, NEW i \in DOMAIN posted', NEW j \in DOMAIN posted',
                      Unexposed(i, j)'
               PROVE  Ordered(i, j)'
    BY DEF OrderInv
  <1>1. /\ UNCHANGED <<table, pc, batch, saved, left, wiped, clears>>
        /\ late \subseteq late'
        /\ e \notin Posted
        /\ stream' = Append(stream, e) /\ posted' = Append(posted, e)
        /\ stream \in Seq(Events) /\ posted \in Seq(Events)
    BY DEF Post, TypeOK
  <1>2. /\ DOMAIN posted = 1 .. Len(posted) /\ Len(posted) \in Nat
        /\ DOMAIN posted' = 1 .. Len(posted) + 1
        /\ posted'[Len(posted) + 1] = e
        /\ \A k \in 1 .. Len(posted) : posted'[k] = posted[k]
    BY <1>1
  <1>3. /\ DOMAIN stream = 1 .. Len(stream) /\ Len(stream) \in Nat
        /\ DOMAIN stream' = 1 .. Len(stream) + 1
        /\ stream'[Len(stream) + 1] = e
        /\ \A k \in 1 .. Len(stream) : stream'[k] = stream[k]
    BY <1>1
  <1>4. i \in 1 .. Len(posted) /\ posted'[i] = posted[i]
    BY <1>2 DEF Unexposed
  <1>5. posted[i] \notin left \cup late
    BY <1>1, <1>4 DEF Unexposed
  <1>6. Range(table) \cup Pending \subseteq Posted /\ \A f \in Flushers : Taken(f) \subseteq Posted
    BY DEF KnownInv, Known
  <1>7. CASE j \in 1 .. Len(posted)
    <2>1. posted'[j] = posted[j]
      BY <1>2, <1>7
    <2>2. Ordered(i, j)
      BY <1>1, <1>2, <1>4, <1>5, <1>7 DEF OrderInv, Unexposed
    <2>3. posted[j] # e
      BY <1>1, <1>2, <1>7 DEF Posted, Range
    <2>4. RowsOrdered(i, j)'
      BY <1>1, <1>4, <2>1, <2>2 DEF Ordered, RowsOrdered, Rows
    <2>5. ASSUME NEW q \in DOMAIN stream', stream'[q] = posted[j]
          PROVE  posted[i] \in saved \/ \E p \in 1 .. q - 1 : stream'[p] = posted[i]
      <3>1. q \in 1 .. Len(stream) /\ stream[q] = posted[j]
        BY <1>3, <2>3, <2>5
      <3>2. CASE posted[i] \in saved
        BY <3>2
      <3>3. ASSUME NEW p \in 1 .. q - 1, stream[p] = posted[i]
            PROVE  stream'[p] = posted[i]
        BY <1>3, <3>1, <3>3
      <3> QED
        BY <1>3, <2>2, <3>1, <3>2, <3>3 DEF Ordered, Ahead
    <2>6. Ahead(stream, i, j)'
      BY <1>1, <1>4, <2>1, <2>5 DEF Ahead
    <2>7. ASSUME NEW f \in Flushers, pc[f] = "commit" PROVE Ahead(batch[f], i, j)'
      BY <1>1, <1>4, <2>1, <2>2, <2>7 DEF Ordered, Ahead
    <2> QED
      BY <1>1, <2>4, <2>6, <2>7 DEF Ordered
  <1>8. CASE j = Len(posted) + 1
    <2>1. posted'[j] = e
      BY <1>2, <1>8
    <2>2. posted[i] \in saved \cup Pending
      <3>1. posted[i] \in Posted
        BY <1>2, <1>4 DEF Posted, Range
      <3>2. wiped = {}
        BY <1>1 DEF KnownInv, NoClearYet
      <3> QED
        BY <1>5, <3>1, <3>2 DEF LossInv, LossNeedsExposure
    <2>3. RowsOrdered(i, j)'
      <3>1. \A n \in DOMAIN table : table[n] # e
        BY <1>1, <1>6 DEF Range
      <3> QED
        BY <1>1, <2>1, <3>1 DEF RowsOrdered, Rows
    <2>4. \A q \in DOMAIN stream : stream[q] # e
      BY <1>1, <1>6 DEF Pending, Range
    <2>5. ASSUME NEW q \in DOMAIN stream', stream'[q] = e, posted[i] \notin saved
          PROVE  \E p \in 1 .. q - 1 : stream'[p] = posted[i]
      <3>1. q = Len(stream) + 1
        BY <1>3, <2>4, <2>5
      <3>2. PICK p \in DOMAIN stream : stream[p] = posted[i]
        BY <2>2, <2>5 DEF Pending, Range
      <3> QED
        BY <1>3, <3>1, <3>2
    <2>6. Ahead(stream, i, j)'
      BY <1>1, <1>4, <2>1, <2>5 DEF Ahead
    <2>7. ASSUME NEW f \in Flushers PROVE Ahead(batch[f], i, j)'
      <3>1. \A q \in DOMAIN batch[f] : batch[f][q] # e
        BY <1>1, <1>6 DEF Taken, Range
      <3> QED
        BY <1>1, <2>1, <3>1 DEF Ahead
    <2> QED
      BY <2>3, <2>6, <2>7 DEF Ordered
  <1> QED
    BY <1>2, <1>7, <1>8

(* The batch is the beginning of the stream, in its order.                   *)
LEMMA OrderRead ==
    ASSUME TypeOK, OrderInv, NEW f \in Flushers, Read(f)
    PROVE  OrderInv'
  <1> DEFINE n == ReadLength(f)
             b == SubSeq(stream, 1, n)
  <1>1. n \in 0 .. Len(stream)
    BY WriteBehindAssumption DEF ReadLength, TypeOK
  <1>2. /\ DOMAIN b = 1 .. n
        /\ \A k \in 1 .. n : b[k] = stream[k]
        /\ DOMAIN stream = 1 .. Len(stream)
        /\ Len(stream) \in Nat
    BY <1>1 DEF TypeOK
  <1>3. /\ batch' = [batch EXCEPT ![f] = b]
        /\ pc' = [pc EXCEPT ![f] = "commit"]
        /\ left \subseteq left'
        /\ UNCHANGED <<stream, table, clears, posted, saved, late>>
    BY DEF Read
  <1> HIDE DEF n, b
  <1>4. /\ batch'[f] = b
        /\ \A g \in Flushers \ {f} : pc'[g] = pc[g] /\ batch'[g] = batch[g]
    BY <1>3 DEF TypeOK
  <1> SUFFICES ASSUME clears = 0, NEW i \in DOMAIN posted, NEW j \in DOMAIN posted,
                      Unexposed(i, j)'
               PROVE  Ordered(i, j)'
    BY <1>3 DEF OrderInv
  <1>5. Ordered(i, j)
    BY <1>3 DEF OrderInv, Unexposed
  <1>6. RowsOrdered(i, j)' /\ Ahead(stream, i, j)'
    BY <1>3, <1>5 DEF Ordered, RowsOrdered, Rows, Ahead
  <1>7. Ahead(b, i, j)
    <2> SUFFICES ASSUME NEW q \in 1 .. n, b[q] = posted[j], posted[i] \notin saved
                 PROVE  \E p \in 1 .. q - 1 : b[p] = posted[i]
      BY <1>2 DEF Ahead
    <2>1. PICK p \in 1 .. q - 1 : stream[p] = posted[i]
      BY <1>1, <1>2, <1>5 DEF Ordered, Ahead
    <2> QED
      BY <1>1, <1>2, <2>1
  <1>8. ASSUME NEW g \in Flushers, pc'[g] = "commit" PROVE Ahead(batch[g], i, j)'
    <2>1. CASE g = f
      BY <1>3, <1>4, <1>7, <2>1 DEF Ahead
    <2>2. CASE g # f
      BY <1>3, <1>4, <1>5, <1>8, <2>2 DEF Ordered, Ahead
    <2> QED
      BY <2>1, <2>2
  <1> QED
    BY <1>6, <1>8 DEF Ordered

(* The commit inserts behind the rows that exist, in the batch's order.      *)
LEMMA OrderCommit ==
    ASSUME TypeOK, KnownInv, OrderInv, NEW f \in Flushers, Commit(f)
    PROVE  OrderInv'
  <1> DEFINE b == batch[f]
  <1>1. /\ pc[f] = "commit" /\ pc' = [pc EXCEPT ![f] = "delete"]
        /\ table' = table \o b
        /\ saved \subseteq saved'
        /\ UNCHANGED <<stream, batch, clears, posted, left, late>>
        /\ table \in Seq(Events) /\ b \in Seq(Events)
    BY DEF Commit, TypeOK
  <1>2. \A g \in Flushers : pc'[g] = "commit" => pc[g] = "commit"
    BY <1>1 DEF TypeOK
  <1> SUFFICES ASSUME clears = 0, NEW i \in DOMAIN posted, NEW j \in DOMAIN posted,
                      Unexposed(i, j)
               PROVE  Ordered(i, j)'
    BY <1>1 DEF OrderInv, Unexposed
  <1>3. Ordered(i, j)
    BY DEF OrderInv
  <1>4. Ahead(stream, i, j)' /\ \A g \in Flushers : pc'[g] = "commit" => Ahead(batch[g], i, j)'
    BY <1>1, <1>2, <1>3 DEF Ordered, Ahead
  <1>5. RowsOrdered(i, j)'
    <2> SUFFICES ASSUME NEW n \in DOMAIN (table \o b), (table \o b)[n] = posted[j]
                 PROVE  \E m \in DOMAIN (table \o b) : (table \o b)[m] = posted[i] /\ m < n
      BY <1>1 DEF RowsOrdered, Rows
    <2>1. /\ DOMAIN table = 1 .. Len(table) /\ DOMAIN b = 1 .. Len(b)
          /\ Len(table) \in Nat /\ Len(b) \in Nat
          /\ DOMAIN (table \o b) = 1 .. Len(table) + Len(b)
          /\ \A k \in 1 .. Len(table) : (table \o b)[k] = table[k]
          /\ \A k \in 1 .. Len(b) : (table \o b)[Len(table) + k] = b[k]
      BY <1>1, Concatenation
    <2> DEFINE t == table \o b
    <2> HIDE DEF t, b
    <2>2. CASE n <= Len(table)
      <3>1. n \in Rows(posted[j])
        BY <2>1, <2>2 DEF Rows, t
      <3>2. PICK m \in Rows(posted[i]) : m < n
        BY <1>3, <3>1 DEF Ordered, RowsOrdered
      <3>3. m \in 1 .. Len(table) /\ table[m] = posted[i]
        BY <2>1, <3>2 DEF Rows
      <3> QED
        BY <2>1, <3>2, <3>3
    <2>3. CASE n > Len(table)
      <3> DEFINE q == n - Len(table)
      <3>1. q \in 1 .. Len(b) /\ n = Len(table) + q
        BY <2>1, <2>3
      <3>2. b[q] = posted[j]
        BY <2>1, <3>1
      <3>3. Ahead(b, i, j)
        BY <1>1, <1>3 DEF Ordered, b
      <3>4. CASE posted[i] \in saved
        <4>1. posted[i] \in Range(table)
          BY <3>4 DEF KnownInv, NoClearYet
        <4>2. PICK m \in 1 .. Len(table) : table[m] = posted[i]
          BY <2>1, <4>1 DEF Range
        <4> QED
          BY <2>1, <2>3, <4>2
      <3>5. CASE posted[i] \notin saved
        <4>1. PICK p \in 1 .. q - 1 : b[p] = posted[i]
          BY <2>1, <3>1, <3>2, <3>3, <3>5 DEF Ahead
        <4>2. p \in 1 .. Len(b) /\ Len(table) + p < n
          BY <2>1, <3>1, <4>1
        <4>3. Len(table) + p \in DOMAIN (table \o b)
          BY <2>1, <4>2
        <4> QED
          BY <2>1, <4>1, <4>2, <4>3
      <3> QED
        BY <3>4, <3>5
    <2> QED
      BY <2>1, <2>2, <2>3
  <1> QED
    BY <1>4, <1>5 DEF Ordered

(* The other steps insert and post nothing and leave the order as it is.     *)
LEMMA OrderElse ==
    ASSUME OrderInv, UNCHANGED posted,
           stream' \in {stream, <<>>},
           \A f \in Flushers : pc'[f] = "commit" => pc[f] = "commit" /\ batch'[f] = batch[f],
           clears' = 0 => clears = 0 /\ UNCHANGED table,
           saved \subseteq saved', left \subseteq left', late \subseteq late'
    PROVE  OrderInv'
  <1> SUFFICES ASSUME clears' = 0, NEW i \in DOMAIN posted, NEW j \in DOMAIN posted,
                      Unexposed(i, j)'
               PROVE  Ordered(i, j)'
    BY DEF OrderInv
  <1>1. Ordered(i, j)
    BY DEF OrderInv, Unexposed
  <1>2. RowsOrdered(i, j)'
    BY <1>1 DEF Ordered, RowsOrdered, Rows
  <1>3. Ahead(stream, i, j)'
    BY <1>1 DEF Ordered, Ahead
  <1>4. ASSUME NEW f \in Flushers, pc'[f] = "commit" PROVE Ahead(batch[f], i, j)'
    BY <1>1, <1>4 DEF Ordered, Ahead
  <1> QED
    BY <1>2, <1>3, <1>4 DEF Ordered

LEMMA OrderStep ==
    ASSUME TypeOK, KnownInv, LossInv, OrderInv, [Next]_vars
    PROVE  OrderInv'
  <1> USE DEF TypeOK, history, counters
  <1>1. ASSUME NEW e \in Events, Post(e) PROVE OrderInv'
    BY <1>1, OrderPost
  <1>2. ASSUME NEW f \in Flushers, Read(f) PROVE OrderInv'
    BY <1>2, OrderRead
  <1>3. ASSUME NEW f \in Flushers, Commit(f) PROVE OrderInv'
    BY <1>3, OrderCommit
  <1>4. ASSUME NEW f \in Flushers, Delete(f) \/ Count(f) PROVE OrderInv'
    BY <1>4, OrderElse DEF Delete, Count
  <1>5. ASSUME NEW f \in Flushers, Fail(f) PROVE OrderInv'
    <2>1. stream' \in {stream, <<>>}
      BY <1>5, Zenon DEF Fail
    <2> QED
      BY <1>5, <2>1, OrderElse DEF Fail
  <1>6. CASE Clear
    <2>1. clears' = 0 => clears = 0 /\ UNCHANGED table
      BY <1>6 DEF Clear, ClearStream, ClearRows, ClearCounters, ClearFail,
                  KnownInv, NoClearYet
    <2>2. stream' \in {stream, <<>>} /\ UNCHANGED <<posted, pc, batch, saved, left, late>>
      BY <1>6 DEF Clear, ClearStream, ClearRows, ClearCounters, ClearFail
    <2> QED
      BY <2>1, <2>2, OrderElse
  <1>7. CASE Crash \/ Restart
    BY <1>7, OrderElse DEF Crash, Restart, Reboot
  <1>8. CASE Stats \/ UNCHANGED vars
    BY <1>8, OrderElse DEF Stats, StatsDepth, StatsTotal, vars
  <1> QED
    BY <1>1, <1>2, <1>3, <1>4, <1>5, <1>6, <1>7, <1>8 DEF Next, Flush

LEMMA OrderKept == TypeOK /\ OrderInv => InsertionOrder
  <1> SUFFICES ASSUME TypeOK, OrderInv, clears = 0,
                      NEW j \in DOMAIN posted, NEW i \in 1 .. j - 1,
                      posted[i] \notin left \cup late
               PROVE  RowsOrdered(i, j)
    BY DEF InsertionOrder, RowsOrdered
  <1>1. i \in DOMAIN posted /\ i < j
    BY DEF TypeOK
  <1> QED
    BY <1>1 DEF OrderInv, Unexposed, Ordered

(* How often and in which order events reach SQLite, for any number of       *)
(* concurrent flushes: an event has at most one row per flusher and round    *)
(* between faults, and a later event has no row before an earlier one that   *)
(* neither a DEL nor a clear may have taken.                                 *)
THEOREM RowsAreRight == Spec => []RowsFollowEvents
  <1>1. Init => DuplicationInv /\ OrderInv
    BY DuplicationInit, OrderInit
  <1>2. LossInv /\ TypeOK /\ KnownInv /\ DuplicationInv /\ OrderInv /\ [Next]_vars
            => DuplicationInv' /\ OrderInv'
    BY DuplicationStep, OrderStep
  <1>3. TypeOK /\ DuplicationInv /\ OrderInv => RowsFollowEvents
    BY DuplicationBounded, OrderKept DEF RowsFollowEvents
  <1> QED
    BY <1>1, <1>2, <1>3, TypeCorrect, KnownCorrect, LossCorrect, PTL DEF Spec

----------------------------------------------------------------------------
(* The rows that are committed and not yet counted, one pair for each entry  *)
(* of a flusher that is between its commit and its counting.                 *)
Share(f) == {f} \X (1 .. Len(batch[f]))
Owed == {p \in Flushers \X Nat :
            pc[p[1]] \in {"delete", "count"} /\ p[2] \in 1 .. Len(batch[p[1]])}

CounterInv ==
    clears = 0 => IsFiniteSet(Owed) /\ flushed + Cardinality(Owed) <= Len(table)

LEMMA ShareSize ==
    ASSUME TypeOK, NEW f \in Flushers
    PROVE  IsFiniteSet(Share(f)) /\ Cardinality(Share(f)) = Len(batch[f])
  <1> DEFINE n == Len(batch[f])
             T == 1 .. n
  <1>1. n \in Nat
    BY DEF TypeOK
  <1> HIDE DEF n
  <1>2. IsFiniteSet(T) /\ Cardinality(T) = n
    BY <1>1, FS_Interval
  <1>3. IsFiniteSet({f}) /\ Cardinality({f}) = 1
    BY FS_Singleton
  <1> HIDE DEF T
  <1>4. /\ IsFiniteSet({f} \X T)
        /\ Cardinality({f} \X T) = Cardinality({f}) * Cardinality(T)
    BY <1>2, <1>3, FS_Product
  <1>5. Cardinality({f} \X T) = n
    BY <1>1, <1>2, <1>3, <1>4
  <1> QED
    BY <1>4, <1>5 DEF Share, T, n

(* Steps that commit and count nothing.                                      *)
LEMMA CounterElse ==
    ASSUME TypeOK, CounterInv, clears' = 0 => clears = 0 /\ table' = table,
           flushed' \in {flushed, 0},
           Owed' \subseteq Owed
    PROVE  CounterInv'
  <1> SUFFICES ASSUME clears' = 0
               PROVE  IsFiniteSet(Owed') /\ flushed' + Cardinality(Owed') <= Len(table)
    BY DEF CounterInv
  <1> DEFINE O == Owed
             P == Owed'
  <1>1. /\ IsFiniteSet(O) /\ P \in SUBSET O
        /\ flushed + Cardinality(O) <= Len(table)
    BY DEF CounterInv
  <1> HIDE DEF O, P
  <1>2. /\ IsFiniteSet(P) /\ Cardinality(P) <= Cardinality(O)
        /\ Cardinality(P) \in Nat /\ Cardinality(O) \in Nat
    BY <1>1, FS_Subset, FS_CardinalityType
  <1>3. flushed \in Nat /\ flushed' <= flushed /\ flushed' \in Nat /\ Len(table) \in Nat
    BY DEF TypeOK
  <1>4. flushed' + Cardinality(P) <= Len(table)
    BY <1>1, <1>2, <1>3
  <1> QED
    BY <1>2, <1>4 DEF P

LEMMA CounterCommit ==
    ASSUME TypeOK, CounterInv, NEW f \in Flushers, Commit(f)
    PROVE  CounterInv'
  <1> SUFFICES ASSUME clears = 0
               PROVE  IsFiniteSet(Owed') /\ flushed + Cardinality(Owed') <= Len(table')
    BY DEF CounterInv, Commit, counters
  <1> DEFINE n == Len(batch[f])
             O == Owed
             P == Owed'
             S == Share(f)
  <1>1. /\ pc[f] = "commit" /\ pc' = [pc EXCEPT ![f] = "delete"]
        /\ table' = table \o batch[f] /\ batch' = batch
        /\ table \in Seq(Events) /\ batch[f] \in Seq(Events)
        /\ flushed \in Nat
    BY DEF Commit, TypeOK
  <1>2. /\ Len(table') = Len(table) + n
        /\ n \in Nat /\ Len(table) \in Nat
    BY <1>1, Concatenation
  <1>3. pc'[f] = "delete" /\ \A g \in Flushers \ {f} : pc'[g] = pc[g]
    BY <1>1 DEF TypeOK
  <1>4. P = O \cup S
    <2>1. ASSUME NEW p \in P PROVE p \in O \cup S
      BY <1>1, <1>3, <2>1 DEF Owed, Share
    <2>2. ASSUME NEW p \in O PROVE p \in P
      BY <1>1, <1>3, <2>2 DEF Owed
    <2>3. ASSUME NEW p \in S PROVE p \in P
      BY <1>1, <1>3, <2>3 DEF Owed, Share
    <2> QED
      BY <2>1, <2>2, <2>3
  <1>5. IsFiniteSet(S) /\ Cardinality(S) = n
    BY ShareSize
  <1>6. IsFiniteSet(O) /\ flushed + Cardinality(O) <= Len(table)
    BY DEF CounterInv
  <1> HIDE DEF n, O, P, S
  <1>7. /\ IsFiniteSet(P)
        /\ Cardinality(P) = Cardinality(O) + Cardinality(S) - Cardinality(O \cap S)
    BY <1>4, <1>5, <1>6, FS_Union
  <1>8. Cardinality(O) \in Nat /\ Cardinality(O \cap S) \in Nat /\ Cardinality(P) \in Nat
    BY <1>5, <1>6, <1>7, FS_CardinalityType, FS_Intersection
  <1>9. flushed + Cardinality(P) <= Len(table')
    BY <1>1, <1>2, <1>5, <1>6, <1>7, <1>8
  <1> QED
    BY <1>7, <1>9 DEF P

LEMMA CounterCount ==
    ASSUME TypeOK, CounterInv, NEW f \in Flushers, Count(f)
    PROVE  CounterInv'
  <1> SUFFICES ASSUME clears = 0
               PROVE  IsFiniteSet(Owed') /\ flushed' + Cardinality(Owed') <= Len(table)
    BY DEF CounterInv, Count
  <1> DEFINE n == Len(batch[f])
             O == Owed
             P == Owed'
             S == Share(f)
  <1>1. /\ pc[f] = "count" /\ pc' = [pc EXCEPT ![f] = "idle"]
        /\ batch' = [batch EXCEPT ![f] = <<>>]
        /\ flushed' = flushed + n
        /\ flushed \in Nat /\ n \in Nat /\ Len(table) \in Nat
    BY DEF Count, TypeOK
  <1>2. /\ pc'[f] = "idle"
        /\ \A g \in Flushers \ {f} : pc'[g] = pc[g] /\ batch'[g] = batch[g]
    BY <1>1 DEF TypeOK
  <1>3. S \subseteq O
    BY <1>1 DEF Owed, Share
  <1>4. P \subseteq O \ S
    <2> SUFFICES ASSUME NEW p \in P PROVE p \in O /\ p \notin S
      OBVIOUS
    <2>1. p \in Flushers \X Nat /\ p[1] # f
      BY <1>2 DEF Owed
    <2> QED
      BY <1>2, <2>1 DEF Owed, Share
  <1>5. IsFiniteSet(S) /\ Cardinality(S) = n
    BY ShareSize
  <1>6. IsFiniteSet(O) /\ flushed + Cardinality(O) <= Len(table)
    BY DEF CounterInv
  <1> HIDE DEF n, O, P, S
  <1>7. /\ IsFiniteSet(O \ S)
        /\ Cardinality(O \ S) = Cardinality(O) - Cardinality(S)
    <2>1. O \cap S = S
      BY <1>3
    <2>2. IsFiniteSet(O \ S) /\ Cardinality(O \ S) = Cardinality(O) - Cardinality(O \cap S)
      BY <1>5, <1>6, FS_Difference
    <2> QED
      BY <2>1, <2>2
  <1>8. /\ IsFiniteSet(P) /\ Cardinality(P) <= Cardinality(O \ S)
        /\ Cardinality(P) \in Nat /\ Cardinality(O) \in Nat /\ Cardinality(O \ S) \in Nat
    BY <1>4, <1>6, <1>7, FS_Subset, FS_CardinalityType
  <1>9. flushed' + Cardinality(P) <= Len(table)
    BY <1>1, <1>5, <1>6, <1>7, <1>8
  <1> QED
    BY <1>8, <1>9 DEF P

LEMMA CounterStep ==
    ASSUME TypeOK, KnownInv, CounterInv, [Next]_vars
    PROVE  CounterInv'
  <1> USE DEF TypeOK, history, counters
  <1>1. ASSUME NEW f \in Flushers, Read(f) PROVE CounterInv'
    <2>1. /\ pc[f] = "idle" /\ pc' = [pc EXCEPT ![f] = "commit"]
          /\ \A g \in Flushers \ {f} : batch'[g] = batch[g]
          /\ UNCHANGED <<flushed, clears, table>>
      BY <1>1 DEF Read
    <2>2. pc'[f] = "commit" /\ \A g \in Flushers \ {f} : pc'[g] = pc[g]
      BY <2>1
    <2>3. Owed' \subseteq Owed
      BY <2>1, <2>2 DEF Owed
    <2> QED
      BY <2>1, <2>3, CounterElse
  <1>2. ASSUME NEW f \in Flushers, Commit(f) PROVE CounterInv'
    BY <1>2, CounterCommit
  <1>3. ASSUME NEW f \in Flushers, Delete(f) PROVE CounterInv'
    <2>1. /\ pc[f] = "delete" /\ pc' = [pc EXCEPT ![f] = "count"]
          /\ UNCHANGED <<batch, flushed, clears, table>>
      BY <1>3 DEF Delete
    <2>2. \A g \in Flushers : pc'[g] \in {"delete", "count"} => pc[g] \in {"delete", "count"}
      BY <2>1
    <2>3. Owed' \subseteq Owed
      BY <2>1, <2>2 DEF Owed
    <2> QED
      BY <2>1, <2>3, CounterElse
  <1>4. ASSUME NEW f \in Flushers, Count(f) PROVE CounterInv'
    BY <1>4, CounterCount
  <1>5. ASSUME NEW f \in Flushers, Fail(f) PROVE CounterInv'
    <2>1. /\ pc'[f] = "idle"
          /\ \A g \in Flushers \ {f} : pc'[g] = pc[g] /\ batch'[g] = batch[g]
          /\ UNCHANGED <<flushed, clears, table>>
      BY <1>5 DEF Fail
    <2>2. Owed' \subseteq Owed
      BY <2>1 DEF Owed
    <2> QED
      BY <2>1, <2>2, CounterElse
  <1>6. CASE Clear
    <2>1. clears' # 0
      BY <1>6 DEF Clear, ClearStream, ClearRows, ClearCounters, ClearFail,
                  KnownInv, NoClearYet
    <2> QED
      BY <2>1 DEF CounterInv
  <1>7. CASE Crash \/ Restart
    <2>1. /\ \A f \in Flushers : pc'[f] = "idle"
          /\ flushed' = 0 /\ UNCHANGED <<clears, table>>
      BY <1>7 DEF Crash, Restart, Reboot
    <2>2. Owed' \subseteq Owed
      BY <2>1 DEF Owed
    <2> QED
      BY <2>1, <2>2, CounterElse
  <1>8. CASE (\E e \in Events : Post(e)) \/ Stats \/ UNCHANGED vars
    <2>1. UNCHANGED <<pc, batch, flushed, clears, table>>
      BY <1>8 DEF Post, Stats, StatsDepth, StatsTotal, vars
    <2>2. Owed' \subseteq Owed
      BY <2>1 DEF Owed
    <2> QED
      BY <2>1, <2>2, CounterElse
  <1> QED
    BY <1>1, <1>2, <1>3, <1>4, <1>5, <1>6, <1>7, <1>8 DEF Next, Flush

----------------------------------------------------------------------------
(* A sequence has no more members than places, and as many when none of them *)
(* is repeated.                                                              *)
LEMMA MembersOfSequence ==
    ASSUME NEW S, NEW s \in Seq(S)
    PROVE  /\ IsFiniteSet(Range(s)) /\ Cardinality(Range(s)) \in Nat
           /\ Len(s) \in Nat
           /\ Cardinality(Range(s)) <= Len(s)
           /\ IsInjective(s) => Cardinality(Range(s)) = Len(s)
  <1> DEFINE D == 1 .. Len(s)
             R == Range(s)
  <1>1. Len(s) \in Nat /\ DOMAIN s = D /\ s \in [D -> S]
    OBVIOUS
  <1>2. s \in Surjection(D, R)
    BY <1>1 DEF Surjection, Range
  <1>3. IsFiniteSet(D) /\ Cardinality(D) = Len(s)
    BY <1>1, FS_Interval
  <1>4. IsInjective(s) => s \in Injection(D, R)
    BY <1>2 DEF Injection, Surjection
  <1> HIDE DEF D, R
  <1>5. /\ IsFiniteSet(R) /\ Cardinality(R) <= Cardinality(D)
        /\ Cardinality(R) = Cardinality(D) <=> s \in Injection(D, R)
    BY <1>2, <1>3, FS_Surjection
  <1>6. Cardinality(R) \in Nat
    BY <1>5, FS_CardinalityType
  <1> QED
    BY <1>1, <1>3, <1>4, <1>5, <1>6 DEF R

(* What GET /stats has read covers what was acknowledged when it began.      *)
StatsInv ==
    left \cup late \cup wiped = {} /\ clears = 0 =>
        /\ stats.at = "total" => stats.known <= stats.depth + Len(table)
        /\ stats.at = "done" => stats.known <= stats.depth + stats.total

(* While nothing was exposed, stream and table hold every acknowledged event.*)
LEMMA PostedIsCounted ==
    ASSUME TypeOK, KnownInv, LossInv, left \cup late \cup wiped = {}, clears = 0
    PROVE  Len(posted) <= Len(stream) + Len(table)
  <1> DEFINE P == Posted
             Q == Pending
             R == Range(table)
  <1>1. P \in SUBSET (Q \cup R)
    BY DEF LossInv, LossNeedsExposure, KnownInv, NoClearYet
  <1>2. /\ stream \in Seq(Events) /\ table \in Seq(Events) /\ posted \in Seq(Events)
        /\ IsInjective(posted)
    BY DEF TypeOK, KnownInv, Distinct
  <1>3. /\ Cardinality(P) = Len(posted) /\ Len(posted) \in Nat
        /\ IsFiniteSet(Q) /\ Cardinality(Q) <= Len(stream) /\ Len(stream) \in Nat
        /\ IsFiniteSet(R) /\ Cardinality(R) <= Len(table) /\ Len(table) \in Nat
        /\ Cardinality(Q) \in Nat /\ Cardinality(R) \in Nat
    BY <1>2, MembersOfSequence DEF Posted, Pending
  <1> HIDE DEF P, Q, R
  <1>4. /\ IsFiniteSet(Q \cup R)
        /\ Cardinality(Q \cup R) = Cardinality(Q) + Cardinality(R) - Cardinality(Q \cap R)
    BY <1>3, FS_Union
  <1>5. Cardinality(Q \cap R) \in Nat /\ Cardinality(Q \cup R) \in Nat
    BY <1>3, <1>4, FS_Intersection, FS_CardinalityType
  <1>6. Cardinality(P) <= Cardinality(Q \cup R)
    BY <1>1, <1>4, FS_Subset
  <1> QED
    BY <1>3, <1>4, <1>5, <1>6

LEMMA StatsStep ==
    ASSUME TypeOK, KnownInv, LossInv, StatsInv, [Next]_vars
    PROVE  StatsInv'
  <1> USE DEF history, counters
  <1>1. CASE StatsDepth
    <2>1. /\ stats' = [at |-> "total", depth |-> Len(stream), total |-> 0,
                       known |-> Len(posted)]
          /\ UNCHANGED <<table, clears, left, late, wiped>>
      BY <1>1 DEF StatsDepth
    <2> QED
      BY <2>1, PostedIsCounted DEF StatsInv
  <1>2. CASE StatsTotal
    <2>1. /\ stats' = [stats EXCEPT !.at = "done", !.total = Len(table)]
          /\ stats.at = "total"
          /\ UNCHANGED <<clears, left, late, wiped>>
      BY <1>2 DEF StatsTotal
    <2>2. /\ stats'.at = "done" /\ stats'.total = Len(table)
          /\ stats'.known = stats.known /\ stats'.depth = stats.depth
      BY <2>1 DEF TypeOK
    <2> QED
      BY <2>1, <2>2 DEF StatsInv
  <1>3. ASSUME NEW f \in Flushers, Commit(f) PROVE StatsInv'
    <2>1. /\ Len(table') = Len(table) + Len(batch[f])
          /\ Len(table) \in Nat /\ Len(batch[f]) \in Nat
      BY <1>3, Concatenation DEF Commit, TypeOK
    <2>2. stats.depth \in Nat /\ stats.known \in Nat
      BY DEF TypeOK
    <2>3. UNCHANGED <<stats, clears, left, late, wiped>>
      BY <1>3 DEF Commit
    <2>4. stats.known <= stats.depth + Len(table) => stats.known <= stats.depth + Len(table')
      BY <2>1, <2>2
    <2> QED
      BY <2>3, <2>4 DEF StatsInv
  <1>4. CASE Clear
    <2>1. clears' # 0
      BY <1>4 DEF Clear, ClearStream, ClearRows, ClearCounters, ClearFail,
                  KnownInv, NoClearYet, TypeOK
    <2> QED
      BY <2>1 DEF StatsInv
  <1>5. CASE Crash \/ Restart
    <2>1. stats' = NoStats
      BY <1>5 DEF Crash, Restart, Reboot
    <2> QED
      BY <2>1 DEF StatsInv, NoStats
  <1>6. CASE \/ \E e \in Events : Post(e)
             \/ \E f \in Flushers : Read(f) \/ Delete(f) \/ Count(f) \/ Fail(f)
             \/ UNCHANGED vars
    <2>1. /\ UNCHANGED <<stats, table, clears, wiped>>
          /\ left \subseteq left' /\ late \subseteq late'
      BY <1>6 DEF Post, Read, Delete, Count, Fail, vars
    <2> QED
      BY <2>1 DEF StatsInv
  <1> QED
    BY <1>1, <1>2, <1>3, <1>4, <1>5, <1>6 DEF Next, Flush, Stats

(* GET /stats, for any number of concurrent flushes: without a clear it      *)
(* never reports more flushed events than there are rows, and without any    *)
(* exposure it counts no fewer events than it had acknowledged.              *)
THEOREM StatsAreRight == Spec => []StatsAreHonest
  <1>1. Init => CounterInv /\ StatsInv
    <2> SUFFICES ASSUME Init PROVE CounterInv /\ StatsInv
      OBVIOUS
    <2>1. Owed = {}
      BY DEF Init, Owed
    <2> QED
      BY <2>1, FS_EmptySet DEF Init, CounterInv, StatsInv, NoStats
  <1>2. LossInv /\ TypeOK /\ KnownInv /\ CounterInv /\ StatsInv /\ [Next]_vars
            => CounterInv' /\ StatsInv'
    BY CounterStep, StatsStep
  <1>3. TypeOK /\ CounterInv /\ StatsInv => StatsAreHonest
    <2> SUFFICES ASSUME TypeOK, CounterInv, StatsInv
                 PROVE  CounterHonest /\ StatsMissNothing
      BY DEF StatsAreHonest
    <2>1. CounterHonest
      <3> SUFFICES ASSUME clears = 0 PROVE flushed <= Len(table)
        BY DEF CounterHonest
      <3>1. Cardinality(Owed) \in Nat /\ flushed + Cardinality(Owed) <= Len(table)
        BY FS_CardinalityType DEF CounterInv
      <3>2. flushed \in Nat /\ Len(table) \in Nat
        BY DEF TypeOK
      <3> QED
        BY <3>1, <3>2
    <2>2. StatsMissNothing
      BY DEF StatsMissNothing, StatsInv, TypeOK
    <2> QED
      BY <2>1, <2>2
  <1> QED
    BY <1>1, <1>2, <1>3, TypeCorrect, KnownCorrect, LossCorrect, PTL DEF Spec

=============================================================================
