--------------------------- MODULE AttestorProofs ---------------------------
(***************************************************************************)
(* Theorems about the operators of the federated path: the journal starts  *)
(* again after a save that was cut short, an operator never signs two      *)
(* accounts of one reference, and lying endpoints below the quorum cannot  *)
(* make the gateway mint what the source chain does not hold.              *)
(***************************************************************************)
EXTENDS Attestor, FiniteSetTheorems, TLAPS

(***************************************************************************)
(* None is an absence, and none of the records that are kept where it may  *)
(* stand: what an operator remembers, what a journal has of a reference,   *)
(* and a journal image.                                                    *)
(***************************************************************************)
NoneIsApart ==
    /\ \A a, b : None # [digest |-> a, expiry |-> b]
    /\ \A a, b, c : None # [digest |-> a, expiry_height |-> b, signed_expiry |-> c]
    /\ \A a, b, c : None # [seq |-> a, prev |-> b, records |-> c]

-----------------------------------------------------------------------------
(* The journal *)

\* The memory of an operator that runs.
IsMemory(m) ==
    /\ m = [halted |-> m.halted, seen |-> m.seen, signed |-> m.signed, head |-> m.head]
    /\ m.seen = [r \in Refs |-> m.seen[r]]
    /\ m.signed = [r \in Refs |-> m.signed[r]]
    /\ m.head.seq \in Nat

IsFiles(d) ==
    /\ d = [journal |-> d.journal, anchor |-> d.anchor]
    /\ d.journal # None => d.journal.seq \in Nat

(***************************************************************************)
(* The files of an operator m (None when it is down) after n saves that    *)
(* were cut short: after none they are both missing, or both the image     *)
(* that a running operator has as its head; after one they still load.     *)
(***************************************************************************)
FilesAgree(m, d, n) ==
    /\ n = 0 => \/ m = None /\ d.journal = None /\ d.anchor = Genesis
                \/ /\ d.journal # None /\ d.journal = d.anchor /\ d.journal.seq # 0
                   /\ m # None => m.head = d.journal
    /\ n = 1 => loadable(d)

JournalInv ==
    /\ op = [o \in Operators |-> op[o]]
    /\ disk = [o \in Operators |-> disk[o]]
    /\ cuts \in [Operators -> 0 .. 2]
    /\ \A o \in Operators :
          /\ op[o] # None => IsMemory(op[o])
          /\ IsFiles(disk[o])
          /\ FilesAgree(op[o], disk[o], cuts[o])

\* What a memory is made of.
LEMMA MemoryShape ==
    ASSUME NEW m, IsMemory(m)
    PROVE  \E a, b, c, e : /\ m = [halted |-> a, seen |-> b, signed |-> c, head |-> e]
                           /\ e.seq \in Nat
  BY DEF IsMemory

\* prune_expired leaves a memory with the same head.
LEMMA PruneKeepsMemory ==
    ASSUME NEW m, NEW h, IsMemory(m)
    PROVE  LET p == prune_expired(m, h)
           IN IsMemory(p) /\ p.head = m.head
<1>1. PICK a, b, c, e : m = [halted |-> a, seen |-> b, signed |-> c, head |-> e] /\ e.seq \in Nat
  BY MemoryShape
<1> DEFINE p == prune_expired(m, h)
<1>2. PICK sn, sg : /\ p = [m EXCEPT !.signed = sg, !.seen = sn]
                    /\ sg = [r \in Refs |-> sg[r]] /\ sn = [r \in Refs |-> sn[r]]
  <2> DEFINE expired == {r \in Refs : m.seen[r] # None /\ m.seen[r].expiry < h}
             excess == Cardinality(expired) - MAX_REMEMBERED_EXPIRED
             oldest == {S \in SUBSET expired :
                           /\ Cardinality(S) = excess
                           /\ \A r \in S, q \in expired \ S :
                                  m.seen[r].expiry <= m.seen[q].expiry}
             dropped == IF excess > 0 THEN CHOOSE S \in oldest : TRUE ELSE {}
             sg == [r \in Refs |-> IF m.signed[r] >= h THEN m.signed[r] ELSE 0]
             sn == [r \in Refs |-> IF r \in dropped THEN None ELSE m.seen[r]]
  <2>1. p = [m EXCEPT !.signed = sg, !.seen = sn]
    BY DEF prune_expired
  <2>2. sg = [r \in Refs |-> sg[r]]
    OBVIOUS
  <2> HIDE DEF dropped
  <2>3. sn = [r \in Refs |-> sn[r]]
    OBVIOUS
  <2> HIDE DEF sg, sn
  <2> QED BY <2>1, <2>2, <2>3
<1> HIDE DEF p
<1>3. p = [halted |-> a, seen |-> sn, signed |-> sg, head |-> e]
  BY <1>1, <1>2
<1>4. IsMemory(p) /\ p.head = m.head
  BY <1>1, <1>2, <1>3 DEF IsMemory
<1> QED BY <1>4 DEF p

\* With a memory for every reference, prune_expired forgets none.
LEMMA PruneForgetsNothing ==
    ASSUME NEW m, NEW h, IsMemory(m),
           IsFiniteSet(Refs), Cardinality(Refs) <= MAX_REMEMBERED_EXPIRED
    PROVE  prune_expired(m, h).seen = m.seen
<1>1. PICK a, b, c, e : m = [halted |-> a, seen |-> b, signed |-> c, head |-> e]
  BY MemoryShape
<1> DEFINE expired == {r \in Refs : m.seen[r] # None /\ m.seen[r].expiry < h}
           excess == Cardinality(expired) - MAX_REMEMBERED_EXPIRED
           oldest == {S \in SUBSET expired :
                         /\ Cardinality(S) = excess
                         /\ \A r \in S, q \in expired \ S :
                                m.seen[r].expiry <= m.seen[q].expiry}
           dropped == IF excess > 0 THEN CHOOSE S \in oldest : TRUE ELSE {}
           sg == [r \in Refs |-> IF m.signed[r] >= h THEN m.signed[r] ELSE 0]
           sn == [r \in Refs |-> IF r \in dropped THEN None ELSE m.seen[r]]
<1>2. prune_expired(m, h) = [m EXCEPT !.signed = sg, !.seen = sn]
  BY DEF prune_expired
<1>3. dropped = {}
  <2> HIDE DEF oldest
  <2>1. expired \subseteq Refs
    OBVIOUS
  <2> HIDE DEF expired
  <2>2. /\ Cardinality(expired) \in Nat /\ Cardinality(Refs) \in Nat
        /\ Cardinality(expired) <= Cardinality(Refs)
    BY <2>1, FS_Subset, FS_CardinalityType
  <2>3. MAX_REMEMBERED_EXPIRED \in Nat
    BY AttestorAssumption
  <2> QED BY <2>2, <2>3
<1> HIDE DEF dropped
<1>4. sn = m.seen
  BY <1>3 DEF IsMemory
<1> HIDE DEF sg, sn
<1> QED BY <1>1, <1>2, <1>4

\* What is remembered of a lock is what was remembered before, if anything.
LEMMA RememberKeepsMemory ==
    ASSUME NEW m, NEW lock \in Locks, NEW h, IsMemory(m)
    PROVE  LET n == remember(m, lock, h)
           IN /\ IsMemory(n) /\ n.head = m.head
              /\ n.seen = [m.seen EXCEPT ![lock.ref] =
                              IF m.seen[lock.ref] = None
                              THEN [digest |-> lock.content, expiry |-> expiry_deadline(h)]
                              ELSE m.seen[lock.ref]]
<1>1. PICK a, b, c, e : m = [halted |-> a, seen |-> b, signed |-> c, head |-> e] /\ e.seq \in Nat
  BY MemoryShape
<1> DEFINE n == remember(m, lock, h)
           sn == [m.seen EXCEPT ![lock.ref] =
                     IF m.seen[lock.ref] = None
                     THEN [digest |-> lock.content, expiry |-> expiry_deadline(h)]
                     ELSE m.seen[lock.ref]]
           sg == [m.signed EXCEPT ![lock.ref] = expiry_deadline(h)]
<1>2. n = [halted |-> a, seen |-> sn, signed |-> sg, head |-> e]
  <2>1. n = [m EXCEPT !.seen = sn, !.signed = sg]
    BY DEF remember
  <2> HIDE DEF n, sn, sg
  <2> QED BY <1>1, <2>1
<1>3. sn = [r \in Refs |-> sn[r]] /\ sg = [r \in Refs |-> sg[r]]
  BY DEF IsMemory
<1> HIDE DEF n, sn, sg
<1>4. IsMemory(n) /\ n.head = m.head /\ n.seen = sn
  BY <1>1, <1>2, <1>3 DEF IsMemory
<1> QED BY <1>4 DEF n, sn

\* The other fields of a memory may change without its ceasing to be one.
LEMMA FieldsKeepMemory ==
    ASSUME NEW m, IsMemory(m)
    PROVE  /\ \A b : LET n == [m EXCEPT !.halted = b]
                     IN IsMemory(n) /\ n.head = m.head /\ n.seen = m.seen
           /\ \A i : i.seq \in Nat => LET n == [m EXCEPT !.head = i]
                     IN IsMemory(n) /\ n.head = i /\ n.seen = m.seen
           /\ \A r \in Refs : \A x : LET n == [m EXCEPT !.signed[r] = x]
                     IN IsMemory(n) /\ n.head = m.head /\ n.seen = m.seen
<1>1. PICK a, b, c, e : m = [halted |-> a, seen |-> b, signed |-> c, head |-> e] /\ e.seq \in Nat
  BY MemoryShape
<1>2. ASSUME NEW x
      PROVE  LET n == [m EXCEPT !.halted = x]
             IN IsMemory(n) /\ n.head = m.head /\ n.seen = m.seen
  <2>1. [m EXCEPT !.halted = x] = [halted |-> x, seen |-> b, signed |-> c, head |-> e]
    BY <1>1
  <2> QED BY <1>1, <2>1 DEF IsMemory
<1>3. ASSUME NEW i, i.seq \in Nat
      PROVE  LET n == [m EXCEPT !.head = i]
             IN IsMemory(n) /\ n.head = i /\ n.seen = m.seen
  <2>1. [m EXCEPT !.head = i] = [halted |-> a, seen |-> b, signed |-> c, head |-> i]
    BY <1>1
  <2> QED BY <1>1, <1>3, <2>1 DEF IsMemory
<1>4. ASSUME NEW r \in Refs, NEW x
      PROVE  LET n == [m EXCEPT !.signed[r] = x]
             IN IsMemory(n) /\ n.head = m.head /\ n.seen = m.seen
  <2> DEFINE sg == [c EXCEPT ![r] = x]
  <2>1. [m EXCEPT !.signed[r] = x] = [halted |-> a, seen |-> b, signed |-> sg, head |-> e]
    BY <1>1
  <2>2. sg = [q \in Refs |-> sg[q]]
    BY <1>1 DEF IsMemory
  <2> HIDE DEF sg
  <2> QED BY <1>1, <2>1, <2>2 DEF IsMemory
<1> QED BY <1>2, <1>3, <1>4

\* The image that follows a memory.
LEMMA NextImage ==
    ASSUME NoneIsApart, NEW m, m.head.seq \in Nat
    PROVE  LET i == next_image(m)
           IN /\ i # None /\ i.seq = m.head.seq + 1 /\ i.seq \in Nat /\ i.seq # 0
              /\ i.prev = m.head /\ i.records = export_divergence(m)
  BY DEF NoneIsApart, next_image

\* A save keeps the files in step with an operator that goes on with the new
\* image when the save was done, and with its old head otherwise.
LEMMA SaveKeepsFiles ==
    ASSUME NoneIsApart, NEW m, NEW d, NEW n \in 0 .. 2, NEW write \in Writes,
           IsFiles(d), m.head.seq \in Nat,
           n = 0 => \/ d.journal = None /\ d.anchor = Genesis /\ m.head = Genesis
                    \/ d.journal # None /\ d.journal = d.anchor /\ d.journal.seq # 0 /\ m.head = d.journal,
           n = 1 => loadable(d),
           NEW after,
           write = "done" => after = None \/ after.head = next_image(m),
           write # "done" => \/ after = None
                             \/ after.head = m.head /\ d.journal # None
                             \/ n # 0
    PROVE  /\ IsFiles(saved(m, d, write))
           /\ cut_short(write, n) \in 0 .. 2
           /\ FilesAgree(after, saved(m, d, write), cut_short(write, n))
<1> DEFINE i == next_image(m)
<1>1. /\ i # None /\ i.seq = m.head.seq + 1 /\ i.seq \in Nat /\ i.seq # 0
      /\ i.prev = m.head
  BY NextImage
<1> HIDE DEF i
<1>2. PICK j, a : d = [journal |-> j, anchor |-> a]
  BY DEF IsFiles
<1>3. CASE write = "lost"
  <2>1. saved(m, d, write) = d /\ cut_short(write, n) = n
    BY <1>3 DEF saved, cut_short
  <2> QED BY <1>3, <2>1 DEF FilesAgree
<1>4. CASE write = "journal"
  <2>1. saved(m, d, write) = [journal |-> i, anchor |-> a]
    BY <1>2, <1>4 DEF saved, i
  <2>2. cut_short(write, n) = IF n < 2 THEN n + 1 ELSE n
    BY <1>4 DEF cut_short
  <2>3. n = 0 => a = m.head
    BY <1>2
  <2> QED BY <1>1, <2>1, <2>2, <2>3 DEF FilesAgree, IsFiles, loadable
<1>5. CASE write = "anchor"
  <2>1. saved(m, d, write) = [journal |-> i, anchor |-> i]
    BY <1>5 DEF saved, i
  <2>2. cut_short(write, n) = IF n < 2 THEN n + 1 ELSE n
    BY <1>5 DEF cut_short
  <2> QED BY <1>1, <2>1, <2>2 DEF FilesAgree, IsFiles, loadable
<1>6. CASE write = "done"
  <2>1. saved(m, d, write) = [journal |-> i, anchor |-> i] /\ cut_short(write, n) = 0
    BY <1>6 DEF saved, cut_short, i
  <2> QED BY <1>1, <1>6, <2>1 DEF FilesAgree, IsFiles, i
<1> QED BY <1>3, <1>4, <1>5, <1>6 DEF Writes

\* How far a save comes is one of four places.
LEMMA FatesWrite == \A o, f : f \in Fates(o) => f.write \in Writes
  BY DEF Fates, Fine, Writes

(***************************************************************************)
(* How observe_and_sign on memory m0 and files d may end: nothing is       *)
(* saved; the save fails, nothing is signed, and the memory is the pruned  *)
(* one; or the save is done, and then at most the lock is signed, which    *)
(* the operator wanted to.  m and m1 are the memory pruned, and with the   *)
(* lock remembered.                                                        *)
(***************************************************************************)
Ends(m0, d, lock, h, m, m1, out) ==
    /\ IsMemory(m1) /\ m1.head = m0.head
    /\ IsMemory(out.mem)
    /\ \/ /\ out.write = "none" /\ out.files = d /\ out.facts = {}
          /\ out.mem.head = m0.head /\ out.mem.seen \in {m0.seen, m.seen}
       \/ /\ out.write \in Writes /\ out.write # "done"
          /\ out.files = saved(m1, d, out.write) /\ out.facts = {}
          /\ out.mem.head = m0.head /\ out.mem.seen = m.seen
       \/ /\ out.write = "done" /\ out.files = saved(m1, d, "done")
          /\ out.facts \subseteq {translate(lock, h)} /\ wants(m, lock, h)
          /\ out.mem.head = next_image(m1) /\ out.mem.seen = m1.seen

\* observe_and_sign ends in one of these ways.
LEMMA ObserveOutcome ==
    ASSUME NoneIsApart, NEW m0, IsMemory(m0), NEW d, NEW lock \in Locks, NEW h,
           NEW fate, fate.write \in Writes
    PROVE  Ends(m0, d, lock, h, prune_expired(m0, h),
                remember(prune_expired(m0, h), lock, h),
                observe_and_sign(m0, d, lock, h, fate))
<1> DEFINE m == prune_expired(m0, h)
           m1 == remember(m, lock, h)
           m2 == [m1 EXCEPT !.head = next_image(m1)]
           m3 == [m2 EXCEPT !.signed[lock.ref] = m.signed[lock.ref]]
           mh == [m EXCEPT !.halted = lock.final /\ diverges(m, lock)]
           out == observe_and_sign(m0, d, lock, h, fate)
<1>1. lock.ref \in Refs
  BY DEF Locks
<1>2. IsMemory(m) /\ m.head = m0.head
  BY PruneKeepsMemory
<1> HIDE DEF m
<1>3. IsMemory(m1) /\ m1.head = m.head
  BY <1>2, RememberKeepsMemory
<1> HIDE DEF m1
<1>4. next_image(m1).seq \in Nat
  BY <1>3, NextImage DEF IsMemory
<1>5. IsMemory(m2) /\ m2.head = next_image(m1) /\ m2.seen = m1.seen
  BY <1>3, <1>4, FieldsKeepMemory
<1> HIDE DEF m2
<1>6. IsMemory(m3) /\ m3.head = m2.head /\ m3.seen = m2.seen
  BY <1>1, <1>5, FieldsKeepMemory
<1>7. IsMemory(mh) /\ mh.head = m.head /\ mh.seen = m.seen
  BY <1>2, FieldsKeepMemory
<1> HIDE DEF m3, mh
<1>8. \/ out = [mem |-> m0, files |-> d, write |-> "none", facts |-> {}]
      \/ out = [mem |-> mh, files |-> d, write |-> "none", facts |-> {}]
      \/ /\ fate.write # "done"
         /\ out = [mem |-> m, files |-> saved(m1, d, fate.write), write |-> fate.write, facts |-> {}]
      \/ /\ fate.write = "done" /\ wants(m, lock, h)
         /\ \/ out = [mem |-> m2, files |-> saved(m1, d, fate.write), write |-> fate.write,
                      facts |-> {translate(lock, h)}]
            \/ out = [mem |-> m3, files |-> saved(m1, d, fate.write), write |-> fate.write,
                      facts |-> {}]
  <2>1. CASE m0.halted
    <3>1. out = [mem |-> m0, files |-> d, write |-> "none", facts |-> {}]
      BY <2>1 DEF observe_and_sign
    <3> QED BY <3>1
  <2>2. CASE ~m0.halted /\ ~wants(m, lock, h)
    <3>1. out = [mem |-> mh, files |-> d, write |-> "none", facts |-> {}]
      BY <2>2 DEF observe_and_sign, m, mh
    <3> QED BY <3>1
  <2>3. CASE ~m0.halted /\ wants(m, lock, h) /\ fate.write # "done"
    <3>1. out = [mem |-> m, files |-> saved(m1, d, fate.write), write |-> fate.write, facts |-> {}]
      BY <2>3 DEF observe_and_sign, m, m1
    <3> QED BY <2>3, <3>1
  <2>4. CASE ~m0.halted /\ wants(m, lock, h) /\ fate.write = "done" /\ fate.signs
    <3>1. out = [mem |-> m2, files |-> saved(m1, d, fate.write), write |-> fate.write,
                 facts |-> {translate(lock, h)}]
      BY <2>4 DEF observe_and_sign, m, m1, m2
    <3> QED BY <2>4, <3>1
  <2>5. CASE ~m0.halted /\ wants(m, lock, h) /\ fate.write = "done" /\ ~fate.signs
    <3>1. out = [mem |-> m3, files |-> saved(m1, d, fate.write), write |-> fate.write, facts |-> {}]
      BY <2>5 DEF observe_and_sign, m, m1, m2, m3
    <3> QED BY <2>5, <3>1
  <2> QED BY <2>1, <2>2, <2>3, <2>4, <2>5
<1> HIDE DEF out
<1>9. Ends(m0, d, lock, h, m, m1, out)
  BY <1>2, <1>3, <1>5, <1>6, <1>7, <1>8 DEF Ends
<1> QED BY <1>9 DEF out, m, m1

\* restore_divergence makes a memory whose head is the image that was loaded.
LEMMA RestoreMakesMemory ==
    ASSUME NEW d, IsFiles(d)
    PROVE  LET m == restore_divergence(load(d))
           IN /\ IsMemory(m)
              /\ d.journal = None => m.head = Genesis
              /\ d.journal # None /\ d.journal.seq # 0 => m.head = d.journal
<1> DEFINE i == load(d)
           m == restore_divergence(i)
           sn == [r \in Refs |-> IF i.records[r] = None THEN None
                                 ELSE [digest |-> i.records[r].digest,
                                       expiry |-> i.records[r].expiry_height]]
           sg == [r \in Refs |-> IF i.records[r] = None THEN 0
                                 ELSE i.records[r].signed_expiry]
           hd == IF i.seq = 0 THEN Genesis ELSE i
<1>1. m = [halted |-> FALSE, seen |-> sn, signed |-> sg, head |-> hd]
  BY DEF restore_divergence
<1>2. sn = [r \in Refs |-> sn[r]] /\ sg = [r \in Refs |-> sg[r]]
  OBVIOUS
<1>3. i.seq \in Nat /\ (d.journal = None => i.seq = 0) /\ (d.journal # None => i = d.journal)
  BY DEF load, NoJournal, IsFiles
<1>4. hd.seq \in Nat
  BY <1>3 DEF Genesis
<1> HIDE DEF m, i, sn, sg
<1>5. IsMemory(m)
  <2> HIDE DEF hd
  <2> QED BY <1>1, <1>2, <1>4 DEF IsMemory
<1>6. m.head = hd
  BY <1>1
<1> QED BY <1>3, <1>5, <1>6 DEF m, i

\* No operator has run, and there are no files.
LEMMA JournalStarts == Init => JournalInv
  BY DEF Init, JournalInv, IsFiles, FilesAgree, Genesis

\* Every step of every operator keeps its files in step with it.
LEMMA JournalSteps ==
    ASSUME NoneIsApart
    PROVE  JournalInv /\ [Next]_vars => JournalInv'
<1> SUFFICES ASSUME JournalInv, [Next]_vars PROVE JournalInv'
  OBVIOUS
<1>0. /\ op = [o \in Operators |-> op[o]] /\ disk = [o \in Operators |-> disk[o]]
      /\ cuts \in [Operators -> 0 .. 2]
      /\ \A o \in Operators : /\ op[o] # None => IsMemory(op[o])
                              /\ IsFiles(disk[o])
                              /\ FilesAgree(op[o], disk[o], cuts[o])
  BY DEF JournalInv
<1>1. ASSUME NEW o \in Operators, NEW m, NEW d, NEW n \in 0 .. 2,
             op' = [op EXCEPT ![o] = m], disk' = [disk EXCEPT ![o] = d],
             cuts' = [cuts EXCEPT ![o] = n],
             m # None => IsMemory(m), IsFiles(d), FilesAgree(m, d, n)
      PROVE  JournalInv'
  <2>1. /\ op' = [q \in Operators |-> op'[q]] /\ disk' = [q \in Operators |-> disk'[q]]
        /\ cuts' \in [Operators -> 0 .. 2]
    BY <1>0, <1>1
  <2>2. \A q \in Operators : /\ op'[q] = IF q = o THEN m ELSE op[q]
                             /\ disk'[q] = IF q = o THEN d ELSE disk[q]
                             /\ cuts'[q] = IF q = o THEN n ELSE cuts[q]
    BY <1>0, <1>1
  <2> QED BY <1>0, <1>1, <2>1, <2>2 DEF JournalInv
<1>2. ASSUME NEW o \in Operators, Start(o) PROVE JournalInv'
  <2> DEFINE m == restore_divergence(load(disk[o]))
             after(write) == IF write = "done" THEN [m EXCEPT !.head = next_image(m)] ELSE None
  <2>1. PICK write \in Writes :
           /\ disk' = [disk EXCEPT ![o] = saved(m, disk[o], write)]
           /\ op' = [op EXCEPT ![o] = after(write)]
           /\ cuts' = [cuts EXCEPT ![o] = cut_short(write, cuts[o])]
    <3> HIDE DEF m
    <3>1. PICK write \in {f.write : f \in Fates(o)} :
             /\ disk' = [disk EXCEPT ![o] = saved(m, disk[o], write)]
             /\ op' = [op EXCEPT ![o] = after(write)]
             /\ cuts' = [cuts EXCEPT ![o] = cut_short(write, cuts[o])]
      BY <1>2 DEF Start, m
    <3>2. write \in Writes
      BY FatesWrite
    <3> QED BY <3>1, <3>2
  <2>2. op[o] = None /\ IsFiles(disk[o]) /\ FilesAgree(None, disk[o], cuts[o])
    BY <1>0, <1>2 DEF Start
  <2>3. /\ IsMemory(m) /\ (disk[o].journal = None => m.head = Genesis)
        /\ disk[o].journal # None /\ disk[o].journal.seq # 0 => m.head = disk[o].journal
    BY <2>2, RestoreMakesMemory
  <2> HIDE DEF m
  <2>4. m.head.seq \in Nat /\ cuts[o] \in 0 .. 2
    BY <1>0, <2>3 DEF IsMemory
  <2>5. next_image(m).seq \in Nat
    BY <2>4, NextImage
  <2>6. /\ after(write) # None => IsMemory(after(write))
        /\ write = "done" => after(write) = None \/ after(write).head = next_image(m)
        /\ write # "done" =>
              \/ after(write) = None
              \/ after(write).head = m.head /\ disk[o].journal # None
              \/ cuts[o] # 0
    BY <2>3, <2>5, FieldsKeepMemory
  <2> HIDE DEF after
  <2>7. /\ cuts[o] = 0 =>
              \/ disk[o].journal = None /\ disk[o].anchor = Genesis /\ m.head = Genesis
              \/ /\ disk[o].journal # None /\ disk[o].journal = disk[o].anchor
                 /\ disk[o].journal.seq # 0 /\ m.head = disk[o].journal
        /\ cuts[o] = 1 => loadable(disk[o])
    BY <2>2, <2>3 DEF FilesAgree
  <2>8. /\ IsFiles(saved(m, disk[o], write)) /\ cut_short(write, cuts[o]) \in 0 .. 2
        /\ FilesAgree(after(write), saved(m, disk[o], write), cut_short(write, cuts[o]))
    BY <2>2, <2>4, <2>6, <2>7, SaveKeepsFiles
  <2> QED BY <1>1, <2>1, <2>6, <2>8
<1>3. ASSUME NEW o \in Operators, Halt(o) PROVE JournalInv'
  <2> DEFINE m == [op[o] EXCEPT !.halted = TRUE]
  <2>1. op[o] # None /\ op' = [op EXCEPT ![o] = m] /\ disk' = disk /\ cuts' = cuts
    BY <1>3 DEF Halt
  <2>2. IsMemory(m) /\ m.head = op[o].head
    BY <1>0, <2>1, FieldsKeepMemory
  <2> HIDE DEF m
  <2>3. FilesAgree(m, disk[o], cuts[o])
    BY <1>0, <2>1, <2>2 DEF FilesAgree
  <2>4. disk' = [disk EXCEPT ![o] = disk[o]] /\ cuts' = [cuts EXCEPT ![o] = cuts[o]]
    BY <1>0, <2>1
  <2> QED BY <1>0, <1>1, <2>1, <2>2, <2>3, <2>4
<1>4. ASSUME NEW o \in Operators, Observe(o) PROVE JournalInv'
  <2>1. CASE UNCHANGED <<op, disk, cuts>>
    BY <2>1 DEF JournalInv
  <2>2. CASE ~UNCHANGED <<op, disk, cuts>>
    <3>1. op[o] # None
      BY <1>4, <2>2 DEF Observe
    <3>2. PICK lock \in Answers(feed[o]), fate \in Fates(o) :
             LET out == observe_and_sign(op[o], disk[o], lock, height, fate) IN
             /\ op' = [op EXCEPT ![o] = out.mem]
             /\ disk' = [disk EXCEPT ![o] = out.files]
             /\ cuts' = [cuts EXCEPT ![o] = cut_short(out.write, cuts[o])]
      BY <1>4, <2>2 DEF Observe
    <3> DEFINE m == prune_expired(op[o], height)
               m1 == remember(m, lock, height)
               out == observe_and_sign(op[o], disk[o], lock, height, fate)
    <3>3. lock \in Locks /\ fate.write \in Writes
      BY FatesWrite DEF Answers
    <3>4. IsMemory(op[o]) /\ IsFiles(disk[o]) /\ FilesAgree(op[o], disk[o], cuts[o]) /\ cuts[o] \in 0 .. 2
      BY <1>0, <3>1
    <3>9. Ends(op[o], disk[o], lock, height, m, m1, out)
      BY <3>3, <3>4, ObserveOutcome
    <3> HIDE DEF m, m1, out
    <3>5. /\ IsMemory(m1) /\ m1.head = op[o].head /\ IsMemory(out.mem)
          /\ \/ out.write = "none" /\ out.files = disk[o] /\ out.mem.head = op[o].head
             \/ /\ out.write \in Writes /\ out.write # "done"
                /\ out.files = saved(m1, disk[o], out.write) /\ out.mem.head = op[o].head
             \/ /\ out.write = "done" /\ out.files = saved(m1, disk[o], "done")
                /\ out.mem.head = next_image(m1)
      BY <3>9 DEF Ends
    <3>6. op' = [op EXCEPT ![o] = out.mem] /\ disk' = [disk EXCEPT ![o] = out.files]
          /\ cuts' = [cuts EXCEPT ![o] = cut_short(out.write, cuts[o])]
      BY <3>2 DEF out
    <3>7. CASE out.write = "none"
      <4>1. out.files = disk[o] /\ out.mem.head = op[o].head /\ cut_short(out.write, cuts[o]) = cuts[o]
        BY <3>5, <3>7 DEF cut_short, Writes
      <4>2. FilesAgree(out.mem, disk[o], cuts[o])
        BY <3>1, <3>4, <4>1 DEF FilesAgree
      <4> QED BY <1>1, <3>4, <3>5, <3>6, <4>1, <4>2
    <3>8. CASE out.write # "none"
      <4>1. out.write \in Writes /\ out.files = saved(m1, disk[o], out.write)
        BY <3>5, <3>8 DEF Writes
      <4>2. /\ cuts[o] = 0 => /\ disk[o].journal # None /\ disk[o].journal = disk[o].anchor
                              /\ disk[o].journal.seq # 0 /\ m1.head = disk[o].journal
            /\ cuts[o] = 1 => loadable(disk[o])
        BY <3>1, <3>4, <3>5 DEF FilesAgree
      <4>3. m1.head.seq \in Nat
        BY <3>5 DEF IsMemory
      <4>4. /\ out.write = "done" => out.mem.head = next_image(m1)
            /\ out.write # "done" => out.mem.head = m1.head
        BY <3>5, <3>8
      <4>5. /\ IsFiles(saved(m1, disk[o], out.write)) /\ cut_short(out.write, cuts[o]) \in 0 .. 2
            /\ FilesAgree(out.mem, saved(m1, disk[o], out.write), cut_short(out.write, cuts[o]))
        BY <3>4, <4>1, <4>2, <4>3, <4>4, SaveKeepsFiles
      <4> QED BY <1>1, <3>5, <3>6, <4>1, <4>5
    <3> QED BY <3>7, <3>8
  <2> QED BY <2>1, <2>2
<1>5. CASE Admit
  BY <1>5 DEF Admit, JournalInv
<1>6. CASE Crash
  <2>1. op' = [o \in Operators |-> None] /\ disk' = disk /\ cuts' = cuts
    BY <1>6 DEF Crash
  <2>2. \A o \in Operators : FilesAgree(None, disk[o], cuts[o])
    BY <1>0 DEF FilesAgree
  <2> QED BY <1>0, <2>1, <2>2 DEF JournalInv
<1>7. CASE Advance
  BY <1>7 DEF Advance, JournalInv
<1>8. CASE UNCHANGED vars
  BY <1>8 DEF vars, JournalInv
<1> QED BY <1>2, <1>3, <1>4, <1>5, <1>6, <1>7, <1>8 DEF Next

(***************************************************************************)
(* DivergenceJournal save and load: one save that stopped between or after *)
(* its two renames never keeps the next process from starting, for any     *)
(* number of operators, references and saves.                              *)
(***************************************************************************)
THEOREM OneCutIsSurvived ==
    ASSUME NoneIsApart
    PROVE  Spec => []SurvivesOneCut
<1>1. JournalInv => SurvivesOneCut
  <2> SUFFICES ASSUME JournalInv, NEW o \in Operators, cuts[o] <= 1
               PROVE  loadable(disk[o])
    BY DEF SurvivesOneCut
  <2>1. FilesAgree(op[o], disk[o], cuts[o]) /\ cuts[o] \in 0 .. 1
    BY DEF JournalInv
  <2> QED BY <2>1 DEF FilesAgree, loadable
<1>2. JournalInv /\ [Next]_vars => JournalInv'
  BY JournalSteps
<1> QED BY JournalStarts, <1>1, <1>2, PTL DEF Spec

-----------------------------------------------------------------------------
(* What was signed is remembered *)

\* kept, from references to records with a digest, has what x signed.
Recalls(kept, x) ==
    kept[x.fact.ref] # None /\ kept[x.fact.ref].digest = x.fact.content

\* Every signature is recalled by its operator while it runs, and by its
\* journal, which the next process of the operator starts from.
RecallInv ==
    \A x \in released :
        /\ x.op \in Operators /\ x.fact.ref \in Refs
        /\ op[x.op] # None => Recalls(op[x.op].seen, x)
        /\ disk[x.op].journal # None /\ Recalls(disk[x.op].journal.records, x)

\* There is a memory for every reference.
RemembersAll == IsFiniteSet(Refs) /\ Cardinality(Refs) <= MAX_REMEMBERED_EXPIRED

\* An image recalls what the memory it is made from did.
LEMMA ImageRecalls ==
    ASSUME NoneIsApart, NEW m, NEW x, x.fact.ref \in Refs, Recalls(m.seen, x)
    PROVE  Recalls(next_image(m).records, x)
<1>1. next_image(m).records = export_divergence(m)
  BY DEF next_image
<1>2. export_divergence(m)[x.fact.ref] =
         [digest |-> m.seen[x.fact.ref].digest, expiry_height |-> m.seen[x.fact.ref].expiry,
          signed_expiry |-> m.signed[x.fact.ref]]
  BY DEF export_divergence, Recalls
<1> QED BY <1>1, <1>2 DEF Recalls, NoneIsApart

\* A memory recalls what the image it is restored from did.
LEMMA RestoreRecalls ==
    ASSUME NoneIsApart, NEW i, NEW x, x.fact.ref \in Refs, Recalls(i.records, x)
    PROVE  Recalls(restore_divergence(i).seen, x)
<1>1. restore_divergence(i).seen[x.fact.ref] =
         [digest |-> i.records[x.fact.ref].digest,
          expiry |-> i.records[x.fact.ref].expiry_height]
  BY DEF restore_divergence, Recalls
<1> QED BY <1>1 DEF Recalls, NoneIsApart

\* To remember a lock loses nothing, and a lock that was wanted is recalled.
LEMMA RememberRecalls ==
    ASSUME NoneIsApart, NEW m, IsMemory(m), NEW lock \in Locks, NEW h
    PROVE  LET n == remember(m, lock, h)
           IN /\ \A x : x.fact.ref \in Refs /\ Recalls(m.seen, x) => Recalls(n.seen, x)
              /\ wants(m, lock, h) =>
                    \A x : x.fact = translate(lock, h) => Recalls(n.seen, x)
<1> DEFINE n == remember(m, lock, h)
           new == [digest |-> lock.content, expiry |-> expiry_deadline(h)]
<1>1. n.seen = [m.seen EXCEPT ![lock.ref] =
                   IF m.seen[lock.ref] = None THEN new ELSE m.seen[lock.ref]]
  BY RememberKeepsMemory
<1>2. lock.ref \in Refs /\ m.seen = [r \in Refs |-> m.seen[r]]
  BY DEF Locks, IsMemory
<1>3. new # None /\ new.digest = lock.content
  BY DEF NoneIsApart
<1> HIDE DEF n, new
<1>4. \A r \in Refs : n.seen[r] = IF r = lock.ref /\ m.seen[r] = None THEN new ELSE m.seen[r]
  BY <1>1, <1>2
<1>5. ASSUME NEW x, x.fact.ref \in Refs, Recalls(m.seen, x) PROVE Recalls(n.seen, x)
  BY <1>4, <1>5 DEF Recalls
<1>6. ASSUME wants(m, lock, h), NEW x, x.fact = translate(lock, h) PROVE Recalls(n.seen, x)
  <2>1. x.fact.ref = lock.ref /\ x.fact.content = lock.content
    BY <1>6 DEF translate
  <2>2. m.seen[lock.ref] = None \/ m.seen[lock.ref].digest = lock.content
    BY <1>6 DEF wants, diverges
  <2> QED BY <1>2, <1>3, <1>4, <2>1, <2>2 DEF Recalls
<1> QED BY <1>5, <1>6 DEF n

\* The journal after a save is the one before it or the new image.
LEMMA SavedJournal ==
    ASSUME NEW m, NEW d, NEW write, IsFiles(d)
    PROVE  /\ saved(m, d, write).journal \in {d.journal, next_image(m)}
           /\ write = "done" => saved(m, d, write).journal = next_image(m)
<1>1. PICK j, a : d = [journal |-> j, anchor |-> a]
  BY DEF IsFiles
<1> QED BY <1>1 DEF saved

\* Every step leaves what was signed, and what is signed now, recalled.
LEMMA RecallSteps ==
    ASSUME NoneIsApart, RemembersAll
    PROVE  JournalInv /\ RecallInv /\ [Next]_vars => RecallInv'
<1> SUFFICES ASSUME JournalInv, RecallInv, [Next]_vars PROVE RecallInv'
  OBVIOUS
<1>0. /\ op = [o \in Operators |-> op[o]] /\ disk = [o \in Operators |-> disk[o]]
      /\ \A o \in Operators : /\ op[o] # None => IsMemory(op[o])
                              /\ IsFiles(disk[o])
  BY DEF JournalInv
<1>1. ASSUME NEW o \in Operators, NEW m, NEW d,
             op' = [op EXCEPT ![o] = m], disk' = [disk EXCEPT ![o] = d],
             \A x \in released' :
                 x \in released \/ (x.op = o /\ x.fact.ref \in Refs),
             \A x \in released' : x.op = o =>
                 /\ m # None => Recalls(m.seen, x)
                 /\ d.journal # None /\ Recalls(d.journal.records, x)
      PROVE  RecallInv'
  <2>1. \A q \in Operators : /\ op'[q] = IF q = o THEN m ELSE op[q]
                             /\ disk'[q] = IF q = o THEN d ELSE disk[q]
    BY <1>0, <1>1
  <2> SUFFICES ASSUME NEW x \in released'
               PROVE  /\ x.op \in Operators /\ x.fact.ref \in Refs
                      /\ op'[x.op] # None => Recalls(op'[x.op].seen, x)
                      /\ disk'[x.op].journal # None
                      /\ Recalls(disk'[x.op].journal.records, x)
    BY DEF RecallInv
  <2>2. CASE x.op = o
    BY <1>1, <2>1, <2>2 DEF RecallInv
  <2>3. CASE x.op # o
    BY <1>1, <2>1, <2>3 DEF RecallInv
  <2> QED BY <2>2, <2>3
<1>2. ASSUME NEW o \in Operators, Start(o) PROVE RecallInv'
  <2> DEFINE m == restore_divergence(load(disk[o]))
             after(write) == IF write = "done" THEN [m EXCEPT !.head = next_image(m)] ELSE None
  <2>1. PICK write :
           /\ disk' = [disk EXCEPT ![o] = saved(m, disk[o], write)]
           /\ op' = [op EXCEPT ![o] = after(write)]
           /\ released' = released
    <3> HIDE DEF m
    <3> QED BY <1>2 DEF Start, m
  <2>2. IsFiles(disk[o])
    BY <1>0
  <2>3. IsMemory(m)
    BY <2>2, RestoreMakesMemory
  <2>4. ASSUME NEW x \in released, x.op = o
        PROVE  Recalls(m.seen, x) /\ Recalls(next_image(m).records, x)
    <3>1. x.fact.ref \in Refs /\ load(disk[o]) = disk[o].journal
          /\ Recalls(disk[o].journal.records, x)
      BY <2>4 DEF RecallInv, load
    <3>2. Recalls(m.seen, x)
      BY <3>1, RestoreRecalls
    <3> QED BY <3>1, <3>2, ImageRecalls
  <2> HIDE DEF m
  <2>5. next_image(m).seq \in Nat /\ next_image(m) # None
    BY <2>3, NextImage DEF IsMemory
  <2>6. after(write) # None => after(write).seen = m.seen
    BY <2>3, <2>5, FieldsKeepMemory
  <2> HIDE DEF after
  <2>7. saved(m, disk[o], write).journal \in {disk[o].journal, next_image(m)}
    BY <2>2, SavedJournal
  <2>8. \A x \in released' : x.op = o =>
           /\ after(write) # None => Recalls(after(write).seen, x)
           /\ saved(m, disk[o], write).journal # None
           /\ Recalls(saved(m, disk[o], write).journal.records, x)
    BY <2>1, <2>4, <2>5, <2>6, <2>7 DEF RecallInv
  <2> QED BY <1>1, <2>1, <2>8
<1>3. ASSUME NEW o \in Operators, Halt(o) PROVE RecallInv'
  <2> DEFINE m == [op[o] EXCEPT !.halted = TRUE]
  <2>1. op[o] # None /\ op' = [op EXCEPT ![o] = m] /\ disk' = disk /\ released' = released
    BY <1>3 DEF Halt
  <2>2. m.seen = op[o].seen
    BY <1>0, <2>1, FieldsKeepMemory
  <2> HIDE DEF m
  <2>3. disk' = [disk EXCEPT ![o] = disk[o]]
    BY <1>0, <2>1
  <2>4. \A x \in released' : x.op = o =>
           /\ m # None => Recalls(m.seen, x)
           /\ disk[o].journal # None /\ Recalls(disk[o].journal.records, x)
    BY <2>1, <2>2 DEF RecallInv
  <2> QED BY <1>1, <2>1, <2>3, <2>4
<1>4. ASSUME NEW o \in Operators, Observe(o) PROVE RecallInv'
  <2>1. CASE UNCHANGED <<op, disk, released>>
    BY <2>1 DEF RecallInv
  <2>2. CASE ~UNCHANGED <<op, disk, released>>
    <3>1. op[o] # None
      BY <1>4, <2>2 DEF Observe
    <3>2. PICK lock \in Answers(feed[o]), fate \in Fates(o) :
             LET out == observe_and_sign(op[o], disk[o], lock, height, fate) IN
             /\ op' = [op EXCEPT ![o] = out.mem]
             /\ disk' = [disk EXCEPT ![o] = out.files]
             /\ released' = released \cup
                    {[op |-> o, fact |-> f, at |-> height] : f \in out.facts}
      BY <1>4, <2>2 DEF Observe
    <3> DEFINE m == prune_expired(op[o], height)
               m1 == remember(m, lock, height)
               out == observe_and_sign(op[o], disk[o], lock, height, fate)
    <3>3. lock \in Locks /\ fate.write \in Writes /\ lock.ref \in Refs
      BY FatesWrite DEF Answers, Locks
    <3>4. IsMemory(op[o]) /\ IsFiles(disk[o])
      BY <1>0, <3>1
    <3>5. Ends(op[o], disk[o], lock, height, m, m1, out)
      BY <3>3, <3>4, ObserveOutcome
    <3>6. IsMemory(m) /\ m.seen = op[o].seen
      BY <3>4, PruneKeepsMemory, PruneForgetsNothing DEF RemembersAll
    <3>7. /\ \A x : x.fact.ref \in Refs /\ Recalls(m.seen, x) => Recalls(m1.seen, x)
          /\ wants(m, lock, height) =>
                \A x : x.fact = translate(lock, height) => Recalls(m1.seen, x)
      BY <3>3, <3>6, RememberRecalls
    <3> HIDE DEF m, m1, out
    <3>8. /\ op' = [op EXCEPT ![o] = out.mem] /\ disk' = [disk EXCEPT ![o] = out.files]
          /\ released' = released \cup
                {[op |-> o, fact |-> f, at |-> height] : f \in out.facts}
      BY <3>2 DEF out
    <3>9. m1.head.seq \in Nat /\ next_image(m1) # None
      BY <3>5, NextImage DEF Ends, IsMemory
    <3>10. ASSUME NEW x \in released, x.op = o
           PROVE  /\ x.fact.ref \in Refs
                  /\ Recalls(op[o].seen, x) /\ Recalls(m.seen, x) /\ Recalls(m1.seen, x)
                  /\ disk[o].journal # None /\ Recalls(disk[o].journal.records, x)
                  /\ Recalls(next_image(m1).records, x)
      <4>1. /\ x.fact.ref \in Refs /\ Recalls(op[o].seen, x)
            /\ disk[o].journal # None /\ Recalls(disk[o].journal.records, x)
        BY <3>1, <3>10 DEF RecallInv
      <4>2. Recalls(m.seen, x) /\ Recalls(m1.seen, x)
        BY <3>6, <3>7, <4>1
      <4> QED BY <4>1, <4>2, ImageRecalls
    <3>11. ASSUME NEW x \in released', x \notin released
           PROVE  /\ x.op = o /\ x.fact.ref \in Refs
                  /\ out.files.journal = next_image(m1) /\ out.mem.seen = m1.seen
                  /\ Recalls(m1.seen, x) /\ Recalls(next_image(m1).records, x)
      <4>1. x.op = o /\ x.fact \in out.facts
        BY <3>8, <3>11
      <4>2. /\ x.fact = translate(lock, height) /\ wants(m, lock, height)
            /\ out.files = saved(m1, disk[o], "done") /\ out.mem.seen = m1.seen
        BY <3>5, <4>1 DEF Ends
      <4>3. x.fact.ref \in Refs
        BY <3>3, <4>2 DEF translate
      <4>4. Recalls(m1.seen, x)
        BY <3>7, <4>2
      <4>5. out.files.journal = next_image(m1)
        BY <3>4, <4>2, SavedJournal
      <4> QED BY <4>1, <4>2, <4>3, <4>4, <4>5, ImageRecalls
    <3>12. /\ out.files.journal \in {disk[o].journal, next_image(m1)}
           /\ out.mem.seen \in {op[o].seen, m.seen, m1.seen}
      BY <3>4, <3>5, SavedJournal DEF Ends
    <3>13. \A x \in released' : x \in released \/ (x.op = o /\ x.fact.ref \in Refs)
      BY <3>11
    <3>14. \A x \in released' : x.op = o =>
              /\ out.mem # None => Recalls(out.mem.seen, x)
              /\ out.files.journal # None /\ Recalls(out.files.journal.records, x)
      <4> SUFFICES ASSUME NEW x \in released', x.op = o
                   PROVE  /\ Recalls(out.mem.seen, x)
                          /\ out.files.journal # None /\ Recalls(out.files.journal.records, x)
        OBVIOUS
      <4>1. CASE x \in released
        BY <3>9, <3>10, <3>12, <4>1
      <4>2. CASE x \notin released
        BY <3>9, <3>11, <4>2
      <4> QED BY <4>1, <4>2
    <3> QED BY <1>1, <3>8, <3>13, <3>14
  <2> QED BY <2>1, <2>2
<1>5. CASE Admit
  BY <1>5 DEF Admit, RecallInv
<1>6. CASE Crash
  BY <1>6 DEF Crash, RecallInv
<1>7. CASE Advance
  BY <1>7 DEF Advance, RecallInv
<1>8. CASE UNCHANGED vars
  BY <1>8 DEF vars, RecallInv
<1> QED BY <1>2, <1>3, <1>4, <1>5, <1>6, <1>7, <1>8 DEF Next

(***************************************************************************)
(* observe_and_sign: an operator with a memory for every reference never   *)
(* signs two accounts of one, whatever its source, its disk and its        *)
(* signing device do and however often it restarts.                        *)
(***************************************************************************)
THEOREM OperatorsDoNotEquivocate ==
    ASSUME NoneIsApart, RemembersAll
    PROVE  Spec => []NeverEquivocates
<1>1. Init => RecallInv
  BY DEF Init, RecallInv
<1>2. RecallInv => NeverEquivocates
  BY DEF RecallInv, Recalls, NeverEquivocates
<1>3. JournalInv /\ [Next]_vars => JournalInv'
  BY JournalSteps
<1>4. JournalInv /\ RecallInv /\ [Next]_vars => RecallInv'
  BY RecallSteps
<1> QED BY JournalStarts, <1>1, <1>2, <1>3, <1>4, PTL DEF Spec

-----------------------------------------------------------------------------
(* Lying endpoints *)

\* Operators that declare a source declare the one they watch.
DeclareWhatTheyWatch ==
    \A s \in Setups, o \in Operators : s.declared[o] \in {None, s.feed[o]}

\* A signature of this round is on the source chain, or its operator watches
\* an endpoint that lies; and so is everything that was minted.
GatherInv ==
    /\ \E s \in Setups : feed = s.feed /\ declared = s.declared
    /\ \A g \in gathered :
          /\ g.op \in Operators
          /\ feed[g.op] \in Liars \/ g.fact.content = Real[g.fact.ref]
    /\ OnlyRealLocks

\* Enough independent signers for admission include one whose endpoint is
\* honest.
LEMMA HonestSigner ==
    ASSUME DeclareWhatTheyWatch, GatherInv, Cardinality(Liars) < need,
           NEW signers \in SUBSET Operators, independent(signers),
           Cardinality(signers) >= need
    PROVE  \E o \in signers : feed[o] \notin Liars
<1> SUFFICES ASSUME \A o \in signers : feed[o] \in Liars PROVE FALSE
  OBVIOUS
<1>1. IsFiniteSet(Liars) /\ IsFiniteSet(Operators)
  BY AttestorAssumption, FS_Subset
<1>2. IsFiniteSet(signers)
  BY <1>1, FS_Subset
<1>3. {declared[o] : o \in signers} \subseteq Liars
  BY DEF DeclareWhatTheyWatch, GatherInv, independent
<1>4. Cardinality({declared[o] : o \in signers}) <= Cardinality(Liars)
  BY <1>1, <1>3, FS_Subset
<1>5. Cardinality(signers) <= Cardinality(Liars)
  BY <1>4 DEF independent
<1>6. Cardinality(Liars) \in Nat /\ Cardinality(signers) \in Nat
  BY <1>1, <1>2, FS_CardinalityType
<1>7. need \in Nat
  <2>1. Cardinality(Operators) \in Nat /\ Threshold \in Nat
    BY <1>1, FS_CardinalityType, AttestorAssumption
  <2>2. supermajority_floor(Cardinality(Operators)) \in Nat
    BY <2>1 DEF supermajority_floor, larger
  <2> QED BY <2>1, <2>2 DEF need, corridor_need, quorum_need, larger
<1> QED BY <1>5, <1>6, <1>7

\* Every step keeps the signatures of a round honest or their operators' feeds
\* lying.
LEMMA GatherSteps ==
    ASSUME NoneIsApart, DeclareWhatTheyWatch
    PROVE  JournalInv /\ GatherInv /\ [Next]_vars => GatherInv'
<1> SUFFICES ASSUME JournalInv, GatherInv, [Next]_vars PROVE GatherInv'
  OBVIOUS
<1>1. ASSUME NEW o \in Operators, Start(o) \/ Halt(o) PROVE GatherInv'
  BY <1>1 DEF Start, Halt, GatherInv, OnlyRealLocks
<1>2. ASSUME NEW o \in Operators, Observe(o) PROVE GatherInv'
  <2>1. UNCHANGED <<feed, declared, minted>>
    BY <1>2 DEF Observe
  <2>2. CASE gathered' = gathered
    BY <2>1, <2>2 DEF GatherInv, OnlyRealLocks
  <2>3. CASE gathered' # gathered
    <3>1. op[o] # None
      BY <1>2, <2>3 DEF Observe
    <3>2. PICK lock \in Answers(feed[o]), fate \in Fates(o) :
             gathered' = gathered \cup
                 {[op |-> o, fact |-> f] :
                    f \in observe_and_sign(op[o], disk[o], lock, height, fate).facts}
      BY <1>2, <2>3 DEF Observe
    <3> DEFINE out == observe_and_sign(op[o], disk[o], lock, height, fate)
    <3>3. lock \in Locks /\ fate.write \in Writes
      BY FatesWrite DEF Answers
    <3>4. IsMemory(op[o])
      BY <3>1 DEF JournalInv
    <3>5. Ends(op[o], disk[o], lock, height, prune_expired(op[o], height),
               remember(prune_expired(op[o], height), lock, height), out)
      BY <3>3, <3>4, ObserveOutcome
    <3> HIDE DEF out
    <3>6. ASSUME NEW g \in gathered', g \notin gathered
          PROVE  /\ g.op \in Operators
                 /\ feed[g.op] \in Liars \/ g.fact.content = Real[g.fact.ref]
      <4>1. g.op = o /\ g.fact \in out.facts
        BY <3>2, <3>6 DEF out
      <4>2. g.fact = translate(lock, height) /\ lock.final
        BY <3>5, <4>1 DEF Ends, wants
      <4>3. feed[o] \in Liars \/ lock.content = Real[lock.ref]
        BY <4>2 DEF Answers
      <4> QED BY <4>1, <4>2, <4>3 DEF translate
    <3> QED BY <2>1, <3>6 DEF GatherInv, OnlyRealLocks
  <2> QED BY <2>2, <2>3
<1>3. CASE Admit
  <2> DEFINE signers(f) == {g.op : g \in {x \in gathered : x.fact = f}}
  <2>1. UNCHANGED <<feed, declared>> /\ gathered' = {}
    BY <1>3 DEF Admit
  <2>2. ASSUME NEW f \in minted', f \notin minted PROVE admits(f, signers(f))
    BY <1>3, <2>2 DEF Admit
  <2>3. ASSUME Cardinality(Liars) < need, NEW f \in minted'
        PROVE  f.content = Real[f.ref]
    <3>1. CASE f \in minted
      BY <2>3, <3>1 DEF GatherInv, OnlyRealLocks
    <3>2. CASE f \notin minted
      <4>1. independent(signers(f)) /\ Cardinality(signers(f)) >= need
        BY <2>2, <3>2 DEF admits
      <4>2. signers(f) \in SUBSET Operators
        BY DEF GatherInv
      <4>3. PICK o \in signers(f) : feed[o] \notin Liars
        <5> HIDE DEF signers
        <5> QED BY <2>3, <4>1, <4>2, HonestSigner
      <4>4. PICK g \in gathered : g.fact = f /\ g.op = o
        BY <4>3
      <4> QED BY <4>3, <4>4 DEF GatherInv
    <3> QED BY <3>1, <3>2
  <2>4. OnlyRealLocks'
    BY <2>3 DEF OnlyRealLocks, need
  <2> QED BY <2>1, <2>4 DEF GatherInv
<1>4. CASE Crash
  BY <1>4 DEF Crash, GatherInv, OnlyRealLocks
<1>5. CASE Advance
  BY <1>5 DEF Advance, GatherInv, OnlyRealLocks
<1>6. CASE UNCHANGED vars
  BY <1>6 DEF vars, GatherInv, OnlyRealLocks
<1> QED BY <1>1, <1>2, <1>3, <1>4, <1>5, <1>6 DEF Next

(***************************************************************************)
(* admission.rs and sources.rs: with fewer lying endpoints than signatures *)
(* needed, everything that is minted is on the source chain, for any       *)
(* number of operators that watch any endpoints, shared or not.            *)
(***************************************************************************)
THEOREM LiarsCannotMint ==
    ASSUME NoneIsApart, DeclareWhatTheyWatch
    PROVE  Spec => []OnlyRealLocks
<1>1. Init => GatherInv
  BY DEF Init, GatherInv, OnlyRealLocks
<1>2. GatherInv => OnlyRealLocks
  BY DEF GatherInv
<1>3. JournalInv /\ [Next]_vars => JournalInv'
  BY JournalSteps
<1>4. JournalInv /\ GatherInv /\ [Next]_vars => GatherInv'
  BY GatherSteps
<1> QED BY JournalStarts, <1>1, <1>2, <1>3, <1>4, PTL DEF Spec
=============================================================================
