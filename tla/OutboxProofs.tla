---------------------------- MODULE OutboxProofs ----------------------------
(***************************************************************************)
(* Proofs about Outbox for any set of publishers and rows, any lease limit *)
(* and any number of SNS errors.                                           *)
(***************************************************************************)
EXTENDS Outbox, TLAPS

Marking == {"markPublished", "markFailed"}

(***************************************************************************)
(* The inductive invariant.  OneHolder says who may touch a leased row;    *)
(* Holding ties a publisher's step to its batch, so that a mark always     *)
(* hits a row the publisher holds; Counted is what each place a row can be *)
(* in says of its counters, of which ResentOnlyAfterError is the weakest   *)
(* common part.                                                            *)
(***************************************************************************)
Holding ==
    \A p \in Publishers :
        /\ step[p] = "poll" <=> batch[p] = {}
        /\ step[p] \in Marking => current[p] \in batch[p]

Fresh(e) == attempts[e] = 0 /\ sent[e] = 0

(* Handed to a publisher that has not sent it in this attempt.             *)
Unsent(e) == sent[e] + 1 <= attempts[e] /\ attempts[e] <= errors[e] + 1

Failed(e) == sent[e] <= attempts[e] /\ attempts[e] <= errors[e]

Accepted(e) == sent[e] >= 1 /\ sent[e] <= attempts[e] /\ attempts[e] <= errors[e] + 1

Counted ==
    /\ \A e \in Rows :
          /\ outbox[e] \in {"absent", "pending"} => Fresh(e)
          /\ outbox[e] = "failed" => Failed(e)
          /\ outbox[e] = "published" => Accepted(e)
          /\ sent[e] <= attempts[e] /\ attempts[e] <= errors[e] + 1
    /\ \A p \in Publishers : \A e \in batch[p] :
          /\ step[p] = "publish" \/ e # current[p] => Unsent(e)
          /\ step[p] = "markPublished" /\ e = current[p] => Accepted(e)
          /\ step[p] = "markFailed" /\ e = current[p] => Failed(e)

IInv == TypeOK /\ OneHolder /\ Holding /\ Counted

(* A row is leased exactly when it is orphaned or in someone's batch.      *)
LEMMA Leased ==
    ASSUME OneHolder, NEW e \in Rows
    PROVE  outbox[e] = "leased" <=> e \in orphaned \/ \E p \in Publishers : e \in batch[p]
BY DEF OneHolder

(* The empty table satisfies the inductive invariant.                      *)
LEMMA InitIInv == Init => IInv
<1> SUFFICES ASSUME Init PROVE IInv
  OBVIOUS
<1>1. TypeOK
  BY OutboxAssumption DEF Init, TypeOK, RowStatus, Step
<1>2. OneHolder
  BY DEF Init, OneHolder
<1>3. Holding
  BY DEF Init, Holding, Marking
<1>4. Counted
  BY DEF Init, Counted, Fresh
<1> QED
  BY <1>1, <1>2, <1>3, <1>4 DEF IInv

-----------------------------------------------------------------------------
(* One lemma per action that changes the rows or the publishers.           *)

(* insert_outbox_event preserves the inductive invariant.                  *)
LEMMA InsertPreserves ==
    ASSUME IInv, NEW r \in Rows, InsertOutboxEvent(r)
    PROVE  IInv'
<1> USE DEF IInv
<1>1. TypeOK'
  BY DEF TypeOK, InsertOutboxEvent, RowStatus
<1>2. OneHolder'
  BY DEF TypeOK, InsertOutboxEvent, OneHolder
<1>3. Holding'
  BY DEF InsertOutboxEvent, Holding
<1>4. Counted'
  BY DEF TypeOK, InsertOutboxEvent, Counted, Fresh, Unsent, Failed, Accepted
<1> QED
  BY <1>1, <1>2, <1>3, <1>4

(* The lease takes rows nobody holds into an empty batch: it preserves the *)
(* inductive invariant, whichever rows order by ... limit picks.           *)
LEMMA LeasePreserves ==
    ASSUME IInv, NEW p \in Publishers, LeasePendingOutbox(p)
    PROVE  IInv'
<1> USE DEF IInv
<1>1. /\ Picked \subseteq Rows
      /\ Picked # {}
      /\ \A e \in Picked : outbox[e] \in {"pending", "failed"}
  BY DEF LeasePendingOutbox, Picked, Leasable
<1>2. /\ step[p] = "poll"
      /\ batch[p] = {}
      /\ batch' = [batch EXCEPT ![p] = Picked]
      /\ step' = [step EXCEPT ![p] = "publish"]
      /\ UNCHANGED <<current, sent, errors, orphaned>>
  BY DEF LeasePendingOutbox, Holding
<1>3. /\ outbox' = [e \in Rows |-> IF e \in Picked THEN "leased" ELSE outbox[e]]
      /\ leasedUntil' = [e \in Rows |-> IF e \in Picked THEN "running" ELSE leasedUntil[e]]
      /\ attempts' = [e \in Rows |-> IF e \in Picked THEN attempts[e] + 1 ELSE attempts[e]]
  BY DEF LeasePendingOutbox
<1>4. TypeOK'
  BY <1>1, <1>2, <1>3 DEF TypeOK, RowStatus, Step
<1>5. \A e \in Picked : e \notin orphaned /\ \A q \in Publishers : e \notin batch[q]
  BY <1>1, Leased
<1>6. batch'[p] = Picked /\ \A q \in Publishers \ {p} : batch'[q] = batch[q]
  BY <1>2 DEF TypeOK
<1>7. OneHolder'
  <2>1. \A q, r \in Publishers : q # r => batch'[q] \intersect batch'[r] = {}
    BY <1>5, <1>6 DEF OneHolder
  <2>2. \A q \in Publishers : batch'[q] \intersect orphaned' = {}
    BY <1>2, <1>5, <1>6 DEF OneHolder
  <2>3. ASSUME NEW e \in Rows
        PROVE  outbox'[e] = "leased" <=> e \in orphaned' \union UNION {batch'[q] : q \in Publishers}
    <3>1. CASE e \in Picked
      BY <3>1, <1>3, <1>6
    <3>2. CASE e \notin Picked
      <4>1. outbox'[e] = outbox[e]
        BY <3>2, <1>3
      <4>2. \A q \in Publishers : e \in batch'[q] <=> e \in batch[q]
        BY <3>2, <1>2, <1>6
      <4> QED
        BY <4>1, <4>2, <1>2, Leased
    <3> QED
      BY <3>1, <3>2
  <2> QED
    BY <2>1, <2>2, <2>3 DEF OneHolder
<1>8. Holding'
  BY <1>1, <1>2, <1>6 DEF TypeOK, Holding, Marking
<1>9. Counted'
  <2>1. ASSUME NEW e \in Rows
        PROVE  /\ outbox'[e] \in {"absent", "pending"} => Fresh(e)'
               /\ outbox'[e] = "failed" => Failed(e)'
               /\ outbox'[e] = "published" => Accepted(e)'
               /\ sent'[e] <= attempts'[e] /\ attempts'[e] <= errors'[e] + 1
    <3>1. CASE e \in Picked
      <4>1. outbox'[e] = "leased" /\ attempts'[e] = attempts[e] + 1
        BY <3>1, <1>3
      <4>2. Fresh(e) \/ Failed(e)
        BY <3>1, <1>1 DEF Counted
      <4> QED
        BY <4>1, <4>2, <1>2 DEF TypeOK, Fresh, Failed
    <3>2. CASE e \notin Picked
      BY <3>2, <1>2, <1>3 DEF Counted, Fresh, Failed, Accepted
    <3> QED
      BY <3>1, <3>2
  <2>2. ASSUME NEW q \in Publishers, NEW e \in batch'[q]
        PROVE  /\ step'[q] = "publish" \/ e # current'[q] => Unsent(e)'
               /\ step'[q] = "markPublished" /\ e = current'[q] => Accepted(e)'
               /\ step'[q] = "markFailed" /\ e = current'[q] => Failed(e)'
    <3>1. CASE q = p
      <4>1. e \in Picked /\ e \in Rows /\ step'[q] = "publish"
        BY <3>1, <1>1, <1>2, <1>6 DEF TypeOK
      <4>2. attempts'[e] = attempts[e] + 1
        BY <4>1, <1>3
      <4>3. Fresh(e) \/ Failed(e)
        BY <4>1, <1>1 DEF Counted
      <4> QED
        BY <4>1, <4>2, <4>3, <1>2 DEF TypeOK, Fresh, Failed, Unsent
    <3>2. CASE q # p
      <4>1. e \in batch[q] /\ e \in Rows /\ e \notin Picked
        BY <3>2, <1>5, <1>6 DEF TypeOK
      <4>2. attempts'[e] = attempts[e] /\ step'[q] = step[q]
        BY <3>2, <4>1, <1>2, <1>3 DEF TypeOK
      <4> QED
        BY <4>1, <4>2, <1>2 DEF Counted, Unsent, Accepted, Failed
    <3> QED
      BY <3>1, <3>2
  <2> QED
    BY <2>1, <2>2 DEF Counted
<1> QED
  BY <1>4, <1>7, <1>8, <1>9

(* SNS's answer, Ok or Err, preserves the inductive invariant.             *)
LEMMA PublishPreserves ==
    ASSUME IInv, NEW p \in Publishers, NEW r \in Rows,
           PublishAccepted(p, r) \/ PublishError(p, r)
    PROVE  IInv'
<1> USE DEF IInv
<1>1. /\ step[p] = "publish"
      /\ r \in batch[p]
      /\ current' = [current EXCEPT ![p] = r]
      /\ UNCHANGED <<outbox, leasedUntil, attempts, batch, orphaned>>
  BY DEF PublishAccepted, PublishError
<1>2. \/ /\ step' = [step EXCEPT ![p] = "markPublished"]
         /\ sent' = [sent EXCEPT ![r] = @ + 1]
         /\ errors' = errors
      \/ /\ step' = [step EXCEPT ![p] = "markFailed"]
         /\ errors[r] < MaxErrors
         /\ errors' = [errors EXCEPT ![r] = @ + 1]
         /\ sent' \in {sent, [sent EXCEPT ![r] = @ + 1]}
  BY DEF PublishAccepted, PublishError
<1>3. TypeOK'
  BY <1>1, <1>2, OutboxAssumption DEF TypeOK, Step
<1>4. OneHolder'
  BY <1>1 DEF OneHolder
<1>5. Holding'
  BY <1>1, <1>2 DEF TypeOK, Holding, Marking
<1>6. Unsent(r) /\ outbox[r] = "leased"
  BY <1>1, Leased DEF Counted
<1>7. \A q \in Publishers \ {p} : r \notin batch[q]
  BY <1>1 DEF OneHolder
<1>8. \A e \in Rows \ {r} : sent'[e] = sent[e] /\ errors'[e] = errors[e]
  BY <1>2 DEF TypeOK
<1>9. \/ step'[p] = "markPublished" /\ sent'[r] = sent[r] + 1 /\ errors'[r] = errors[r]
      \/ /\ step'[p] = "markFailed"
         /\ errors'[r] = errors[r] + 1
         /\ sent'[r] = sent[r] \/ sent'[r] = sent[r] + 1
  BY <1>2 DEF TypeOK
<1>10. sent[r] \in Nat /\ attempts[r] \in Nat /\ errors[r] \in Nat
  BY OutboxAssumption DEF TypeOK
<1>11. Counted'
  <2>1. ASSUME NEW e \in Rows
        PROVE  /\ outbox'[e] \in {"absent", "pending"} => Fresh(e)'
               /\ outbox'[e] = "failed" => Failed(e)'
               /\ outbox'[e] = "published" => Accepted(e)'
               /\ sent'[e] <= attempts'[e] /\ attempts'[e] <= errors'[e] + 1
    <3>1. CASE e = r
      BY <3>1, <1>1, <1>6, <1>9, <1>10 DEF Unsent
    <3>2. CASE e # r
      BY <3>2, <1>1, <1>8 DEF Counted, Fresh, Failed, Accepted
    <3> QED
      BY <3>1, <3>2
  <2>2. ASSUME NEW q \in Publishers, NEW e \in batch'[q]
        PROVE  /\ step'[q] = "publish" \/ e # current'[q] => Unsent(e)'
               /\ step'[q] = "markPublished" /\ e = current'[q] => Accepted(e)'
               /\ step'[q] = "markFailed" /\ e = current'[q] => Failed(e)'
    <3>0. e \in batch[q] /\ e \in Rows
      BY <1>1 DEF TypeOK
    <3>1. CASE q = p /\ e = r
      <4>1. current'[q] = e /\ step'[q] # "publish"
        BY <3>1, <1>1, <1>9 DEF TypeOK
      <4> QED
        BY <3>1, <4>1, <1>1, <1>6, <1>9, <1>10 DEF Unsent, Accepted, Failed
    <3>2. CASE q = p /\ e # r
      <4>1. Unsent(e) /\ current'[q] = r /\ step'[q] # "publish"
        BY <3>0, <3>2, <1>1, <1>9 DEF Counted, TypeOK
      <4> QED
        BY <3>0, <3>2, <4>1, <1>1, <1>8 DEF Unsent
    <3>3. CASE q # p
      <4>1. step'[q] = step[q] /\ current'[q] = current[q] /\ e # r
        BY <3>0, <3>3, <1>1, <1>2, <1>7 DEF TypeOK
      <4> QED
        BY <3>0, <4>1, <1>1, <1>8 DEF Counted, Unsent, Accepted, Failed
    <3> QED
      BY <3>1, <3>2, <3>3
  <2> QED
    BY <2>1, <2>2 DEF Counted
<1> QED
  BY <1>3, <1>4, <1>5, <1>11

(* The rest of the batch after one row of it is done with: the rows other  *)
(* publishers hold, and those still to send, are untouched.                *)
LEMMA FinishRowKeeps ==
    ASSUME IInv, NEW p \in Publishers, step[p] \in Marking, FinishRow(p)
    PROVE  /\ current[p] \in Rows
           /\ current[p] \in batch[p]
           /\ batch'[p] = batch[p] \ {current[p]}
           /\ step'[p] \in {"poll", "publish"}
           /\ \A q \in Publishers \ {p} :
                 batch'[q] = batch[q] /\ step'[q] = step[q] /\ current'[q] = current[q]
           /\ batch' \in [Publishers -> SUBSET Rows]
           /\ step' \in [Publishers -> Step]
           /\ current' \in [Publishers -> Rows \union {NoRow}]
           /\ Holding'
<1> USE DEF IInv
<1>1. current[p] \in batch[p] /\ current[p] \in Rows
  BY DEF Holding, TypeOK
<1>2. /\ batch'[p] = batch[p] \ {current[p]}
      /\ step'[p] = IF batch[p] = {current[p]} THEN "poll" ELSE "publish"
      /\ \A q \in Publishers \ {p} :
            batch'[q] = batch[q] /\ step'[q] = step[q] /\ current'[q] = current[q]
  BY DEF FinishRow, TypeOK
<1>3. /\ batch' \in [Publishers -> SUBSET Rows]
      /\ step' \in [Publishers -> Step]
      /\ current' \in [Publishers -> Rows \union {NoRow}]
  BY DEF FinishRow, TypeOK, Step
<1>4. step'[p] = "poll" <=> batch'[p] = {}
  BY <1>1, <1>2
<1>5. Holding'
  BY <1>2, <1>4 DEF Holding, Marking
<1> QED
  BY <1>1, <1>2, <1>3, <1>5

(* A mark names the row only, but the row is one the publisher holds: it   *)
(* preserves the inductive invariant, done or lost.                        *)
LEMMA MarkPreserves ==
    ASSUME IInv, NEW p \in Publishers, Mark(p)
    PROVE  IInv'
<1> USE DEF IInv
<1> DEFINE r == current[p]
<1>1. step[p] \in Marking /\ FinishRow(p) /\ UNCHANGED <<attempts, sent, errors>>
  BY DEF Mark, MarkPublished, MarkFailed, MarkLost, Marking
<1>2. /\ r \in Rows
      /\ r \in batch[p]
      /\ batch'[p] = batch[p] \ {r}
      /\ step'[p] \in {"poll", "publish"}
      /\ \A q \in Publishers \ {p} :
            batch'[q] = batch[q] /\ step'[q] = step[q] /\ current'[q] = current[q]
      /\ batch' \in [Publishers -> SUBSET Rows]
      /\ step' \in [Publishers -> Step]
      /\ current' \in [Publishers -> Rows \union {NoRow}]
      /\ Holding'
  BY <1>1, FinishRowKeeps
<1>3. \/ /\ step[p] = "markPublished"
         /\ outbox' = [outbox EXCEPT ![r] = "published"]
         /\ leasedUntil' = [leasedUntil EXCEPT ![r] = "null"]
         /\ orphaned' = orphaned
      \/ /\ step[p] = "markFailed"
         /\ outbox' = [outbox EXCEPT ![r] = "failed"]
         /\ leasedUntil' = [leasedUntil EXCEPT ![r] = "null"]
         /\ orphaned' = orphaned
      \/ /\ orphaned' = orphaned \union {r}
         /\ UNCHANGED <<outbox, leasedUntil>>
  BY DEF Mark, MarkPublished, MarkFailed, MarkLost
<1>4. TypeOK'
  BY <1>1, <1>2, <1>3 DEF TypeOK, RowStatus
<1>5. \A q \in Publishers \ {p} : r \notin batch[q]
  BY <1>2 DEF OneHolder
<1>6. r \notin orphaned /\ outbox[r] = "leased"
  BY <1>2, Leased DEF OneHolder
<1>7. \A e \in Rows \ {r} : outbox'[e] = outbox[e] /\ (e \in orphaned' <=> e \in orphaned)
  BY <1>3 DEF TypeOK
<1>8. \/ step[p] = "markPublished" /\ outbox'[r] = "published" /\ r \notin orphaned'
      \/ step[p] = "markFailed" /\ outbox'[r] = "failed" /\ r \notin orphaned'
      \/ outbox'[r] = "leased" /\ r \in orphaned'
  BY <1>2, <1>3, <1>6 DEF TypeOK
<1>9. OneHolder'
  <2>1. \A q, s \in Publishers : q # s => batch'[q] \intersect batch'[s] = {}
    BY <1>2 DEF OneHolder
  <2>2. \A q \in Publishers : batch'[q] \subseteq Rows \ {r}
    BY <1>2, <1>5 DEF TypeOK
  <2>3. \A q \in Publishers : batch'[q] \intersect orphaned' = {}
    <3>1. \A q \in Publishers : batch'[q] \subseteq batch[q]
      BY <1>2
    <3> QED
      BY <2>2, <3>1, <1>7 DEF OneHolder
  <2>4. ASSUME NEW e \in Rows
        PROVE  outbox'[e] = "leased" <=> e \in orphaned' \union UNION {batch'[q] : q \in Publishers}
    <3>1. CASE e = r
      BY <3>1, <2>2, <1>8
    <3>2. CASE e # r
      <4>1. \A q \in Publishers : e \in batch'[q] <=> e \in batch[q]
        BY <3>2, <1>2
      <4> QED
        BY <3>2, <4>1, <1>7, Leased
    <3> QED
      BY <3>1, <3>2
  <2> QED
    BY <2>1, <2>3, <2>4 DEF OneHolder
<1>10. Counted'
  <2>1. ASSUME NEW e \in Rows
        PROVE  /\ outbox'[e] \in {"absent", "pending"} => Fresh(e)'
               /\ outbox'[e] = "failed" => Failed(e)'
               /\ outbox'[e] = "published" => Accepted(e)'
               /\ sent'[e] <= attempts'[e] /\ attempts'[e] <= errors'[e] + 1
    <3>1. CASE e = r
      <4>1. /\ step[p] = "markPublished" => Accepted(r)
            /\ step[p] = "markFailed" => Failed(r)
            /\ sent[r] <= attempts[r] /\ attempts[r] <= errors[r] + 1
        BY <1>2 DEF Counted
      <4> QED
        BY <3>1, <4>1, <1>1, <1>8 DEF Accepted, Failed
    <3>2. CASE e # r
      BY <3>2, <1>1, <1>7 DEF Counted, Fresh, Failed, Accepted
    <3> QED
      BY <3>1, <3>2
  <2>2. ASSUME NEW q \in Publishers, NEW e \in batch'[q]
        PROVE  /\ step'[q] = "publish" \/ e # current'[q] => Unsent(e)'
               /\ step'[q] = "markPublished" /\ e = current'[q] => Accepted(e)'
               /\ step'[q] = "markFailed" /\ e = current'[q] => Failed(e)'
    <3>1. CASE q = p
      <4>1. e \in batch[p] /\ e # r
        BY <3>1, <1>2
      <4>2. Unsent(e)
        BY <4>1 DEF Counted
      <4> QED
        BY <3>1, <4>2, <1>1, <1>2 DEF Unsent
    <3>2. CASE q # p
      BY <3>2, <1>1, <1>2 DEF Counted, Unsent, Accepted, Failed
    <3> QED
      BY <3>1, <3>2
  <2> QED
    BY <2>1, <2>2 DEF Counted
<1> QED
  BY <1>2, <1>4, <1>9, <1>10

(* A killed publisher leaves its rows leased and orphaned: its crash       *)
(* preserves the inductive invariant.                                      *)
LEMMA CrashPreserves ==
    ASSUME IInv, NEW p \in Publishers, Crash(p)
    PROVE  IInv'
<1> USE DEF IInv
<1>1. /\ orphaned' = orphaned \union batch[p]
      /\ step'[p] = "poll"
      /\ batch'[p] = {}
      /\ \A q \in Publishers \ {p} :
            batch'[q] = batch[q] /\ step'[q] = step[q] /\ current'[q] = current[q]
      /\ UNCHANGED <<outbox, leasedUntil, attempts, sent, errors>>
  BY DEF Crash, TypeOK
<1>2. TypeOK'
  BY DEF Crash, TypeOK, Step
<1>3. OneHolder'
  <2>1. \A q, s \in Publishers : q # s => batch'[q] \intersect batch'[s] = {}
    BY <1>1 DEF OneHolder
  <2>2. \A q \in Publishers : batch'[q] \intersect orphaned' = {}
    BY <1>1 DEF OneHolder
  <2>3. ASSUME NEW e \in Rows
        PROVE  outbox'[e] = "leased" <=> e \in orphaned' \union UNION {batch'[q] : q \in Publishers}
    <3>1. e \in batch[p] \/ (\E q \in Publishers : e \in batch'[q])
             <=> \E q \in Publishers : e \in batch[q]
      BY <1>1
    <3> QED
      BY <3>1, <1>1, Leased
  <2> QED
    BY <2>1, <2>2, <2>3 DEF OneHolder
<1>4. Holding'
  BY <1>1 DEF Holding, Marking
<1>5. Counted'
  BY <1>1 DEF Counted, Fresh, Failed, Accepted, Unsent
<1> QED
  BY <1>2, <1>3, <1>4, <1>5

(* The inductive invariant is inductive.                                   *)
LEMMA NextIInv == IInv /\ [Next]_vars => IInv'
<1> SUFFICES ASSUME IInv, [Next]_vars PROVE IInv'
  OBVIOUS
<1>1. ASSUME NEW e \in Rows, InsertOutboxEvent(e) PROVE IInv'
  BY <1>1, InsertPreserves
<1>2. ASSUME NEW e \in Rows, LeaseExpires(e) PROVE IInv'
  BY <1>2 DEF LeaseExpires, IInv, TypeOK, OneHolder, Holding, Counted,
              Fresh, Failed, Accepted, Unsent
<1>3. ASSUME NEW p \in Publishers, LeasePendingOutbox(p) PROVE IInv'
  BY <1>3, LeasePreserves
<1>4. ASSUME NEW p \in Publishers, Publish(p) PROVE IInv'
  BY <1>4, PublishPreserves DEF Publish
<1>5. ASSUME NEW p \in Publishers, Mark(p) PROVE IInv'
  BY <1>5, MarkPreserves
<1>6. ASSUME NEW p \in Publishers, Crash(p) PROVE IInv'
  BY <1>6, CrashPreserves
<1>7. CASE UNCHANGED vars
  BY <1>7 DEF vars, IInv, TypeOK, OneHolder, Holding, Counted,
              Fresh, Failed, Accepted, Unsent
<1> QED
  BY <1>1, <1>2, <1>3, <1>4, <1>5, <1>6, <1>7 DEF Next

-----------------------------------------------------------------------------
(* The theorems.                                                           *)

(* The inductive invariant holds in every reachable state of the outbox.   *)
THEOREM Invariance == Spec => []IInv
BY InitIInv, NextIInv, PTL DEF Spec

(* Every reachable state of the outbox is well typed.                      *)
THEOREM TypeCorrect == Spec => []TypeOK
<1>1. IInv => TypeOK
  BY DEF IInv
<1> QED
  BY <1>1, Invariance, PTL

(* However many replicas, crashes and lost marks, no two replicas hold one *)
(* row, and a leased row nobody holds is one whose holder died or failed.  *)
THEOREM HoldersAreExclusive == Spec => []OneHolder
<1>1. IInv => OneHolder
  BY DEF IInv
<1> QED
  BY <1>1, Invariance, PTL

(* A row is sent again only after an earlier publish of it returned an     *)
(* error, and a published row was accepted.                                *)
THEOREM ResendsFollowErrors == Spec => []ResentOnlyAfterError
<1>1. IInv => ResentOnlyAfterError
  BY DEF IInv, Counted, Accepted, ResentOnlyAfterError
<1> QED
  BY <1>1, Invariance, PTL

(* A published row stays published: the mark of no other publisher can hit *)
(* it although marks check neither status nor lease.                       *)
THEOREM PublishedForEver == Spec => PublishedIsFinal
<1>1. ASSUME IInv, [Next]_vars PROVE PublishedStays
  <2> SUFFICES ASSUME NEW e \in Rows, outbox[e] = "published" PROVE outbox'[e] = "published"
    BY DEF PublishedStays
  <2>1. ASSUME NEW r \in Rows, InsertOutboxEvent(r) PROVE outbox'[e] = "published"
    BY <1>1, <2>1 DEF InsertOutboxEvent, IInv, TypeOK
  <2>2. ASSUME NEW p \in Publishers, LeasePendingOutbox(p) PROVE outbox'[e] = "published"
    BY <2>2 DEF LeasePendingOutbox, Picked, Leasable
  <2>3. ASSUME NEW p \in Publishers, Mark(p) PROVE outbox'[e] = "published"
    <3>1. step[p] \in Marking
      BY <2>3 DEF Mark, MarkPublished, MarkFailed, MarkLost, Marking
    <3>2. current[p] # e
      BY <1>1, <3>1, Leased DEF IInv, Holding
    <3> QED
      BY <1>1, <2>3, <3>2 DEF Mark, MarkPublished, MarkFailed, MarkLost, IInv, TypeOK
  <2>4. CASE UNCHANGED outbox
    BY <2>4
  <2> QED
    BY <1>1, <2>1, <2>2, <2>3, <2>4
       DEF Next, LeaseExpires, Publish, PublishAccepted, PublishError, Crash, vars
<1>2. IInv /\ [Next]_vars => [PublishedStays]_vars
  BY <1>1
<1> QED
  BY <1>2, Invariance, PTL DEF Spec, PublishedIsFinal
=============================================================================
