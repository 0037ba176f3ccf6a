---------------------------- MODULE Certification ----------------------------
(***************************************************************************)
(* What a certification run may conclude about the delivery of events.     *)
(* scripts/aws-cert-wait-queues-drained.sh looks at one queue after        *)
(* another while the services run; the certifier looks at the database     *)
(* some time after the script has ended.                                   *)
(***************************************************************************)
EXTENDS Delivery, CertificationAdmission

VARIABLES
    looked,  \* the queues that this pass of the script found empty
    late     \* history: messages that came to a source queue after the look at it

cvars == <<dvars, looked, late>>

CInit == DInit /\ looked = {} /\ late = {}

-----------------------------------------------------------------------------
(* Visible, in-flight and delayed messages of a consumer's source queue,   *)
(* or the messages of its dead-letter queue.                               *)
QueueTotal(c, kind) ==
    {m \in Message :
        /\ m.consumer = c
        /\ \/ kind = "source" /\ queue[m] \in {"visible"} \union Services
           \/ kind = "dlq" /\ queue[m] = "dead"}

(* Mutant: the queues are looked at in whatever order.                     *)
NextQueueAny(c, kind) == <<c, kind>> \notin looked

(* The list of the pass: the source queues, then the dead-letter queues.   *)
NextQueue(c, kind) ==
    /\ <<c, kind>> \notin looked
    /\ kind = "dlq" => Consumers \X {"source"} \subseteq looked

FoundEmpty(c, kind) ==
    /\ NextQueue(c, kind)
    /\ QueueTotal(c, kind) = {}
    /\ looked' = looked \union {<<c, kind>>}
    /\ UNCHANGED <<dvars, late>>

(* Nothing else that this pass finds counts: sleep, and begin another.     *)
FoundWaiting(c, kind) ==
    /\ NextQueue(c, kind)
    /\ QueueTotal(c, kind) # {}
    /\ looked' = {}
    /\ late' = {}
    /\ UNCHANGED dvars

Look == \E c \in Consumers, kind \in {"source", "dlq"} :
            FoundEmpty(c, kind) \/ FoundWaiting(c, kind)

(* Meanwhile the system goes on.                                           *)
Arriving ==
    {m \in Message : queue[m] = "absent" /\ queue'[m] # "absent"
                     /\ <<m.consumer, "source">> \in looked}

System == DNext /\ late' = late \union Arriving /\ UNCHANGED looked

CNext == System \/ Look

CSpec == CInit /\ [][CNext]_cvars /\ DFairness

-----------------------------------------------------------------------------
(* A total of 0: the script exits with 0, and does not look again.         *)
Drained == looked = Consumers \X {"source", "dlq"}

(* outbox_has_no_stale_unpublished_events of the certifier, one query.     *)
NoStaleUnpublished ==
    \A e \in aged : outbox[e] \notin {"pending", "leased", "failed"}

(***************************************************************************)
(* A campaign asked for before the first event is admitted exactly when it *)
(* can be carried out.  The arithmetic reads nothing of the delivery, and  *)
(* is the same in every other state.                                       *)
(***************************************************************************)
BeforeCampaign == \A e \in Rows : outbox[e] = "absent"

CampaignAdmission == BeforeCampaign => AdmissionExact

(***************************************************************************)
(* What the two gates are worth, the certifier run at any time after the   *)
(* script: an event older than five minutes was published, and was taken   *)
(* by every consumer -- or a copy of it is still between the topic and the *)
(* queue, or came to the queue after the script had looked there.  That    *)
(* nothing escapes into a dead-letter queue rests on the order of looks.   *)
(***************************************************************************)
Overlooked(c, e) ==
    \E m \in Of(c, e) : m \in late \/ (queue[m] = "absent" /\ m.copy <= sent[e])

CertifiedMeansTaken ==
    Drained /\ NoStaleUnpublished =>
        \A e \in aged :
            /\ outbox[e] = "published"
            /\ \A c \in Consumers : Recorded(c, e) \/ Overlooked(c, e)

(***************************************************************************)
(* One row whose publisher died, or could not mark it, and no later run of *)
(* the certifier on the database can pass: the row stays as it is.         *)
(***************************************************************************)
Stuck(e) == e \in orphaned /\ e \in aged /\ outbox[e] = "leased"

OrphanFailsEveryRun ==
    [][\A e \in Rows : Stuck(e) => Stuck(e)' /\ ~ NoStaleUnpublished']_cvars
=============================================================================
