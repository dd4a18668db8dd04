-------------------------------- MODULE Queues --------------------------------
(***************************************************************************)
(* The two bounded queues nothing else of Admin is needed to watch: a      *)
(* worker lane (lanes/mod.rs), and a topic's notices (session/topics.rs).  *)
(* A behaviour is one of them; the other stays as it began.                *)
(***************************************************************************)
EXTENDS Lane

CONSTANTS Changer,     \* tasks that change the topic's state
          Page,        \* pages, each with one session socket at a time
          MaxChanges,  \* bound: changes made in all
          MaxReopens,  \* bound: sockets a page opens after its first
          Limit        \* the frames a socket's queue holds before it overflows

ASSUME QueuesAssumption == IsFiniteSet(Changer) /\ {MaxChanges, MaxReopens, Limit} \subseteq Nat

VARIABLES
  part, \* which of the two this behaviour is of
  topic, revision, change, listening, subscribed, closed, frames, call, page, reopens

T == INSTANCE Topics WITH state <- topic, queue <- frames

topicVars == <<topic, revision, change, listening, subscribed, closed, frames, call, page, reopens>>
allVars == <<part, vars, topicVars>>

QueuesInit == part \in {"lane", "topic"} /\ Init /\ T!Init

QueuesNext ==
  \/ part = "lane" /\ Next /\ UNCHANGED <<part, topicVars>>
  \/ part = "topic" /\ T!Next /\ UNCHANGED <<part, vars>>

QueuesSpec ==
  /\ QueuesInit /\ [][QueuesNext]_allVars
  /\ part = "lane" => Fairness
  /\ part = "topic" => T!Fairness

(* Permits and notices are counted, and no value is taken for newer than   *)
(* it is.                                                                  *)
QueuesCounted == PermitsHeld /\ T!TypeOK /\ T!NeverAhead

(* What Topics states of its pages.                                        *)
PagesCatchUp == T!PagesCatchUp
=============================================================================
