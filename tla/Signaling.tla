------------------------------- MODULE Signaling -------------------------------
(***************************************************************************)
(* What the two ends of a session share: the /sessions/{id} node and the   *)
(* /inbox/{ownerUid}/{id} entry of the Realtime Database, with the part of *)
(* the security rules that decides whether a write is applied, and the     *)
(* peer-to-peer link the two of them negotiate over it.                    *)
(*                                                                         *)
(* A request r stands for one session id.  Of the node only the status and *)
(* the two descriptions are kept: who wrote them is fixed by the rules, the*)
(* SDP text and the ICE candidates do not change the life cycle.           *)
(***************************************************************************)
EXTENDS FiniteSets

CONSTANT Requests        \* the session ids viewers allocate

VARIABLES
  status,   \* status[r]: the node's status, or "absent" when there is no node
  posted,   \* posted[r]: which of the descriptions the node holds
  inbox,    \* the requests with an entry in the host's inbox
  link      \* link[r]: the peer-to-peer connection between the two ends

sharedVars == <<status, posted, inbox, link>>

\* The values the rules accept for status.
Statuses == {"waiting", "connecting", "connected", "ended"}

SharedTypeOK ==
  /\ status \in [Requests -> Statuses \cup {"absent"}]
  /\ posted \in [Requests -> SUBSET {"offer", "answer"}]
  /\ inbox \subseteq Requests
  /\ link \in [Requests -> {"new", "up", "lost"}]

SharedInit ==
  /\ status = [r \in Requests |-> "absent"]
  /\ posted = [r \in Requests |-> {}]
  /\ inbox = {}
  /\ link = [r \in Requests |-> "new"]

-----------------------------------------------------------------------------

\* A write of one child of the node.  The rules require the node to have its
\* four fields after the write, so a child cannot be written where there is no
\* node: a late write never brings a deleted session back.
Writable(r) == status[r] # "absent"

\* A fault: rules that accept a session node without its four fields.
PutStatusAnywhere(r, s) == status' = [status EXCEPT ![r] = s]

PutStatus(r, s) ==
  status' = IF Writable(r) THEN [status EXCEPT ![r] = s] ELSE status

\* A best-effort status write: applied, or lost with its error ignored.
TrySetStatus(r, s) == PutStatus(r, s) \/ UNCHANGED status

\* The viewer's one multi-path update: the session and its inbox entry appear
\* together.
CreateNodes(r) ==
  /\ status' = [status EXCEPT ![r] = "waiting"]
  /\ inbox' = inbox \cup {r}
  /\ UNCHANGED posted

\* Deleting takes the descriptions along, and deleting an absent node is
\* allowed (and changes nothing).
DeleteNode(r) ==
  /\ status' = [status EXCEPT ![r] = "absent"]
  /\ posted' = [posted EXCEPT ![r] = {}]

DeleteEntry(r) == inbox' = inbox \ {r}

\* One end closes its peer connection, or its process ends: the link never
\* comes up again.
Cut(r) == link' = [link EXCEPT ![r] = "lost"]

\* The network between the two ends breaks.
LinkBreaks(r) ==
  /\ link[r] = "up"
  /\ Cut(r)
  /\ UNCHANGED <<status, posted, inbox>>
=============================================================================
