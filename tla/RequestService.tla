--------------------------- MODULE RequestService ---------------------------
(***************************************************************************)
(* What optiserver promises its clients, whatever happens inside it: a     *)
(* client that was accepted gets one reply and then sees its connection    *)
(* closed; a client the server has no room for is turned away, and a       *)
(* client is never dropped in any other way.                               *)
(***************************************************************************)
CONSTANTS
  Clients,   (* the clients                                                *)
  Replies,   (* what a client may be answered                              *)
  NoAnswer,  (* the value of answer before there is one                    *)
  MayRefuse  (* whether the server may run out of room                     *)

VARIABLES client, answer
svars == <<client, answer>>

ServiceTypeOK ==
  /\ client \in [Clients -> {"away", "accepted", "answered", "closed", "refused"}]
  /\ answer \in [Clients -> Replies \cup {NoAnswer}]

ServiceInit ==
  /\ client = [c \in Clients |-> "away"]
  /\ answer = [c \in Clients |-> NoAnswer]

Moves(c, from, to) == client[c] = from /\ client' = [client EXCEPT ![c] = to]

Accept(c) == Moves(c, "away", "accepted") /\ UNCHANGED answer
Answer(c) ==
  /\ Moves(c, "accepted", "answered")
  /\ \E r \in Replies : answer' = [answer EXCEPT ![c] = r]
Close(c)  == Moves(c, "answered", "closed") /\ UNCHANGED answer
Refuse(c) == MayRefuse /\ Moves(c, "accepted", "refused") /\ UNCHANGED answer

ServiceNext == \E c \in Clients : Accept(c) \/ Answer(c) \/ Close(c) \/ Refuse(c)

Service == ServiceInit /\ [][ServiceNext]_svars

(* A client that was let in is answered and let go (or turned away).       *)
FairService ==
  Service /\ \A c \in Clients : WF_svars(Answer(c)) /\ WF_svars(Close(c))
=============================================================================
