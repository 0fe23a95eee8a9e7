------------------------------ MODULE Exchange ------------------------------
(* What goes on between nodes and between servers of one machine: the hub     *)
(* group, files over HTTP, two nodes that dial each other, shared folders,    *)
(* starts and stops.  The components share no state; each behaviour is one of *)
(* one component.                                                             *)
EXTENDS Naturals

CONSTANTS
  Client, Msg, AuthorOf, Thread, HubServer, Unknown,
  MaxSends, HubMaxLinks, HubMaxFaults, MaxSyncs,   \* HubGroup
  Transfer, NameOf, MaxTokens, OfferMaxFaults,   \* LanOffer
  DialNode, DialMaxLinks, MaxTries, MaxUser, DialMaxFaults,   \* DialPair
  Session, Upload, Download, SizeOf, Ttl, MaxTime,
  MaxOpens, MaxAsks, ShareMaxFaults,   \* ShareSession
  LifeServer, Forced, MaxStops,   \* Lifecycle
  None

\* The hub server is not its own client.
ASSUME ServerAssumption == HubServer \notin Client
\* An upload has a number of chunks.
ASSUME SizeAssumption == SizeOf \in [Upload -> Nat]
\* Tokens are numbered; what a transfer shows is told from "nothing yet".
ASSUME TokenAssumption == MaxTokens \in Nat
ASSUME ShownAssumption == None \notin {"complete", "torn"}
\* Two nodes dial each other.
ASSUME PairAssumption == \E a, b \in DialNode : a # b /\ DialNode = {a, b}

VARIABLES
  which,   \* the component this behaviour is about
  linked, hub_known, rows, queue, drain, hub_wire, relays, sync, clock,
  hub_spent, lost, raced, offer_offers, of, expired, slot, watch, offer_wire,
  notices, cancelled, fetch, got, serve, sent, missing, file, offer_shown,
  saved, broken, shared, stuck, offer_spent, caller, end, dial_wire,
  dial_known, links, cached, listed, active, session, task, waiting,
  dial_asked, told, crossed, dial_left, dial_spent, sessions, writable,
  share_offers, now, objects, dialog, share_shown, asks, share_asked,
  overtaken, files, share_up, down, disturbed, faults, main, worker, job,
  shutting, cleaning, has, life_up, again, targets, term, foreign, last,
  life_left, overlap, late

Hub == INSTANCE HubGroup WITH
  Server <- HubServer, MaxLinks <- HubMaxLinks, MaxFaults <- HubMaxFaults,
  known <- hub_known, wire <- hub_wire, spent <- hub_spent
Offer == INSTANCE LanOffer WITH
  MaxFaults <- OfferMaxFaults, offers <- offer_offers, wire <- offer_wire,
  shown <- offer_shown, spent <- offer_spent
Dial == INSTANCE DialPair WITH
  Node <- DialNode, MaxLinks <- DialMaxLinks, MaxFaults <- DialMaxFaults, wire <- dial_wire,
  known <- dial_known, asked <- dial_asked, left <- dial_left,
  spent <- dial_spent
Share == INSTANCE ShareSession WITH
  MaxFaults <- ShareMaxFaults, offers <- share_offers, shown <- share_shown,
  asked <- share_asked, up <- share_up
Life == INSTANCE Lifecycle WITH
  Server <- LifeServer, up <- life_up, left <- life_left

Init ==
  /\ which \in {"Hub", "Offer", "Dial", "Share", "Life"}
  /\ Hub!Init
  /\ Offer!Init
  /\ Dial!Init
  /\ Share!Init
  /\ Life!Init
  /\ which # "Life" => ~foreign

\* One component moves, the others stay as they started.
HubMoves == which = "Hub" /\ Hub!Next
OfferMoves == which = "Offer" /\ Offer!Next
DialMoves == which = "Dial" /\ Dial!Next
ShareMoves == which = "Share" /\ Share!Next
LifeMoves == which = "Life" /\ Life!Next

HubVars == <<linked, hub_known, rows, queue, drain, hub_wire, relays, sync, clock,
  hub_spent, lost, raced>>
OfferVars == <<offer_offers, of, expired, slot, watch, offer_wire, notices, cancelled,
  fetch, got, serve, sent, missing, file, offer_shown, saved, broken,
  shared, stuck, offer_spent>>
DialVars == <<caller, end, dial_wire, dial_known, links, cached, listed, active,
  session, task, waiting, dial_asked, told, crossed, dial_left,
  dial_spent>>
ShareVars == <<sessions, writable, share_offers, now, objects, dialog, share_shown,
  asks, share_asked, overtaken, files, share_up, down, disturbed, faults>>
LifeVars == <<main, worker, job, shutting, cleaning, has, life_up, again, targets,
  term, foreign, last, life_left, overlap, late>>
vars == <<which, HubVars, OfferVars, DialVars, ShareVars, LifeVars>>

Next ==
  \/ HubMoves /\ UNCHANGED <<which, OfferVars, DialVars, ShareVars, LifeVars>>
  \/ OfferMoves /\ UNCHANGED <<which, HubVars, DialVars, ShareVars, LifeVars>>
  \/ DialMoves /\ UNCHANGED <<which, HubVars, OfferVars, ShareVars, LifeVars>>
  \/ ShareMoves /\ UNCHANGED <<which, HubVars, OfferVars, DialVars, LifeVars>>
  \/ LifeMoves /\ UNCHANGED <<which, HubVars, OfferVars, DialVars, ShareVars>>

Spec == Init /\ [][Next]_vars

\* The variables of the component that moves have their types.
TypeOK ==
  /\ which = "Hub" => Hub!TypeOK
  /\ which = "Offer" => Offer!TypeOK
  /\ which = "Dial" => Dial!TypeOK
  /\ which = "Share" => Share!TypeOK
  /\ which = "Life" => Life!TypeOK

\* A client that stayed linked and identified from the moment the server got a
\* text until its relay loop ended has the text, has it in flight, or lost the
\* packet: no other client's coming and going makes the loop skip it
\* (relay_hub_message, hub.py:660).
SteadyHears == which = "Hub" => Hub!SteadyHears

\* Nothing drops a text that is already shown, so that a client shows it twice
\* if it was sent twice (two drains at once) or a copy was on its way when the
\* client synchronised; in every other case the filter of the merge suffices.
TwiceNeedsOverlap == which = "Hub" => Hub!TwiceNeedsOverlap

(* What the sender calls complete was sent, and what the receiver shows in   *)
(* its chat is what was served.                                              *)
ServedIsSaved == which = "Offer" => Offer!ServedIsSaved

(* The send slot is never held by a transfer nobody watches, so that the     *)
(* next file can go, except after a packet that could not be sent or a       *)
(* watcher that met its deadline (transfer.py:628-650).                      *)
SlotWatched == which = "Offer" => Offer!SlotWatched

(* A link open at both ends is heard at both, unless a node left it as the   *)
(* attempt it no longer needed (connect.py:601): with no packet lost, no     *)
(* other order of dials and callbacks makes a node deaf on an open link.     *)
DeafNeedsLeft == which = "Dial" => Dial!DeafNeedsLeft

(* A connect that reported success leaves the nodes linked, unless both      *)
(* dialled at the same time: then each may refuse the link the other keeps   *)
(* (inbound_callbacks.py:108-151).                                           *)
LinkedAfterConnect == which = "Dial" => Dial!LinkedAfterConnect

\* Once no answer is on its way, the folder the dialog lists is the one an upload
\* would go to, unless an answer came back after a later listing was asked for.
ListedIsTarget == which = "Share" => Share!ListedIsTarget

\* What was downloaded, and what stays when the uploads have ended, is the whole
\* of one upload, unless one broke off or met another access to the same file.
MixNeedsOverlap == which = "Share" => Share!MixNeedsOverlap

\* When a server has said that its ports are released, nothing of it runs on,
\* unless an executor thread was still starting things at the last teardown.
ReleasedIsDown == which = "Life" => Life!ReleasedIsDown

\* A launch takes over: when every process has come to rest, the latest one that
\* the user has not stopped serves, its network is up unless another program has
\* the port, and no other server is left - unless two were starting at once,
\* which stop each other.
LastTakesOver == which = "Life" => Life!LastTakesOver
======================================================================
