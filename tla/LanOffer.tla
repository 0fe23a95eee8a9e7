------------------------------ MODULE LanOffer ------------------------------
(***************************************************************************)
(* Bulk files over HTTP on the same subnet: core/lan_transfer.py (the      *)
(* table of offers), transfer.py 628-783 (the sender's watcher and the     *)
(* receiver's download) and rns_lifecycle.py 1071-1117 (the web handler    *)
(* that serves the bytes).                                                 *)
(*                                                                         *)
(* The sender registers a token, sends it in a packet and starts a watcher *)
(* that polls the table; the receiver asks the sender's web server for the *)
(* bytes.  A file is two chunks.  A token is numbered in the order the     *)
(* tokens are made and stands for everything its offer started: the        *)
(* watcher, the download thread and the web handler.                       *)
(***************************************************************************)
EXTENDS Naturals, FiniteSets

CONSTANTS
  Transfer,   \* transfer ids: a queued file keeps its id when sent again
  NameOf,     \* [Transfer -> the file name it is saved under]
  None,
  MaxTokens,  \* bound: offers made
  MaxFaults   \* bound: expiries, broken connections, lost packets, lost files

VARIABLES
  offers,     \* _offers: [Transfer -> the token of its entry, 0 if none]
  of,         \* [token -> Transfer]; its length is the number of tokens made
  expired,    \* the tokens older than their ttl
  slot,       \* _current_transfer_id
  watch,      \* [token -> the watcher: "look", "gone" (saw no offer) or "off"]
  wire,       \* tokens whose offer packet is on its way
  notices,    \* transfers whose cancel packet is on its way
  cancelled,  \* [side -> _cancelled_transfers]
  fetch,      \* [token -> the download thread: "off", "ask", "read", "eof", "fail"]
  got,        \* [token -> chunks read by the download]
  serve,      \* [token -> the web handler: "off", "send"]
  sent,       \* [token -> chunks written by the handler]
  missing,    \* transfers whose source file was removed
  file,       \* [name -> [chunk -> its writer]] at the receiver
  shown,      \* [side -> [Transfer -> last final status shown, or None]]
  saved,      \* [Transfer -> None, "whole" or "torn": what on_message was given]
  broken,     \* ghost: <<transfer, the fault it met>>
  shared,     \* ghost: names two downloads wrote at the same time
  stuck,      \* ghost: transfers left without a watcher
  spent       \* faults so far

vars == <<offers, of, expired, slot, watch, wire, notices, cancelled, fetch,
          got, serve, sent, missing, file, shown, saved, broken, shared,
          stuck, spent>>

Token == 1..MaxTokens
Side == {"sender", "receiver"}
Made == DOMAIN of
Chunk == 1..2
Empty == [i \in Chunk |-> None]
Name(k) == NameOf[of[k]]
Current(k) == offers[of[k]] = k

Init ==
  /\ offers = [t \in Transfer |-> 0]
  /\ of = [k \in {} |-> None]
  /\ expired = {}
  /\ slot = None
  /\ watch = [k \in Token |-> "off"]
  /\ wire = {} /\ notices = {}
  /\ cancelled = [s \in Side |-> {}]
  /\ fetch = [k \in Token |-> "off"] /\ got = [k \in Token |-> 0]
  /\ serve = [k \in Token |-> "off"] /\ sent = [k \in Token |-> 0]
  /\ missing = {}
  /\ file = [n \in {NameOf[t] : t \in Transfer} |-> Empty]
  /\ shown = [s \in Side |-> [t \in Transfer |-> None]]
  /\ saved = [t \in Transfer |-> None]
  /\ broken = {} /\ shared = {} /\ stuck = {}
  /\ spent = 0

\* pop_offer: the entry goes only when it still holds this token.
Popped(k) == IF Current(k) THEN [offers EXCEPT ![of[k]] = 0] ELSE offers

Cleared(t) == IF slot = t THEN None ELSE slot

Show(side, t, status) == shown' = [shown EXCEPT ![side][t] = status]

(***************************************************************************)
(* The sender                                                              *)
(***************************************************************************)

\* send_file waits for the slot, takes it and registers the offer; a second
\* send of the same id replaces the token of the first.
Register(t, k) ==
  /\ slot = None
  /\ k = Cardinality(Made) + 1 /\ k \in Token
  /\ of' = [i \in Made \cup {k} |-> IF i = k THEN t ELSE of[i]]
  /\ offers' = [offers EXCEPT ![t] = k]
  /\ slot' = t

Offer(t) == \E k \in Token :
  /\ Register(t, k)
  /\ wire' = wire \cup {k}
  /\ watch' = [watch EXCEPT ![k] = "look"]
  /\ UNCHANGED <<expired, notices, cancelled, fetch, got, serve, sent, missing,
                 file, shown, saved, broken, shared, stuck, spent>>

\* packet.send() raises: "failed" is shown, no watcher starts, and the slot
\* and the entry of the table stay.
OfferFails(t) == \E k \in Token :
  /\ spent < MaxFaults
  /\ Register(t, k)
  /\ Show("sender", t, "failed")
  /\ stuck' = stuck \cup {t}
  /\ spent' = spent + 1
  /\ UNCHANGED <<expired, watch, wire, notices, cancelled, fetch, got, serve,
                 sent, missing, file, saved, broken, shared>>

\* One poll of _watch_lan_http_send: a cancelled transfer takes its offer
\* away and ends the watcher.
WatchCancelled(k) ==
  /\ watch[k] = "look" /\ of[k] \in cancelled["sender"]
  /\ offers' = [offers EXCEPT ![of[k]] = 0]
  /\ watch' = [watch EXCEPT ![k] = "off"]
  /\ Show("sender", of[k], "cancelled")
  /\ slot' = Cleared(of[k])
  /\ UNCHANGED <<of, expired, wire, notices, cancelled, fetch, got, serve, sent,
                 missing, file, saved, broken, shared, stuck, spent>>

\* get_offer_state: no entry, or one past its time, which is dropped.
WatchSeesNone(k) ==
  /\ watch[k] = "look" /\ of[k] \notin cancelled["sender"]
  /\ offers[of[k]] = 0 \/ offers[of[k]] \in expired
  /\ offers' = [offers EXCEPT ![of[k]] = 0]
  /\ watch' = [watch EXCEPT ![k] = "gone"]
  /\ UNCHANGED <<of, expired, slot, wire, notices, cancelled, fetch, got, serve,
                 sent, missing, file, shown, saved, broken, shared, stuck, spent>>

\* (mutant) the watcher ends without giving the slot back
WatchReportsOnly(k) ==
  /\ watch[k] = "gone"
  /\ watch' = [watch EXCEPT ![k] = "off"]
  /\ Show("sender", of[k], "complete")
  /\ UNCHANGED <<offers, of, expired, slot, wire, notices, cancelled, fetch, got,
                 serve, sent, missing, file, saved, broken, shared, stuck, spent>>

WatchReports(k) ==
  /\ watch[k] = "gone"
  /\ watch' = [watch EXCEPT ![k] = "off"]
  /\ Show("sender", of[k], "complete")
  /\ slot' = Cleared(of[k])
  /\ UNCHANGED <<offers, of, expired, wire, notices, cancelled, fetch, got,
                 serve, sent, missing, file, saved, broken, shared, stuck, spent>>

\* The watcher's own deadline passes between two polls: the loop ends with no
\* report and the slot stays taken.
WatchQuits(k) ==
  /\ watch[k] = "look" /\ k \in expired
  /\ watch' = [watch EXCEPT ![k] = "off"]
  /\ stuck' = stuck \cup {of[k]}
  /\ UNCHANGED <<offers, of, expired, slot, wire, notices, cancelled, fetch, got,
                 serve, sent, missing, file, shown, saved, broken, shared, spent>>

\* cancel_transfer from the web page, and the notice to the peer.
Cancel(t) ==
  /\ \E k \in Made : of[k] = t
  /\ t \notin cancelled["sender"]
  /\ cancelled' = [cancelled EXCEPT !["sender"] = @ \cup {t}]
  /\ notices' = notices \cup {t}
  /\ Show("sender", t, "cancelled")
  /\ slot' = Cleared(t)
  /\ UNCHANGED <<offers, of, expired, watch, wire, fetch, got, serve, sent,
                 missing, file, saved, broken, shared, stuck, spent>>

(***************************************************************************)
(* The receiver                                                            *)
(***************************************************************************)

\* MESSAGE_TYPE_TRANSFER_CANCEL: the id is noted; only resources are aborted,
\* a download over HTTP is not one.
NoticeArrives(t) ==
  /\ t \in notices
  /\ notices' = notices \ {t}
  /\ cancelled' = [cancelled EXCEPT !["receiver"] = @ \cup {t}]
  /\ UNCHANGED <<offers, of, expired, slot, watch, wire, fetch, got, serve, sent,
                 missing, file, shown, saved, broken, shared, stuck, spent>>

OfferArrives(k) ==
  /\ k \in wire
  /\ wire' = wire \ {k}
  /\ fetch' = [fetch EXCEPT ![k] = "ask"]
  /\ UNCHANGED <<offers, of, expired, slot, watch, notices, cancelled, got, serve,
                 sent, missing, file, shown, saved, broken, shared, stuck, spent>>

\* (mutant) the handler takes the offer away when it starts
PeekedPops(k) == Popped(k)

\* peek_offer and the source file are there: what the handler does to the
\* table before it sends the first byte.
Peeked(k) == offers

AskAccepted(k) ==
  /\ fetch[k] = "ask" /\ Current(k) /\ k \notin expired /\ of[k] \notin missing
  /\ offers' = Peeked(k)
  /\ serve' = [serve EXCEPT ![k] = "send"]
  /\ fetch' = [fetch EXCEPT ![k] = "read"]
  /\ file' = [file EXCEPT ![Name(k)] = Empty]     \* open(.., "wb")
  /\ shared' = IF \E j \in Made \ {k} : Name(j) = Name(k) /\ fetch[j] \in {"read", "eof"}
               THEN shared \cup {Name(k)} ELSE shared
  /\ UNCHANGED <<of, expired, slot, watch, wire, notices, cancelled, got, sent,
                 missing, shown, saved, broken, stuck, spent>>

\* 404: another token, an expired offer (dropped) or a missing file (dropped);
\* the other scheme is tried and finds no server.
AskRefused(k) ==
  /\ fetch[k] = "ask"
  /\ ~Current(k) \/ k \in expired \/ of[k] \in missing
  /\ offers' = Popped(k)
  /\ fetch' = [fetch EXCEPT ![k] = "fail"]
  /\ UNCHANGED <<of, expired, slot, watch, wire, notices, cancelled, got, serve,
                 sent, missing, file, shown, saved, broken, shared, stuck, spent>>

ServeChunk(k) ==
  /\ serve[k] = "send" /\ sent[k] < 2
  /\ sent' = [sent EXCEPT ![k] = @ + 1]
  /\ UNCHANGED <<offers, of, expired, slot, watch, wire, notices, cancelled, fetch,
                 got, serve, missing, file, shown, saved, broken, shared, stuck, spent>>

ServeEnd(k) ==
  /\ serve[k] = "send" /\ sent[k] = 2
  /\ serve' = [serve EXCEPT ![k] = "off"]
  /\ offers' = Popped(k)
  /\ UNCHANGED <<of, expired, slot, watch, wire, notices, cancelled, fetch, got,
                 sent, missing, file, shown, saved, broken, shared, stuck, spent>>

ReadChunk(k) ==
  /\ fetch[k] = "read" /\ got[k] < sent[k]
  /\ got' = [got EXCEPT ![k] = @ + 1]
  /\ file' = [file EXCEPT ![Name(k)][got[k] + 1] = of[k]]
  /\ UNCHANGED <<offers, of, expired, slot, watch, wire, notices, cancelled, fetch,
                 serve, sent, missing, shown, saved, broken, shared, stuck, spent>>

\* resp.read returns nothing: the last chunk was read.
Finished(k) == serve[k] = "off" /\ got[k] = sent[k]

ReadEnd(k) ==
  /\ fetch[k] = "read" /\ Finished(k)
  /\ fetch' = [fetch EXCEPT ![k] = "eof"]
  /\ UNCHANGED <<offers, of, expired, slot, watch, wire, notices, cancelled, got,
                 serve, sent, missing, file, shown, saved, broken, shared, stuck, spent>>

\* "complete" and on_message, whatever the number of bytes read and whether
\* or not the transfer was cancelled meanwhile.
Save(k) ==
  /\ fetch[k] = "eof"
  /\ fetch' = [fetch EXCEPT ![k] = "off"]
  /\ Show("receiver", of[k], "complete")
  /\ saved' = [saved EXCEPT ![of[k]] =
                 IF \A i \in Chunk : file[Name(k)][i] = of[k] THEN "whole" ELSE "torn"]
  /\ UNCHANGED <<offers, of, expired, slot, watch, wire, notices, cancelled, got,
                 serve, sent, missing, file, broken, shared, stuck, spent>>

Fail(k) ==
  /\ fetch[k] = "fail"
  /\ fetch' = [fetch EXCEPT ![k] = "off"]
  /\ Show("receiver", of[k], "failed")
  /\ UNCHANGED <<offers, of, expired, slot, watch, wire, notices, cancelled, got,
                 serve, sent, missing, file, saved, broken, shared, stuck, spent>>

(***************************************************************************)
(* Faults                                                                  *)
(***************************************************************************)

Fault(t, kind) ==
  /\ spent < MaxFaults
  /\ spent' = spent + 1
  /\ broken' = broken \cup {<<t, kind>>}

Expire(k) ==
  /\ Fault(of[k], "expired")
  /\ Current(k) /\ k \notin expired
  /\ expired' = expired \cup {k}
  /\ UNCHANGED <<offers, of, slot, watch, wire, notices, cancelled, fetch, got,
                 serve, sent, missing, file, shown, saved, shared, stuck>>

\* The connection ends in the middle.  The handler pops the offer; read(n)
\* returns nothing at an early end of the stream, or raises.
Cut(k) ==
  /\ Fault(of[k], "cut")
  /\ fetch[k] = "read" /\ ~(serve[k] = "off" /\ got[k] = sent[k])
  /\ offers' = Popped(k)
  /\ serve' = [serve EXCEPT ![k] = "off"]
  /\ \E end \in {"eof", "fail"} : fetch' = [fetch EXCEPT ![k] = end]
  /\ UNCHANGED <<of, expired, slot, watch, wire, notices, cancelled, got, sent,
                 missing, file, shown, saved, shared, stuck>>

LosePacket(k) ==
  /\ Fault(of[k], "lost")
  /\ k \in wire
  /\ wire' = wire \ {k}
  /\ UNCHANGED <<offers, of, expired, slot, watch, notices, cancelled, fetch, got,
                 serve, sent, missing, file, shown, saved, shared, stuck>>

RemoveSource(t) ==
  /\ Fault(t, "missing")
  /\ t \notin missing
  /\ missing' = missing \cup {t}
  /\ UNCHANGED <<offers, of, expired, slot, watch, wire, notices, cancelled, fetch,
                 got, serve, sent, file, shown, saved, shared, stuck>>

Next ==
  \/ \E t \in Transfer : \/ Offer(t) \/ OfferFails(t) \/ Cancel(t)
                         \/ NoticeArrives(t) \/ RemoveSource(t)
  \/ \E k \in Made : \/ WatchCancelled(k) \/ WatchSeesNone(k) \/ WatchReports(k)
                     \/ WatchQuits(k) \/ OfferArrives(k) \/ AskAccepted(k)
                     \/ AskRefused(k) \/ ServeChunk(k) \/ ServeEnd(k)
                     \/ ReadChunk(k) \/ ReadEnd(k) \/ Save(k) \/ Fail(k)
                     \/ Expire(k) \/ Cut(k) \/ LosePacket(k)

Spec == Init /\ [][Next]_vars

-----------------------------------------------------------------------------
TypeOK ==
  /\ offers \in [Transfer -> 0..MaxTokens]
  /\ Made = 1..Cardinality(Made) /\ \A k \in Made : of[k] \in Transfer
  /\ slot \in Transfer \cup {None}
  /\ \A k \in Token : /\ watch[k] \in {"off", "look", "gone"}
                      /\ fetch[k] \in {"off", "ask", "read", "eof", "fail"}
                      /\ got[k] \in 0..sent[k] /\ sent[k] \in 0..2
  /\ \A t \in Transfer : offers[t] \in {0} \cup {k \in Made : of[k] = t}

(* "complete" at the sender (transfer.py:640) means that every byte was      *)
(* handed to a connection, unless the offer expired, its file went or the    *)
(* connection broke: the watcher only sees that the offer vanished.          *)
CompleteWasServed == \A t \in Transfer :
  shown["sender"][t] = "complete" =>
    \/ \E f \in {"expired", "cut", "missing"} : <<t, f>> \in broken
    \/ \E k \in Made : of[k] = t /\ sent[k] = 2

(* A file given to the chat (transfer.py:763-773) is whole, unless its       *)
(* connection broke or another download wrote the same name meanwhile.       *)
SavedWhole == \A t \in Transfer :
  saved[t] = "torn" => <<t, "cut">> \in broken \/ NameOf[t] \in shared

(* What the sender calls complete was sent, and what the receiver shows in   *)
(* its chat is what was served.                                              *)
ServedIsSaved == CompleteWasServed /\ SavedWhole

(* The send slot is never held by a transfer nobody watches, so that the     *)
(* next file can go, except after a packet that could not be sent or a       *)
(* watcher that met its deadline (transfer.py:628-650).                      *)
SlotWatched == slot # None =>
  slot \in stuck \/ \E k \in Made : of[k] = slot /\ watch[k] # "off"

=============================================================================
