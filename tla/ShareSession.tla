---------------------------- MODULE ShareSession ----------------------------
(* A shared folder: the owner keeps a session for two hours, in memory, and   *)
(* offers it in a chat; a viewer opens the offer, browses, downloads and      *)
(* uploads through its own server.  Answers may come in any order, uploads    *)
(* and downloads of one file overlap, the owner may restart.  A file is a     *)
(* sequence of chunks, each named after the upload that wrote it.             *)
EXTENDS Naturals, Sequences

CONSTANTS
  Session, Upload, Download, None,
  SizeOf,     \* chunks of each upload
  Ttl,        \* SHARE_SESSION_TTL_S
  MaxTime,
  MaxOpens,   \* times the viewer opens the dialog
  MaxAsks,    \* listings it asks for
  MaxFaults   \* restarts of the owner and broken connections

VARIABLES
  sessions,   \* _share_sessions: when each was made, None when it is not there
  writable,   \* of each session
  offers,     \* none, queued or sent by the owner, here on the viewer's side
  now,
  objects,    \* the _shareSession objects the dialog made, with their path
  dialog,     \* the one that is open, 0 when none is
  shown,      \* what the dialog lists: the object and the path, or a text
  asks,       \* listings under way: number, object, path, state
  asked,
  overtaken,  \* an older answer was shown after a younger one was asked for
  files,      \* the file of each folder
  up,         \* uploads: state, session, folder, chunks written
  down,       \* downloads: state, folder, size when opened, what was read
  disturbed,  \* an upload broke off, or met another upload or a download
  faults

vars == <<sessions, writable, offers, now, objects, dialog, shown, asks, asked,
          overtaken, files, up, down, disturbed, faults>>

Dir == {"top", "sub"}
Text == [obj |-> 0, path |-> "text"]
Chunk == Upload \union {"hole"}
Chunks == UNION {[1 .. n -> Chunk] : n \in 0 .. 2}
IdleUp == [pc |-> "idle", sess |-> None, dir |-> "top", written |-> 0]
IdleDown == [pc |-> "idle", sess |-> None, dir |-> "top", size |-> 0, got |-> <<>>]

TypeOK ==
  /\ sessions \in [Session -> 0 .. MaxTime \union {None}]
  /\ writable \in [Session -> BOOLEAN]
  /\ offers \in [Session -> {"none", "sent", "queued", "here"}]
  /\ now \in 0 .. MaxTime
  /\ \A i \in DOMAIN objects : objects[i].sess \in Session /\ objects[i].path \in Dir
  /\ Len(objects) <= MaxOpens /\ dialog \in 0 .. Len(objects)
  /\ shown.obj \in 0 .. Len(objects) /\ shown.path \in Dir \union {"text"}
  /\ \A a \in asks : /\ a.n \in 1 .. asked /\ a.obj \in 1 .. Len(objects) /\ a.path \in Dir
                     /\ a.pc \in {"asked", "listed", "failed"}
  /\ asked \in 0 .. MaxAsks /\ overtaken \in BOOLEAN
  /\ files \in [Dir -> Chunks \union {None}]
  /\ up \in [Upload -> [pc : {"idle", "sent", "taken", "writing", "done", "failed"},
                        sess : Session \union {None}, dir : Dir, written : 0 .. 2]]
  /\ down \in [Download -> [pc : {"idle", "sent", "reading", "done", "failed"},
                            sess : Session \union {None}, dir : Dir, size : 0 .. 2, got : Chunks]]
  /\ disturbed \in BOOLEAN
  /\ faults \in 0 .. MaxFaults

-----------------------------------------------------------------------------
(* The owner's sessions                                                       *)

Owner == <<sessions, writable, offers>>
Viewer == <<objects, dialog, shown, asks, asked, overtaken>>
Disk == <<files, up, down, disturbed>>

Expired(s) == sessions[s] # None /\ sessions[s] + Ttl < now

\* _prune_share_sessions.
Pruned == [s \in Session |-> IF Expired(s) THEN None ELSE sessions[s]]

\* _share_session, for a viewer that has the token of the offer.
Served(s) == Pruned[s] # None
Looks ==
  /\ sessions' = Pruned
  /\ UNCHANGED <<writable, offers>>

\* handle_share_start: the session, then the offer, sent or queued.
ShareStart(s) ==
  /\ offers[s] = "none"
  /\ sessions' = [sessions EXCEPT ![s] = now]
  /\ \E w \in BOOLEAN : writable' = [writable EXCEPT ![s] = w]
  /\ \E how \in {"sent", "queued"} : offers' = [offers EXCEPT ![s] = how]
  /\ UNCHANGED <<now, Viewer, Disk, faults>>

\* The offer reaches the viewer's chat (_send_share_offer, or later the queue).
OfferArrives(s) ==
  /\ offers[s] \in {"sent", "queued"}
  /\ offers' = [offers EXCEPT ![s] = "here"]
  /\ UNCHANGED <<sessions, writable, now, Viewer, Disk, faults>>

\* The sessions are in memory only; requests under way break off.
Broken(u) == up[u].pc \in {"sent", "taken", "writing"}
OwnerRestarts ==
  /\ faults < MaxFaults /\ faults' = faults + 1
  /\ sessions' = [s \in Session |-> None]
  /\ up' = [u \in Upload |-> IF Broken(u) THEN [up[u] EXCEPT !.pc = "failed"] ELSE up[u]]
  /\ down' = [g \in Download |-> IF down[g].pc \in {"sent", "reading"}
                                 THEN [down[g] EXCEPT !.pc = "failed"] ELSE down[g]]
  /\ asks' = {IF a.pc = "asked" THEN [a EXCEPT !.pc = "failed"] ELSE a : a \in asks}
  /\ disturbed' = (disturbed \/ \E u \in Upload : Broken(u))
  /\ UNCHANGED <<writable, offers, now, objects, dialog, shown, asked, overtaken, files>>

Tick ==
  /\ now < MaxTime /\ now' = now + 1
  /\ UNCHANGED <<Owner, Viewer, Disk, faults>>

-----------------------------------------------------------------------------
(* The viewer's dialog                                                        *)

\* loadShareListing: "Loading...", and a request for the path of the open object.
Loads(o) ==
  /\ asked < MaxAsks /\ asked' = asked + 1
  /\ shown' = Text
  /\ asks' = asks \union {[n |-> asked', obj |-> o, path |-> objects'[o].path, pc |-> "asked"]}

Opens(s) ==
  /\ offers[s] = "here" /\ Len(objects) < MaxOpens
  /\ objects' = Append(objects, [sess |-> s, path |-> "top"])
  /\ dialog' = Len(objects')
  /\ Loads(dialog')
  /\ UNCHANGED <<Owner, now, overtaken, Disk, faults>>

\* closeShareBrowser: the list stays in the page.
Closes ==
  /\ dialog # 0 /\ dialog' = 0
  /\ UNCHANGED <<Owner, now, objects, shown, asks, asked, overtaken, Disk, faults>>

\* A tap on a folder: the path is that of the object the list was made for, the
\* listing that of the open one.
Enters ==
  /\ dialog # 0 /\ shown.path = "top"
  /\ objects' = [objects EXCEPT ![shown.obj].path = "sub"]
  /\ Loads(dialog)
  /\ UNCHANGED <<Owner, now, dialog, overtaken, Disk, faults>>

\* (mutant) Going up does not load the listing of the parent.
UpUnloaded ==
  /\ dialog # 0 /\ objects[dialog].path = "sub"
  /\ objects' = [objects EXCEPT ![dialog].path = "top"]
  /\ UNCHANGED <<Owner, now, dialog, shown, asks, asked, overtaken, Disk, faults>>

\* shareBrowserUp.
GoesUp ==
  /\ dialog # 0 /\ objects[dialog].path = "sub"
  /\ objects' = [objects EXCEPT ![dialog].path = "top"]
  /\ Loads(dialog)
  /\ UNCHANGED <<Owner, now, dialog, overtaken, Disk, faults>>

\* handle_share_list, reached through handle_share_remote_list.
Lists(a) ==
  /\ a \in asks /\ a.pc = "asked"
  /\ Looks
  /\ asks' = (asks \ {a}) \union
       {[a EXCEPT !.pc = IF Served(objects[a.obj].sess) THEN "listed" ELSE "failed"]}
  /\ UNCHANGED <<now, objects, dialog, shown, asked, overtaken, Disk, faults>>
\* _share_remote_fetch gives up: no connection, or 30 s.
FetchFails(a) ==
  /\ a \in asks /\ a.pc = "asked"
  /\ faults < MaxFaults /\ faults' = faults + 1
  /\ asks' = (asks \ {a}) \union {[a EXCEPT !.pc = "failed"]}
  /\ UNCHANGED <<Owner, now, objects, dialog, shown, asked, overtaken, Disk>>

\* The answer is shown, whatever the dialog is about by then.
ShowsListing(a) ==
  /\ a \in asks /\ a.pc # "asked"
  /\ asks' = asks \ {a}
  /\ shown' = IF a.pc = "listed" THEN [obj |-> a.obj, path |-> a.path] ELSE Text
  /\ overtaken' = (overtaken \/ a.n < asked)
  /\ UNCHANGED <<Owner, now, objects, dialog, asked, Disk, faults>>

-----------------------------------------------------------------------------
(* Uploads and downloads                                                      *)

Meets(d) == \/ \E u \in Upload : up[u].pc = "writing" /\ up[u].dir = d
            \/ \E g \in Download : down[g].pc = "reading" /\ down[g].dir = d

\* uploadShareFile sends the file to the path of the open object.
UploadStarts(u) ==
  /\ dialog # 0 /\ up[u].pc = "idle" /\ writable[objects[dialog].sess]
  /\ up' = [up EXCEPT ![u] = [IdleUp EXCEPT !.pc = "sent", !.sess = objects[dialog].sess,
                                            !.dir = objects[dialog].path]]
  /\ UNCHANGED <<Owner, now, Viewer, files, down, disturbed, faults>>
\* handle_share_upload looks for the session once, before it reads the form.
UploadTaken(u) ==
  /\ up[u].pc = "sent"
  /\ Looks
  /\ up' = [up EXCEPT ![u].pc = IF Served(up[u].sess) /\ writable[up[u].sess] THEN "taken" ELSE "failed"]
  /\ UNCHANGED <<now, Viewer, files, down, disturbed, faults>>

\* (mutant) The file is opened without truncating it.
Kept(f) == IF f = None THEN <<>> ELSE f
Truncated(f) == <<>>
UploadOpens(u) ==
  /\ up[u].pc = "taken"
  /\ up' = [up EXCEPT ![u].pc = "writing"]
  /\ files' = [files EXCEPT ![up[u].dir] = Truncated(files[up[u].dir])]
  /\ disturbed' = (disturbed \/ Meets(up[u].dir))
  /\ UNCHANGED <<Owner, now, Viewer, down, faults>>
\* A chunk is written at the offset this upload has reached.
Written(f, i, c) ==
  [k \in 1 .. (IF i > Len(f) THEN i ELSE Len(f)) |->
     IF k = i THEN c ELSE IF k <= Len(f) THEN f[k] ELSE "hole"]
UploadWrites(u) ==
  /\ up[u].pc = "writing" /\ up[u].written < SizeOf[u]
  /\ files' = [files EXCEPT ![up[u].dir] = Written(files[up[u].dir], up[u].written + 1, u)]
  /\ up' = [up EXCEPT ![u].written = up[u].written + 1]
  /\ UNCHANGED <<Owner, now, Viewer, down, disturbed, faults>>
\* The answer; the viewer lists again what is open then.
UploadEnds(u) ==
  /\ up[u].pc = "writing" /\ up[u].written = SizeOf[u]
  /\ up' = [up EXCEPT ![u].pc = "done"]
  /\ UNCHANGED <<objects, dialog>>
  /\ IF dialog # 0 THEN Loads(dialog) ELSE UNCHANGED <<shown, asks, asked>>
  /\ UNCHANGED <<Owner, now, overtaken, files, down, disturbed, faults>>
\* The connection breaks: what was written stays.
UploadBreaks(u) ==
  /\ Broken(u)
  /\ faults < MaxFaults /\ faults' = faults + 1
  /\ up' = [up EXCEPT ![u].pc = "failed"]
  /\ disturbed' = (disturbed \/ up[u].pc = "writing")
  /\ UNCHANGED <<Owner, now, Viewer, files, down>>

\* downloadShareFile, from the list that is shown, of the open object's session.
DownloadStarts(g) ==
  /\ dialog # 0 /\ down[g].pc = "idle" /\ shown.path # "text"
  /\ down' = [down EXCEPT ![g] = [IdleDown EXCEPT !.pc = "sent", !.sess = objects[dialog].sess,
                                                  !.dir = shown.path]]
  /\ UNCHANGED <<Owner, now, Viewer, files, up, disturbed, faults>>
\* handle_share_download: the answer has the size the file has now.
DownloadOpens(g) ==
  /\ down[g].pc = "sent"
  /\ Looks
  /\ LET f == files[down[g].dir] IN
       IF Served(down[g].sess) /\ f # None
       THEN /\ down' = [down EXCEPT ![g].pc = "reading", ![g].size = Len(f)]
            /\ disturbed' = (disturbed \/ Meets(down[g].dir))
       ELSE down' = [down EXCEPT ![g].pc = "failed"] /\ UNCHANGED disturbed
  /\ UNCHANGED <<now, Viewer, files, up, faults>>
\* handle_share_remote_download reads the whole body; one that ends early fails.
DownloadReads(g) ==
  /\ down[g].pc = "reading"
  /\ LET f == files[down[g].dir]  k == Len(down[g].got) + 1 IN
       down' = [down EXCEPT ![g] =
         IF k > down[g].size THEN [down[g] EXCEPT !.pc = "done"]
         ELSE IF k > Len(f) THEN [down[g] EXCEPT !.pc = "failed"]
         ELSE [down[g] EXCEPT !.got = Append(down[g].got, f[k])]]
  /\ UNCHANGED <<Owner, now, Viewer, files, up, disturbed, faults>>

Init ==
  /\ sessions = [s \in Session |-> None]
  /\ writable = [s \in Session |-> FALSE] /\ offers = [s \in Session |-> "none"]
  /\ now = 0 /\ objects = <<>> /\ dialog = 0 /\ shown = Text
  /\ asks = {} /\ asked = 0 /\ overtaken = FALSE
  /\ files = [d \in Dir |-> None]
  /\ up = [u \in Upload |-> IdleUp] /\ down = [g \in Download |-> IdleDown]
  /\ disturbed = FALSE /\ faults = 0

Next ==
  \/ \E s \in Session : ShareStart(s) \/ OfferArrives(s) \/ Opens(s)
  \/ OwnerRestarts \/ Tick \/ Closes \/ Enters \/ GoesUp
  \/ \E a \in asks : Lists(a) \/ FetchFails(a) \/ ShowsListing(a)
  \/ \E u \in Upload : \/ UploadStarts(u) \/ UploadTaken(u) \/ UploadOpens(u)
                       \/ UploadWrites(u) \/ UploadEnds(u) \/ UploadBreaks(u)
  \/ \E g \in Download : DownloadStarts(g) \/ DownloadOpens(g) \/ DownloadReads(g)

Spec == Init /\ [][Next]_vars

-----------------------------------------------------------------------------
(* Properties                                                                 *)

Whole(c) == \E u \in Upload : c = [i \in 1 .. SizeOf[u] |-> u]

\* Once no answer is on its way, the folder the dialog lists is the one an upload
\* would go to, unless an answer came back after a later listing was asked for.
ListedIsTarget ==
  (dialog # 0 /\ asks = {} /\ shown # Text /\ ~overtaken) =>
    shown = [obj |-> dialog, path |-> objects[dialog].path]

\* What was downloaded, and what stays when the uploads have ended, is the whole
\* of one upload, unless one broke off or met another access to the same file.
MixNeedsOverlap ==
  ~disturbed =>
    /\ \A g \in Download : down[g].pc = "done" => Whole(down[g].got)
    /\ \A d \in Dir :
         (files[d] # None /\ \A u \in Upload : up[u].dir = d => up[u].pc # "writing") => Whole(files[d])

=============================================================================
