--------------------------- MODULE FirmwareServer ---------------------------
(***************************************************************************)
(* The firmware file server: one thread per connection, serving a file in  *)
(* chunks, and the events the threads post to the event loop.  Threads     *)
(* share the table of active downloads, the set of cancelled sessions and  *)
(* the table of active requests, each under a lock.                        *)
(*                                                                         *)
(* A thread's step is what it does between two reads of its socket; its    *)
(* parameter names the events it posts to the loop, in their order.  A     *)
(* file is one chunk; control frames go with the event they accompany.     *)
(* The client may stop at any point: the read then ends with the           *)
(* connection or by timeout.                                               *)
(***************************************************************************)
EXTENDS Naturals, Sequences, FiniteSets

CONSTANTS Conn,      \* connections, numbered by CONNECTION_COUNTER
          Charger,   \* charge points, in the order of _charger_states
          File,      \* firmware files
          None

ASSUME FirmwareAssumption ==
  /\ Charger \subseteq Nat /\ Conn \subseteq Nat
  /\ None \notin Nat /\ None \notin File

VARIABLES
  thread,     \* where each connection's thread stands
  peer,       \* the charger at its other end
  file,       \* the file it asked for
  open,       \* its socket is open
  whole,      \* connections that have sent the whole file, undamaged
  requests,   \* ACTIVE_REQUESTS: the sessions named in it
  downloads,  \* _active_downloads
  cancelled,  \* _cancelled_sessions
  cache       \* verified files under the firmware root

connVars == <<thread, peer, file>>
serverVars == <<connVars, open, whole, requests, downloads, cancelled, cache>>

Phase == {"new", "connected", "requested", "registered", "serving", "closing", "ended"}
Outcome == {"checksum_ok", "checksum_mismatch", "checksum_missing", "client_error",
            "transfer_cancelled"}
Event == Outcome \union
  {"connect", "request_missing", "socket_timeout", "request_received", "overlapping_request",
   "file_not_found", "download_started", "chunk_sent", "file_sent", "disconnect",
   "transfer_cancel_requested"}

ServerTypeOK ==
  /\ thread \in [Conn -> Phase]
  /\ peer \in [Conn -> Charger \union {None}]
  /\ file \in [Conn -> File \union {None}]
  /\ open \in [Conn -> BOOLEAN]
  /\ whole \subseteq Conn /\ requests \subseteq Conn
  /\ downloads \subseteq Conn /\ cancelled \subseteq downloads
  /\ cache \subseteq File

ServerInit ==
  /\ thread = [c \in Conn |-> "new"]
  /\ peer = [c \in Conn |-> None] /\ file = [c \in Conn |-> None]
  /\ open = [c \in Conn |-> FALSE]
  /\ whole = {} /\ requests = {} /\ downloads = {} /\ cancelled = {}
  /\ cache = {}

\* The finally block of _handle_client.
Ends(c) ==
  /\ thread' = [thread EXCEPT ![c] = "ended"]
  /\ open' = [open EXCEPT ![c] = FALSE]
  /\ requests' = requests \ {c}

Accept(c, cp, names) ==
  /\ thread[c] = "new" /\ \A d \in Conn : d < c => thread[d] # "new"
  /\ thread' = [thread EXCEPT ![c] = "connected"]
  /\ peer' = [peer EXCEPT ![c] = cp] /\ open' = [open EXCEPT ![c] = TRUE]
  /\ names = <<"connect">>
  /\ UNCHANGED <<file, whole, requests, downloads, cancelled, cache>>

\* The client closes before it asks, or says nothing for SOCKET_TIMEOUT.
RequestMissing(c, names) ==
  /\ thread[c] = "connected"
  /\ \/ names = <<"request_missing", "disconnect">>
     \/ names = <<"socket_timeout", "request_missing", "disconnect">>
  /\ Ends(c)
  /\ UNCHANGED <<peer, file, whole, downloads, cancelled, cache>>

SameRequest(c, f) == {d \in requests : d # c /\ peer[d] = peer[c] /\ file[d] = f}

Request(c, f, names) ==
  /\ thread[c] = "connected"
  /\ thread' = [thread EXCEPT ![c] = "requested"] /\ file' = [file EXCEPT ![c] = f]
  /\ requests' = (requests \ SameRequest(c, f)) \union {c}
  /\ names = IF SameRequest(c, f) = {} THEN <<"request_received">>
             ELSE <<"request_received", "overlapping_request">>
  /\ UNCHANGED <<peer, open, whole, downloads, cancelled, cache>>

NotFound(c, names) ==
  /\ thread[c] = "requested" /\ file[c] \notin cache
  /\ names = <<"file_not_found", "disconnect">>
  /\ Ends(c)
  /\ UNCHANGED <<peer, file, whole, downloads, cancelled, cache>>

Register(c, names) ==
  /\ thread[c] = "requested" /\ file[c] \in cache
  /\ thread' = [thread EXCEPT ![c] = "registered"] /\ names = << >>
  /\ downloads' = downloads \union {c}
  /\ UNCHANGED <<peer, file, open, whole, requests, cancelled, cache>>

StartDownload(c, names) ==
  /\ thread[c] = "registered" /\ open[c]
  /\ thread' = [thread EXCEPT ![c] = "serving"]
  /\ names = <<"download_started">>
  /\ UNCHANGED <<peer, file, open, whole, requests, downloads, cancelled, cache>>

\* The answer cannot be written, because the client is gone or the session
\* was cancelled: this happens before the try block whose finally unregisters
\* the download, so the session stays in both tables.
StartFails(c, names) ==
  /\ thread[c] = "registered"
  /\ names = <<"download_started", "client_error", "disconnect">>
  /\ Ends(c)
  /\ UNCHANGED <<peer, file, whole, downloads, cancelled, cache>>

SendChunk(c, names) ==
  /\ thread[c] = "serving" /\ c \notin cancelled /\ open[c] /\ c \notin whole
  /\ whole' = whole \union {c}
  /\ names = <<"chunk_sent">>
  /\ UNCHANGED <<connVars, open, requests, downloads, cancelled, cache>>

\* How the loop of _handle_download ends.  A cancelled session finds its socket
\* shut down, unless the client's verdict was already on its way.
Finished(c, outcome) ==
  /\ outcome \in {"checksum_ok", "checksum_mismatch"} => c \in whole
  /\ outcome = "transfer_cancelled" => c \in cancelled
  /\ outcome \in {"client_error", "checksum_missing"} => c \notin cancelled

FinishDownload(c, names) ==
  /\ thread[c] = "serving"
  /\ thread' = [thread EXCEPT ![c] = "closing"]
  /\ \E outcome \in Outcome :
       /\ Finished(c, outcome)
       /\ whole' = IF outcome = "checksum_mismatch" THEN whole \ {c} ELSE whole
       /\ LET ends == IF outcome = "transfer_cancelled" THEN <<outcome>>
                      ELSE <<outcome, "file_sent">>
          IN  \/ names = ends
              \/ outcome = "checksum_missing" /\ names = <<"socket_timeout">> \o ends
  /\ UNCHANGED <<peer, file, open, requests, downloads, cancelled, cache>>

\* Mutant: the mark of a cancelled session is kept.
Unregister_Mutant(c, names) ==
  /\ thread[c] = "closing"
  /\ downloads' = downloads \ {c}
  /\ names = <<"disconnect">>
  /\ Ends(c)
  /\ UNCHANGED <<peer, file, whole, cancelled, cache>>

\* Mutant: a download that ends by itself is not unregistered.
Unregister_Leaks(c, names) ==
  /\ thread[c] = "closing"
  /\ downloads' = downloads \ cancelled /\ cancelled' = cancelled \ {c}
  /\ names = <<"disconnect">>
  /\ Ends(c)
  /\ UNCHANGED <<peer, file, whole, cache>>

Unregister(c, names) ==
  /\ thread[c] = "closing"
  /\ downloads' = downloads \ {c} /\ cancelled' = cancelled \ {c}
  /\ names = <<"disconnect">>
  /\ Ends(c)
  /\ UNCHANGED <<peer, file, whole, cache>>

ThreadStep(c, names) ==
  \/ RequestMissing(c, names) \/ NotFound(c, names) \/ Register(c, names) \/ StartDownload(c, names)
  \/ StartFails(c, names) \/ SendChunk(c, names) \/ FinishDownload(c, names) \/ Unregister(c, names)

\* The batches of events a step can post.
Batch == {<< >>, <<"connect">>, <<"request_missing", "disconnect">>,
          <<"socket_timeout", "request_missing", "disconnect">>,
          <<"request_received">>, <<"request_received", "overlapping_request">>,
          <<"file_not_found", "disconnect">>, <<"download_started">>,
          <<"download_started", "client_error", "disconnect">>, <<"chunk_sent">>,
          <<"transfer_cancelled">>, <<"checksum_ok", "file_sent">>,
          <<"checksum_mismatch", "file_sent">>, <<"checksum_missing", "file_sent">>,
          <<"socket_timeout", "checksum_missing", "file_sent">>,
          <<"client_error", "file_sent">>, <<"disconnect">>}

\* cancel_download: the sessions it finds, and what it does to them.  It posts
\* one event for each.
Targets(f, c) ==
  {d \in downloads : (f = None \/ file[d] = f) /\ (c = None \/ peer[d] = peer[c])}

CancelDownload(f, c) ==
  /\ cancelled' = cancelled \union Targets(f, c)
  /\ open' = [d \in Conn |-> open[d] /\ d \notin Targets(f, c)]
  /\ UNCHANGED <<connVars, whole, requests, downloads, cache>>
=============================================================================
