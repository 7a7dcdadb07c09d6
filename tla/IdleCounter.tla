----------------------------- MODULE IdleCounter -----------------------------
(***************************************************************************)
(* IdleCounter of utils/wsgi/middeware/idle_counter.py: how the workers of *)
(* a WSGI server come to be scraped.  A worker starts a server thread on a *)
(* socket file of its own at its first request; a scrape lists the files,  *)
(* asks each worker for the rows of its threads, and removes the files of  *)
(* those that do not listen.  MetriczView of utils/django/views.py and the *)
(* handler of PrometheusMetricsHttpServerThread answer with what it got.   *)
(*                                                                         *)
(* A thread is a pair of its worker and a number, and stands for the       *)
(* server thread too that it may start.  The requests, threads and scrapes *)
(* interleave between any two accesses to what they share.  The seconds in *)
(* the rows are left out.                                                  *)
(*                                                                         *)
(* Sockets and the file system are external.  No two living workers have   *)
(* the same pid; a file of a dead one with its pid may be there, or one    *)
(* that is no socket.  Sockets can be made in the directory, but os.remove *)
(* may raise OSError there.                                                *)
(***************************************************************************)
EXTENDS Integers, FiniteSets

CONSTANTS
  Workers,   \* processes
  Threads,   \* pairs of a worker and a number: its request threads
  Scrapers,  \* what calls read_metrics(), again and again
  None,      \* no file, no server
  Stale,     \* the socket of a process that was killed long ago
  Plain      \* a file that is no socket

ASSUME ConstantAssumption ==
  /\ \A t \in Threads : t[1] \in Workers
  /\ {None, Stale, Plain} \cap Threads = {}
  /\ None # Stale /\ None # Plain /\ Stale # Plain
  /\ None \notin Workers

Of(w) == {t \in Threads : t[1] = w}

VARIABLES
  alive,     \* the worker lives
  init,      \* its _init is not None yet
  known,     \* the keys of its thread_status_map
  pc,        \* where each request thread is
  server,    \* where the server thread it started is
  file,      \* what is bound to each worker's file name
  phase,     \* where each scrape is
  todo,      \* the workers whose files it has yet to come to
  at,        \* the one it is at
  from,      \* what it found bound there
  rows,      \* the threads that it has yet to get the rows of
  size,      \* thread_status_map when its handler began to iterate
  got,       \* the threads that it has the rows of
  answer,    \* the status of the HTTP answer that it is for, if there is one yet
  listed,    \* history: the threads that were to be scraped when it began, less
             \* those of workers that have refused it since
  tampered,  \* history: a scrape removed the file of a living worker
  kept       \* history: the worker's cleanup() left a file that it found,
             \* and that was not its own

requests == <<init, known, pc>>
scrapes == <<phase, todo, at, from, rows, size, got, answer, listed>>
vars == <<alive, requests, server, file, scrapes, tampered, kept>>

\* A connection is taken: its process lives and has come to listen.
Listens(s) == s \in Threads /\ alive[s[1]] /\ server[s] = "serving"

Init ==
  /\ alive = [w \in Workers |-> TRUE]
  /\ init = [w \in Workers |-> TRUE]
  /\ known = [w \in Workers |-> {}]
  /\ pc = [t \in Threads |-> "idle"]
  /\ server = [t \in Threads |-> "none"]
  /\ file \in [Workers -> {None, Stale, Plain}]
  /\ phase = [c \in Scrapers |-> "raised"]
  /\ todo = [c \in Scrapers |-> {}]
  /\ at = [c \in Scrapers |-> None]
  /\ from = [c \in Scrapers |-> None]
  /\ rows = [c \in Scrapers |-> {}]
  /\ size = [c \in Scrapers |-> {}]
  /\ got = [c \in Scrapers |-> {}]
  /\ listed = [c \in Scrapers |-> {}]
  /\ answer = [c \in Scrapers |-> "none"]
  /\ tampered = [w \in Workers |-> FALSE] /\ kept = [w \in Workers |-> FALSE]

-----------------------------------------------------------------------------
(* IdleCounter.__call__, a request. *)

\* if self._init:
AskInit(t) ==
  /\ alive[t[1]]
  /\ pc[t] = "idle"
  /\ pc' = [pc EXCEPT ![t] = IF init[t[1]] THEN "call" ELSE "count"]
  /\ UNCHANGED <<alive, init, known, server, file, scrapes, tampered, kept>>

\* self._init(): starts a server thread, or, when another thread has been
\* through here, raises TypeError, and the request fails.
CallInit(t) ==
  /\ alive[t[1]]
  /\ pc[t] = "call"
  /\ IF init[t[1]]
       THEN /\ server' = [server EXCEPT ![t] = "cleanup"]
            /\ pc' = [pc EXCEPT ![t] = "reset"]
       ELSE /\ pc' = [pc EXCEPT ![t] = "idle"]
            /\ UNCHANGED server
  /\ UNCHANGED <<alive, init, known, file, scrapes, tampered, kept>>

\* self._init = None
ResetInit(t) ==
  /\ alive[t[1]]
  /\ pc[t] = "reset"
  /\ init' = [init EXCEPT ![t[1]] = FALSE]
  /\ pc' = [pc EXCEPT ![t] = "count"]
  /\ UNCHANGED <<alive, known, server, file, scrapes, tampered, kept>>

\* self.thread_status_map[tid], and the rest of the request.
Count(t) ==
  /\ alive[t[1]]
  /\ pc[t] = "count"
  /\ known' = [known EXCEPT ![t[1]] = @ \cup {t}]
  /\ pc' = [pc EXCEPT ![t] = "idle"]
  /\ UNCHANGED <<alive, init, server, file, scrapes, tampered, kept>>

-----------------------------------------------------------------------------
(* SiblingIPCServerThread.run *)

\* Faulty variant: what an earlier process left is not looked for.
StatNothing(s) ==
  /\ alive[s[1]]
  /\ server[s] = "cleanup"
  /\ server' = [server EXCEPT ![s] = "bind"]
  /\ UNCHANGED <<alive, requests, file, scrapes, tampered, kept>>

\* cleanup(): is_socket(), which raises OSError when there is no file ...
Stat(s) ==
  /\ alive[s[1]]
  /\ server[s] = "cleanup"
  /\ server' = [server EXCEPT ![s] = IF file[s[1]] \in {None, Plain} THEN "bind" ELSE "remove"]
  /\ kept' = [kept EXCEPT ![s[1]] = @ \/ file[s[1]] = Plain]
  /\ UNCHANGED <<alive, requests, file, scrapes, tampered>>

\* ... and os.remove(), which may raise it for a file that is there.
Remove(s) ==
  /\ alive[s[1]]
  /\ server[s] = "remove"
  /\ \/ file' = [file EXCEPT ![s[1]] = None] /\ UNCHANGED kept
     \/ kept' = [kept EXCEPT ![s[1]] = @ \/ file[s[1]] \in {Stale, Plain}] /\ UNCHANGED file
  /\ server' = [server EXCEPT ![s] = "bind"]
  /\ UNCHANGED <<alive, requests, scrapes, tampered>>

\* UnixStreamServer(): bind() raises when there is a file, and the thread ends.
Bind(s) ==
  /\ alive[s[1]]
  /\ server[s] = "bind"
  /\ IF file[s[1]] = None
       THEN /\ file' = [file EXCEPT ![s[1]] = s]
            /\ server' = [server EXCEPT ![s] = "bound"]
       ELSE /\ server' = [server EXCEPT ![s] = "broken"]
            /\ UNCHANGED file
  /\ UNCHANGED <<alive, requests, scrapes, tampered, kept>>

\* Faulty variant: cleanup() runs once the socket is bound.
ListenClean(s) ==
  /\ alive[s[1]]
  /\ server[s] = "bound"
  /\ server' = [server EXCEPT ![s] = "serving"]
  /\ file' = [file EXCEPT ![s[1]] = None]
  /\ UNCHANGED <<alive, requests, scrapes, tampered, kept>>

\* It listens, and goes on to serve_forever().
Listen(s) ==
  /\ alive[s[1]]
  /\ server[s] = "bound"
  /\ server' = [server EXCEPT ![s] = "serving"]
  /\ UNCHANGED <<alive, requests, file, scrapes, tampered, kept>>

-----------------------------------------------------------------------------
(* The end of a worker. *)

\* Nothing is left of it but its file.
Gone(w) ==
  /\ alive[w]
  /\ alive' = [alive EXCEPT ![w] = FALSE]
  /\ init' = [init EXCEPT ![w] = TRUE]
  /\ known' = [known EXCEPT ![w] = {}]
  /\ pc' = [t \in Threads |-> IF t \in Of(w) THEN "idle" ELSE pc[t]]
  /\ server' = [s \in Threads |-> IF s \in Of(w) THEN "none" ELSE server[s]]
  /\ tampered' = [tampered EXCEPT ![w] = FALSE] /\ kept' = [kept EXCEPT ![w] = FALSE]
  /\ UNCHANGED scrapes

\* It exits: cleanup() was registered with atexit after it had run.  Where
\* that leaves the file, it is as if the worker were killed.
Exit(w) ==
  /\ Gone(w)
  /\ file' = IF /\ \E s \in Of(w) : server[s] \in {"bind", "bound", "serving", "broken"}
                /\ file[w] # Plain
             THEN [file EXCEPT ![w] = None] ELSE file

Kill(w) ==
  /\ Gone(w)
  /\ UNCHANGED file

-----------------------------------------------------------------------------
(* read_all_metrics and read_worker_metrics, a scrape. *)

\* do_GET sends its status, 200, before anything else; MetriczView has none yet.
AnswerBegins(c) == \E a \in {"none", "streamed"} : answer' = [answer EXCEPT ![c] = a]

\* MetriczView answers when all is read, or Django for it.
AnswerEnds(c, status) == answer' = [answer EXCEPT ![c] = IF @ = "none" THEN status ELSE @]

\* os.listdir()
ListDir(c) ==
  /\ phase[c] \in {"ok", "raised"}
  /\ phase' = [phase EXCEPT ![c] = "next"]
  /\ todo' = [todo EXCEPT ![c] = {w \in Workers : file[w] # None}]
  /\ listed' = [listed EXCEPT ![c] = UNION {known[w] : w \in {v \in Workers : Listens(file[v])}}]
  /\ got' = [got EXCEPT ![c] = {}]
  /\ AnswerBegins(c)
  /\ UNCHANGED <<alive, requests, server, file, at, from, rows, size, tampered, kept>>

Forget(c) ==
  /\ at' = [at EXCEPT ![c] = None]
  /\ from' = [from EXCEPT ![c] = None]
  /\ rows' = [rows EXCEPT ![c] = {}]
  /\ size' = [size EXCEPT ![c] = {}]

\* It has done with the file that it was at.
Leave(c) ==
  /\ phase' = [phase EXCEPT ![c] = "next"]
  /\ Forget(c)
  /\ UNCHANGED <<todo, got, listed, answer>>

\* An exception ends it.
Abort(c) ==
  /\ phase' = [phase EXCEPT ![c] = "raised"]
  /\ Forget(c)
  /\ todo' = [todo EXCEPT ![c] = {}]
  /\ got' = [got EXCEPT ![c] = {}]
  /\ listed' = [listed EXCEPT ![c] = {}]
  /\ AnswerEnds(c, "500")

\* Faulty variant: a file that refuses ends the scrape.
ConnectOrEnd(c, w) ==
  /\ phase[c] = "next"
  /\ w \in todo[c]
  /\ IF file[w] = None THEN Abort(c)
     ELSE /\ phase' = [phase EXCEPT ![c] = IF Listens(file[w]) THEN "waiting" ELSE "refused"]
          /\ at' = [at EXCEPT ![c] = w]
          /\ from' = [from EXCEPT ![c] = file[w]]
          /\ todo' = [todo EXCEPT ![c] = IF Listens(file[w]) THEN @ \ {w} ELSE {}]
          /\ listed' = [listed EXCEPT ![c] = IF Listens(file[w]) THEN @ ELSE @ \ Of(w)]
          /\ UNCHANGED <<rows, size, got, answer>>
  /\ UNCHANGED <<alive, requests, server, file, tampered, kept>>

\* Faulty variant: a file that refuses is passed over.
ConnectOrPass(c, w) ==
  /\ phase[c] = "next"
  /\ w \in todo[c]
  /\ IF file[w] = None THEN Abort(c)
     ELSE /\ phase' = [phase EXCEPT ![c] = IF Listens(file[w]) THEN "waiting" ELSE "next"]
          /\ at' = [at EXCEPT ![c] = w]
          /\ from' = [from EXCEPT ![c] = file[w]]
          /\ todo' = [todo EXCEPT ![c] = @ \ {w}]
          /\ listed' = [listed EXCEPT ![c] = IF Listens(file[w]) THEN @ ELSE @ \ Of(w)]
          /\ UNCHANGED <<rows, size, got, answer>>
  /\ UNCHANGED <<alive, requests, server, file, tampered, kept>>

\* sock.connect(): raises FileNotFoundError when the file is gone, which ends
\* the scrape, and ConnectionRefusedError when nobody listens.
Connect(c, w) ==
  /\ phase[c] = "next"
  /\ w \in todo[c]
  /\ IF file[w] = None THEN Abort(c)
     ELSE /\ phase' = [phase EXCEPT ![c] = IF Listens(file[w]) THEN "waiting" ELSE "refused"]
          /\ at' = [at EXCEPT ![c] = w]
          /\ from' = [from EXCEPT ![c] = file[w]]
          /\ todo' = [todo EXCEPT ![c] = @ \ {w}]
          /\ listed' = [listed EXCEPT ![c] = IF Listens(file[w]) THEN @ ELSE @ \ Of(w)]
          /\ UNCHANGED <<rows, size, got, answer>>
  /\ UNCHANGED <<alive, requests, server, file, tampered, kept>>

\* It raises another OSError, as PermissionError, which nobody catches either.
Denied(c) ==
  /\ phase[c] = "next"
  /\ \E w \in todo[c] : file[w] # None
  /\ Abort(c)
  /\ UNCHANGED <<alive, requests, server, file, tampered, kept>>

\* os.remove(filename), whatever is bound to it by now.
RemoveStale(c) ==
  /\ phase[c] = "refused"
  /\ Leave(c)
  /\ file' = [file EXCEPT ![at[c]] = None]
  /\ tampered' = [tampered EXCEPT ![at[c]] = @ \/ (alive[at[c]] /\ file[at[c]] \in Threads)]
  /\ UNCHANGED <<alive, requests, server, kept>>

\* That raises OSError, which is passed over.
KeepStale(c) ==
  /\ phase[c] = "refused"
  /\ Leave(c)
  /\ UNCHANGED <<alive, requests, server, file, tampered, kept>>

\* The server takes one connection at a time; its handler begins to iterate.
Accept(c) ==
  /\ phase[c] = "waiting"
  /\ Listens(from[c])
  /\ \A d \in Scrapers : ~(phase[d] = "reading" /\ from[d] = from[c])
  /\ phase' = [phase EXCEPT ![c] = "reading"]
  /\ rows' = [rows EXCEPT ![c] = known[at[c]]]
  /\ size' = [size EXCEPT ![c] = known[at[c]]]
  /\ UNCHANGED <<alive, requests, server, file, todo, at, from, got, listed, answer, tampered, kept>>

\* The idle and the busy row of a thread.
SendRow(c, t) ==
  /\ phase[c] = "reading"
  /\ alive[at[c]]
  /\ known[at[c]] = size[c]
  /\ t \in rows[c]
  /\ rows' = [rows EXCEPT ![c] = @ \ {t}]
  /\ got' = [got EXCEPT ![c] = @ \cup {t}]
  /\ UNCHANGED <<alive, requests, server, file, phase, todo, at, from, size, listed, answer, tampered, kept>>

\* The handler is through, and closes the connection.
RowsEnd(c) ==
  /\ phase[c] = "reading"
  /\ alive[at[c]]
  /\ known[at[c]] = size[c]
  /\ rows[c] = {}
  /\ Leave(c)
  /\ UNCHANGED <<alive, requests, server, file, tampered, kept>>

\* It raises RuntimeError: the dictionary changed size during iteration.
RowsBreak(c) ==
  /\ phase[c] = "reading"
  /\ alive[at[c]]
  /\ known[at[c]] # size[c]
  /\ Leave(c)
  /\ UNCHANGED <<alive, requests, server, file, tampered, kept>>

\* The worker ends: the connection does, or is reset, which ends the scrape.
Disconnect(c) ==
  /\ phase[c] \in {"waiting", "reading"}
  /\ ~alive[at[c]]
  /\ Leave(c) \/ Abort(c)
  /\ UNCHANGED <<alive, requests, server, file, tampered, kept>>

Finish(c) ==
  /\ phase[c] = "next"
  /\ todo[c] = {}
  /\ phase' = [phase EXCEPT ![c] = "ok"]
  /\ AnswerEnds(c, "200")
  /\ UNCHANGED <<alive, requests, server, file, todo, at, from, rows, size, got, listed, tampered, kept>>

-----------------------------------------------------------------------------

Request(t) == AskInit(t) \/ CallInit(t) \/ ResetInit(t) \/ Count(t)

Serving(s) == Stat(s) \/ Remove(s) \/ Bind(s) \/ Listen(s)

Scrape(c) ==
  \/ ListDir(c) \/ Denied(c) \/ RemoveStale(c) \/ KeepStale(c) \/ Accept(c) \/ RowsEnd(c) \/ RowsBreak(c)
  \/ Disconnect(c) \/ Finish(c)
  \/ \E w \in Workers : Connect(c, w)
  \/ \E t \in Threads : SendRow(c, t)

Next ==
  \/ \E t \in Threads : Request(t) \/ Serving(t)
  \/ \E c \in Scrapers : Scrape(c)
  \/ \E w \in Workers : Exit(w) \/ Kill(w)

Spec == Init /\ [][Next]_vars

\* Threads are scheduled, and there is always another scrape; requests need
\* not come.
FairSpec ==
  /\ Spec
  /\ \A s \in Threads : WF_vars(Serving(s))
  /\ \A c \in Scrapers : WF_vars(Scrape(c))

-----------------------------------------------------------------------------

WorkerTypes ==
  /\ alive \in [Workers -> BOOLEAN] /\ init \in [Workers -> BOOLEAN]
  /\ known \in [Workers -> SUBSET Threads]
  /\ pc \in [Threads -> {"idle", "call", "reset", "count"}]
  /\ server \in [Threads -> {"none", "cleanup", "remove", "bind", "bound", "serving", "broken"}]
  /\ file \in [Workers -> Threads \cup {None, Stale, Plain}]
  /\ tampered \in [Workers -> BOOLEAN] /\ kept \in [Workers -> BOOLEAN]

ScrapeTypes ==
  /\ phase \in [Scrapers -> {"next", "refused", "waiting", "reading", "ok", "raised"}]
  /\ todo \in [Scrapers -> SUBSET Workers]
  /\ at \in [Scrapers -> Workers \cup {None}]
  /\ from \in [Scrapers -> Threads \cup {None, Stale, Plain}]
  /\ rows \in [Scrapers -> SUBSET Threads] /\ size \in [Scrapers -> SUBSET Threads]
  /\ got \in [Scrapers -> SUBSET Threads] /\ listed \in [Scrapers -> SUBSET Threads]
  /\ answer \in [Scrapers -> {"none", "streamed", "200", "500"}]

\* Only servers are read from.
TypeOK ==
  /\ WorkerTypes
  /\ ScrapeTypes
  /\ \A c \in Scrapers :
       /\ phase[c] \in {"refused", "waiting", "reading"} => at[c] \in Workers
       /\ phase[c] \in {"waiting", "reading"} => from[c] \in Threads

\* However many threads ran _init at once, and whatever was left by others:
\* once the server threads of a living worker are past their start, one that
\* listens has the file, or a scrape has removed it.
LiveFileThere ==
  \A w \in Workers :
    /\ alive[w] /\ ~tampered[w]
    /\ \A s \in Of(w) : server[s] \in {"none", "serving", "broken"}
    /\ \E s \in Of(w) : server[s] = "serving"
    => Listens(file[w])

\* An answer with status 200 has the rows of every thread there was when the
\* scrape began, of each worker that lived on, had no new threads and did not
\* refuse the scrape, as it does between bind() and listen().  One that do_GET
\* has streamed has them if the scrape ended well: if it raised, the status
\* says 200 all the same.
ScrapeComplete ==
  \A c \in Scrapers, w \in Workers :
    /\ answer[c] = "200" \/ (answer[c] = "streamed" /\ phase[c] = "ok")
    /\ alive[w] /\ listed[c] \cap Of(w) = known[w]
    => known[w] \subseteq got[c]

\* What a dead worker left is removed at last; unless, again and again, the
\* scrape that would remove it fails to, or fails to connect to some file.
StaleFilesGo ==
  \A w \in Workers :
    \/ []<>(alive[w] \/ file[w] = None)
    \/ []<><<\E c \in Scrapers : Denied(c) \/ (KeepStale(c) /\ at[c] = w)>>_vars

\* A worker that had a request comes to be listening, or ends, or had a file
\* under its name that it could not remove or that is no socket: then bind()
\* may raise, and nobody serves.
InitServes ==
  \A t \in Threads :
    pc[t] = "reset" ~>
      ~alive[t[1]] \/ kept[t[1]] \/ \E s \in Of(t[1]) : server[s] = "serving"

-----------------------------------------------------------------------------
(* The invariants the proofs use. *)

Up == {"bound", "serving"}
Starting == {"cleanup", "remove", "bind"}

\* What is bound to the file name of a living worker is a socket of its own, or
\* was there before any of its servers had bound; and once one has, and none is
\* about to, nothing is bound only if a scrape has removed it.
FileInv ==
  \A w \in Workers :
    /\ file[w] \in Threads => file[w] \in Of(w) /\ (alive[w] => server[file[w]] \in Up)
    /\ alive[w] /\ (\E s \in Of(w) : server[s] \in Up) =>
         /\ file[w] \notin {Stale, Plain}
         /\ tampered[w] \/ (\E s \in Of(w) : server[s] \in Starting) \/ file[w] # None

\* The threads of a living worker that a scrape set out for are there; and those
\* of a worker that has no new ones are to come, being read, or read.
AtHand(c, w) ==
  IF w \in todo[c] THEN known[w]
  ELSE IF at[c] = w /\ phase[c] = "waiting" THEN known[w]
  ELSE IF at[c] = w /\ phase[c] = "reading" THEN rows[c]
  ELSE {}

Sound(c) ==
  /\ answer[c] = "200" => phase[c] = "ok"
  /\ phase[c] = "ok" => todo[c] = {}
  /\ \A w \in Workers : alive[w] =>
       /\ listed[c] \cap Of(w) \subseteq known[w]
       /\ at[c] = w /\ phase[c] = "reading" =>
            listed[c] \cap Of(w) \subseteq size[c] /\ size[c] \subseteq known[w]
       /\ listed[c] \cap Of(w) = known[w] => known[w] \subseteq got[c] \cup AtHand(c, w)

ScrapeInv == \A c \in Scrapers : Sound(c)

KnownInv == \A w \in Workers : known[w] \subseteq Of(w)

\* A request thread starts one server thread, at most.
StartsOnce ==
  \A t \in Threads : server[t] = "none" \/ pc[t] = "reset" \/ ~init[t[1]]

IInv == TypeOK /\ KnownInv /\ StartsOnce /\ FileInv /\ ScrapeInv
=============================================================================
