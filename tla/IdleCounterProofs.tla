-------------------------- MODULE IdleCounterProofs --------------------------
(***************************************************************************)
(* Two facts about IdleCounter, for any number of workers, threads and     *)
(* scrapes: however many server threads of one worker start at once, a     *)
(* listening one has the file when they are done; and a scrape that        *)
(* answers 200 has the rows of every worker it set out for.  Then, of what *)
(* the rows say, two facts about IdleSeconds.                               *)
(*                                                                         *)
(* The argument for the first: a server thread that has yet to bind is the *)
(* only one that can leave the name free, and it then takes it.  For the   *)
(* second: the threads of a worker are to come, being read or read.        *)
(***************************************************************************)
EXTENDS IdleCounter, IdleSeconds, TLAPS

\* A thread is of its worker, and of no other.
LEMMA Owner ==
  ASSUME NEW t \in Threads
  PROVE  /\ t[1] \in Workers /\ t \in Of(t[1])
         /\ \A w : t \in Of(w) <=> t[1] = w
  BY ConstantAssumption DEF Of

\* The invariants hold when the server starts.
LEMMA InitIInv == Init => IInv
  <1> SUFFICES ASSUME Init PROVE IInv
    OBVIOUS
  <1> USE ConstantAssumption
  <1>1. TypeOK
    BY DEF Init, TypeOK, WorkerTypes, ScrapeTypes
  <1>2. KnownInv
    BY DEF Init, KnownInv
  <1>3. FileInv
    BY DEF Init, FileInv, Of, Up
  <1>4. ScrapeInv
    BY DEF Init, ScrapeInv, Sound, AtHand
  <1>5. StartsOnce
    BY DEF Init, StartsOnce
  <1> QED
    BY <1>1, <1>2, <1>3, <1>4, <1>5 DEF IInv

-----------------------------------------------------------------------------
(* Types. *)

\* What the workers do leaves the scrapes alone.
LEMMA WorkerType ==
  ASSUME TypeOK, UNCHANGED scrapes, WorkerTypes'
  PROVE  TypeOK'
  BY DEF TypeOK, ScrapeTypes, scrapes

\* A request is of a thread there is.
LEMMA RequestType ==
  ASSUME TypeOK, NEW t \in Threads, Request(t)
  PROVE  TypeOK'
  <1>1. WorkerTypes /\ t[1] \in Workers
    BY Owner DEF TypeOK
  <1>2. WorkerTypes'
    <2>1. CASE AskInit(t) \/ CallInit(t)
      BY <1>1, <2>1 DEF WorkerTypes, AskInit, CallInit
    <2>2. CASE ResetInit(t)
      BY <1>1, <2>2 DEF WorkerTypes, ResetInit
    <2>3. CASE Count(t)
      BY <1>1, <2>3 DEF WorkerTypes, Count
    <2> QED
      BY <2>1, <2>2, <2>3 DEF Request
  <1> QED
    BY <1>2, WorkerType DEF Request, AskInit, CallInit, ResetInit, Count

\* A server thread binds itself.
LEMMA ServingType ==
  ASSUME TypeOK, NEW s \in Threads, Serving(s)
  PROVE  TypeOK'
  <1>1. WorkerTypes /\ s[1] \in Workers
    BY Owner DEF TypeOK
  <1>2. WorkerTypes'
    BY <1>1 DEF WorkerTypes, Serving, Stat, Remove, Bind, Listen, requests
  <1> QED
    BY <1>2, WorkerType DEF Serving, Stat, Remove, Bind, Listen

\* A worker that ends leaves its file.
LEMMA EndType ==
  ASSUME TypeOK, NEW w \in Workers, Exit(w) \/ Kill(w)
  PROVE  TypeOK'
  <1>1. /\ file' \in [Workers -> Threads \cup {None, Stale, Plain}]
        /\ Gone(w)
    BY DEF TypeOK, WorkerTypes, Exit, Kill
  <1>2. /\ alive' \in [Workers -> BOOLEAN] /\ init' \in [Workers -> BOOLEAN]
        /\ known' \in [Workers -> SUBSET Threads]
        /\ tampered' \in [Workers -> BOOLEAN] /\ kept' \in [Workers -> BOOLEAN]
    BY <1>1 DEF TypeOK, WorkerTypes, Gone
  <1>3. /\ pc' \in [Threads -> {"idle", "call", "reset", "count"}]
        /\ server' \in [Threads -> {"none", "cleanup", "remove", "bind", "bound",
                                    "serving", "broken"}]
    BY <1>1 DEF TypeOK, WorkerTypes, Gone
  <1> QED
    BY <1>1, <1>2, <1>3, WorkerType DEF WorkerTypes, Gone

\* A scrape at c, and what it may be at.
LEMMA ScraperType ==
  ASSUME TypeOK, NEW c \in Scrapers, WorkerTypes', ScrapeTypes',
         \A d \in Scrapers \ {c} : UNCHANGED <<phase[d], at[d], from[d]>>,
         phase'[c] \in {"refused", "waiting", "reading"} => at'[c] \in Workers,
         phase'[c] \in {"waiting", "reading"} => from'[c] \in Threads
  PROVE  TypeOK'
  BY DEF TypeOK

\* A scrape waits for, and reads from, nothing but servers.
LEMMA ScrapeType ==
  ASSUME TypeOK, NEW c \in Scrapers, Scrape(c)
  PROVE  TypeOK'
  <1> USE DEF requests
  <1>0. WorkerTypes /\ ScrapeTypes
    BY DEF TypeOK
  <1>1. CASE ListDir(c)
    <2>1. WorkerTypes'
      BY <1>0, <1>1 DEF WorkerTypes, ListDir
    <2>2. ScrapeTypes'
      <3>1. UNION {known[w] : w \in {v \in Workers : Listens(file[v])}} \in SUBSET Threads
        BY <1>0 DEF WorkerTypes
      <3>2. listed' \in [Scrapers -> SUBSET Threads]
        BY <1>0, <1>1, <3>1 DEF ScrapeTypes, ListDir
      <3>3. answer' \in [Scrapers -> {"none", "streamed", "200", "500"}]
        BY <1>0, <1>1 DEF ScrapeTypes, ListDir, AnswerBegins
      <3> QED
        BY <1>0, <1>1, <3>2, <3>3 DEF ScrapeTypes, ListDir
    <2> QED
      BY <1>0, <1>1, <2>1, <2>2, ScraperType DEF ScrapeTypes, ListDir
  <1>2. ASSUME NEW w \in Workers, Connect(c, w) PROVE TypeOK'
    <2>1. WorkerTypes'
      BY <1>0, <1>2 DEF WorkerTypes, Connect
    <2>2. CASE file[w] = None
      <3>1. Abort(c)
        BY <1>2, <2>2 DEF Connect
      <3> QED
        BY <1>0, <2>1, <3>1, ScraperType DEF ScrapeTypes, Abort, Forget, AnswerEnds
    <2>3. CASE file[w] # None
      <3>1. file[w] \in Threads \cup {None, Stale, Plain}
        BY <1>0 DEF WorkerTypes
      <3>2. ScrapeTypes'
        BY <1>0, <1>2, <2>3, <3>1 DEF ScrapeTypes, Connect
      <3> QED
        BY <1>0, <1>2, <2>1, <2>3, <3>2, ScraperType DEF ScrapeTypes, Connect, Listens
    <2> QED
      BY <2>2, <2>3
  <1>3. CASE RemoveStale(c) \/ KeepStale(c)
    <2>1. WorkerTypes' /\ Leave(c)
      BY <1>0, <1>3 DEF WorkerTypes, RemoveStale, KeepStale
    <2> QED
      BY <1>0, <2>1, ScraperType DEF ScrapeTypes, Leave, Forget
  <1>4. CASE Accept(c)
    <2>1. from[c] \in Threads /\ at[c] \in Workers
      BY <1>4 DEF TypeOK, Accept
    <2>2. known[at[c]] \in SUBSET Threads
      BY <1>0, <2>1 DEF WorkerTypes
    <2>3. ScrapeTypes' /\ WorkerTypes'
      BY <1>0, <1>4, <2>2 DEF ScrapeTypes, WorkerTypes, Accept
    <2> QED
      BY <1>0, <1>4, <2>1, <2>3, ScraperType DEF ScrapeTypes, Accept
  <1>5. ASSUME NEW t \in Threads, SendRow(c, t) PROVE TypeOK'
    <2>1. ScrapeTypes' /\ WorkerTypes'
      BY <1>0, <1>5 DEF ScrapeTypes, WorkerTypes, SendRow
    <2> QED
      BY <1>5, <2>1, ScraperType DEF TypeOK, SendRow
  <1>6. CASE RowsEnd(c) \/ RowsBreak(c)
    <2>1. WorkerTypes' /\ Leave(c)
      BY <1>0, <1>6 DEF WorkerTypes, RowsEnd, RowsBreak
    <2> QED
      BY <1>0, <2>1, ScraperType DEF ScrapeTypes, Leave, Forget
  <1>7. CASE Disconnect(c) \/ Denied(c)
    <2>1. WorkerTypes' /\ (Leave(c) \/ Abort(c))
      BY <1>0, <1>7 DEF WorkerTypes, Disconnect, Denied
    <2> QED
      BY <1>0, <2>1, ScraperType DEF ScrapeTypes, Leave, Abort, Forget, AnswerEnds
  <1>8. CASE Finish(c)
    <2>1. ScrapeTypes' /\ WorkerTypes'
      BY <1>0, <1>8 DEF ScrapeTypes, WorkerTypes, Finish, AnswerEnds
    <2> QED
      BY <1>0, <1>8, <2>1, ScraperType DEF ScrapeTypes, Finish
  <1> QED
    BY <1>1, <1>2, <1>3, <1>4, <1>5, <1>6, <1>7, <1>8 DEF Scrape

-----------------------------------------------------------------------------
(* Files. *)

\* Starting a server thread makes one more that has yet to look.
LEMMA RequestFile ==
  ASSUME TypeOK, StartsOnce, FileInv, NEW t \in Threads, Request(t)
  PROVE  FileInv'
  <1>1. UNCHANGED <<alive, file, tampered>>
    BY DEF Request, AskInit, CallInit, ResetInit, Count
  <1>2. CASE UNCHANGED server
    BY <1>1, <1>2 DEF FileInv
  <1>3. CASE CallInit(t) /\ init[t[1]]
    <2>1. /\ server \in [Threads -> {"none", "cleanup", "remove", "bind", "bound",
                                     "serving", "broken"}]
          /\ server' = [server EXCEPT ![t] = "cleanup"]
      BY <1>3 DEF TypeOK, WorkerTypes, CallInit
    <2>2. server[t] = "none"
      BY <1>3 DEF StartsOnce, CallInit
    <2>3. \A s \in Threads \ {t} : server'[s] = server[s]
      BY <2>1
    <2>4. server'[t] = "cleanup"
      BY <2>1
    <2>5. \A w \in Workers : Of(w) \subseteq Threads
      BY DEF Of
    <2> QED
      BY <1>1, <2>2, <2>3, <2>4, <2>5 DEF FileInv, Up, Starting
  <1> QED
    BY <1>2, <1>3 DEF Request, AskInit, CallInit, ResetInit, Count

\* A server thread leaves the name free only to take it.
LEMMA ServingFile ==
  ASSUME TypeOK, FileInv, NEW s \in Threads, Serving(s)
  PROVE  FileInv'
  <1> USE ConstantAssumption
  <1>1. /\ server \in [Threads -> {"none", "cleanup", "remove", "bind", "bound",
                                   "serving", "broken"}]
        /\ file \in [Workers -> Threads \cup {None, Stale, Plain}]
    BY DEF TypeOK, WorkerTypes
  <1>2. s[1] \in Workers /\ s \in Of(s[1]) /\ alive[s[1]]
        /\ \A w : Of(w) \subseteq Threads
    BY Owner DEF Serving, Stat, Remove, Bind, Listen, Of
  <1>3. UNCHANGED <<alive, tampered>>
        /\ \A t \in Threads \ {s} : server'[t] = server[t]
        /\ \A w \in Workers \ {s[1]} : file'[w] = file[w]
    BY <1>1 DEF Serving, Stat, Remove, Bind, Listen
  <1>4. \A w \in Workers \ {s[1]} : s \notin Of(w)
    BY Owner
  <1> SUFFICES ASSUME NEW w \in Workers
               PROVE  /\ file'[w] \in Threads =>
                           file'[w] \in Of(w) /\ (alive[w] => server'[file'[w]] \in Up)
                      /\ alive[w] /\ (\E t \in Of(w) : server'[t] \in Up) =>
                           /\ file'[w] \notin {Stale, Plain}
                           /\ \/ tampered[w] \/ file'[w] # None
                              \/ \E t \in Of(w) : server'[t] \in Starting
    BY <1>3 DEF FileInv
  <1>5. CASE w # s[1]
    <2>1. \A t \in Of(w) : server'[t] = server[t]
      BY <1>2, <1>3, <1>4, <1>5
    <2>2. file'[w] = file[w]
      BY <1>1, <1>2, <1>5 DEF Serving, Stat, Remove, Bind, Listen
    <2> QED
      BY <2>1, <2>2 DEF FileInv
  <1>6. CASE w = s[1] /\ Stat(s)
    <2>1. server[s] = "cleanup" /\ file' = file
          /\ server'[s] = IF file[w] \in {None, Plain} THEN "bind" ELSE "remove"
      BY <1>1, <1>6 DEF Stat
    <2>2. s # file[w]
      BY <1>2, <1>6, <2>1 DEF FileInv, Up
    <2> QED
      BY <1>2, <1>3, <1>6, <2>1, <2>2 DEF FileInv, Up, Starting
  <1>7. CASE w = s[1] /\ Remove(s)
    <2>1. server[s] = "remove" /\ server'[s] = "bind" /\ file'[w] \in {file[w], None}
      BY <1>1, <1>2, <1>7 DEF Remove
    <2>2. s # file[w]
      BY <1>2, <1>7, <2>1 DEF FileInv, Up
    <2> QED
      BY <1>2, <1>3, <1>7, <2>1, <2>2 DEF FileInv, Up, Starting
  <1>8. CASE w = s[1] /\ Bind(s)
    <2>1. server[s] = "bind"
      BY <1>8 DEF Bind
    <2>2. CASE file[w] = None
      <3>1. file'[w] = s /\ server'[s] = "bound"
        BY <1>1, <1>2, <1>8, <2>2 DEF Bind
      <3> QED
        BY <1>2, <1>8, <3>1 DEF Up
    <2>3. CASE file[w] # None
      <3>1. file' = file /\ server'[s] = "broken"
        BY <1>1, <1>8, <2>3 DEF Bind
      <3>2. s # file[w]
        BY <1>2, <1>8, <2>1 DEF FileInv, Up
      <3> QED
        BY <1>2, <1>3, <1>8, <2>3, <3>1, <3>2 DEF FileInv, Up
    <2> QED
      BY <2>2, <2>3
  <1>9. CASE w = s[1] /\ Listen(s)
    <2>1. server[s] = "bound" /\ server'[s] = "serving" /\ file' = file
      BY <1>1, <1>9 DEF Listen
    <2> QED
      BY <1>2, <1>3, <1>9, <2>1 DEF FileInv, Up, Starting
  <1> QED
    BY <1>5, <1>6, <1>7, <1>8, <1>9 DEF Serving

\* Of a worker that has ended nothing is asked but that its file was its own.
LEMMA EndFile ==
  ASSUME TypeOK, FileInv, NEW w \in Workers, Exit(w) \/ Kill(w)
  PROVE  FileInv'
  <1> USE ConstantAssumption
  <1>1. /\ server \in [Threads -> {"none", "cleanup", "remove", "bind", "bound",
                                   "serving", "broken"}]
        /\ file \in [Workers -> Threads \cup {None, Stale, Plain}]
        /\ alive \in [Workers -> BOOLEAN] /\ tampered \in [Workers -> BOOLEAN]
    BY DEF TypeOK, WorkerTypes
  <1>2. Gone(w) /\ (file' = file \/ file' = [file EXCEPT ![w] = None])
    BY DEF Exit, Kill
  <1>3. ~alive'[w]
    BY <1>1, <1>2 DEF Gone
  <1>4. /\ \A v \in Workers \ {w} :
             alive'[v] = alive[v] /\ tampered'[v] = tampered[v] /\ file'[v] = file[v]
        /\ file'[w] \in {file[w], None}
    BY <1>1, <1>2 DEF Gone
  <1>5. \A t \in Threads : t \notin Of(w) => server'[t] = server[t]
    BY <1>2 DEF Gone
  <1>6. \A v \in Workers \ {w} : \A t \in Of(v) : t \in Threads /\ t \notin Of(w)
    BY DEF Of
  <1> QED
    BY <1>3, <1>4, <1>5, <1>6 DEF FileInv

\* A scrape that removes the file of a living worker is noted.
LEMMA ScrapeFile ==
  ASSUME TypeOK, FileInv, NEW c \in Scrapers, Scrape(c)
  PROVE  FileInv'
  <1> USE ConstantAssumption
  <1>1. UNCHANGED <<alive, server>>
    BY DEF Scrape, ListDir, Connect, Denied, RemoveStale, KeepStale, Accept, SendRow, RowsEnd, RowsBreak,
           Disconnect, Finish
  <1>2. CASE RemoveStale(c)
    <2>1. at[c] \in Workers
      BY <1>2 DEF TypeOK, RemoveStale
    <2>2. /\ file \in [Workers -> Threads \cup {None, Stale, Plain}]
          /\ tampered \in [Workers -> BOOLEAN]
      BY DEF TypeOK, WorkerTypes
    <2>3. /\ file'[at[c]] = None
          /\ tampered'[at[c]] = (tampered[at[c]] \/ (alive[at[c]] /\ file[at[c]] \in Threads))
          /\ \A w \in Workers \ {at[c]} : file'[w] = file[w] /\ tampered'[w] = tampered[w]
      BY <1>2, <2>1, <2>2 DEF RemoveStale
    <2>4. file[at[c]] \in Threads \cup {None, Stale, Plain}
      BY <2>1, <2>2
    <2>5. ASSUME NEW w \in Workers
          PROVE  file'[w] \in Threads =>
                   file'[w] \in Of(w) /\ (alive[w] => server[file'[w]] \in Up)
      BY <2>3 DEF FileInv
    <2>6. ASSUME NEW w \in Workers, alive[w], \E s \in Of(w) : server[s] \in Up
          PROVE  /\ file'[w] \notin {Stale, Plain}
                 /\ \/ tampered'[w] \/ file'[w] # None
                    \/ \E s \in Of(w) : server[s] \in Starting
      <3>1. /\ file[w] \notin {Stale, Plain}
            /\ tampered[w] \/ (\E s \in Of(w) : server[s] \in Starting) \/ file[w] # None
        BY <2>6 DEF FileInv
      <3>2. CASE w = at[c]
        BY <2>3, <2>4, <2>6, <3>1, <3>2
      <3>3. CASE w # at[c]
        BY <2>3, <3>1, <3>3
      <3> QED
        BY <3>2, <3>3
    <2> QED
      BY <1>1, <2>5, <2>6 DEF FileInv
  <1>3. CASE UNCHANGED <<file, tampered>>
    BY <1>1, <1>3 DEF FileInv
  <1> QED
    BY <1>2, <1>3 DEF Scrape, ListDir, Connect, Denied, KeepStale, Accept, SendRow,
                      RowsEnd, RowsBreak, Disconnect, Finish

-----------------------------------------------------------------------------
(* Who knows and who starts. *)

\* A thread is counted by its own worker, and starts one server thread.
LEMMA NextKnown ==
  ASSUME TypeOK, KnownInv, StartsOnce, [Next]_vars
  PROVE  KnownInv' /\ StartsOnce'
  <1> USE ConstantAssumption
  <1>1. WorkerTypes
    BY DEF TypeOK
  <1>2. CASE UNCHANGED <<requests, server>>
    BY <1>2 DEF KnownInv, StartsOnce, requests
  <1>3. ASSUME NEW t \in Threads, Request(t)
        PROVE  KnownInv' /\ StartsOnce'
    <2>1. t[1] \in Workers /\ t \in Of(t[1])
      BY Owner
    <2>2. KnownInv'
      BY <1>1, <1>3, <2>1
         DEF WorkerTypes, KnownInv, Request, AskInit, CallInit, ResetInit, Count
    <2>3. \A u \in Threads : u[1] \in Workers
      OBVIOUS
    <2>4. CASE AskInit(t)
      BY <1>1, <2>2, <2>4 DEF WorkerTypes, StartsOnce, AskInit
    <2>5. CASE CallInit(t)
      BY <1>1, <2>2, <2>5 DEF WorkerTypes, StartsOnce, CallInit
    <2>6. CASE ResetInit(t)
      BY <1>1, <2>1, <2>2, <2>3, <2>6 DEF WorkerTypes, StartsOnce, ResetInit
    <2>7. CASE Count(t)
      BY <1>1, <2>2, <2>7 DEF WorkerTypes, StartsOnce, Count
    <2> QED
      BY <1>3, <2>2, <2>4, <2>5, <2>6, <2>7 DEF Request
  <1>4. ASSUME NEW s \in Threads, Serving(s)
        PROVE  KnownInv' /\ StartsOnce'
    <2>1. UNCHANGED requests
      BY <1>4 DEF Serving, Stat, Remove, Bind, Listen
    <2>2. server[s] # "none" /\ \A t \in Threads \ {s} : server'[t] = server[t]
      BY <1>1, <1>4 DEF WorkerTypes, Serving, Stat, Remove, Bind, Listen
    <2> QED
      BY <2>1, <2>2 DEF KnownInv, StartsOnce, requests
  <1>5. ASSUME NEW w \in Workers, Exit(w) \/ Kill(w)
        PROVE  KnownInv' /\ StartsOnce'
    <2>1. Gone(w)
      BY <1>5 DEF Exit, Kill
    <2>2. KnownInv'
      BY <1>1, <2>1 DEF WorkerTypes, KnownInv, Gone
    <2>3. ASSUME NEW t \in Threads
          PROVE  server'[t] = "none" \/ pc'[t] = "reset" \/ ~init'[t[1]]
      <3>1. CASE t \in Of(w)
        BY <2>1, <3>1 DEF Gone
      <3>2. CASE t \notin Of(w)
        <4>1. t[1] \in Workers \ {w}
          BY <3>2, Owner
        <4> QED
          BY <1>1, <2>1, <3>2, <4>1 DEF WorkerTypes, StartsOnce, Gone
      <3> QED
        BY <3>1, <3>2
    <2> QED
      BY <2>2, <2>3 DEF StartsOnce
  <1>6. ASSUME NEW c \in Scrapers, Scrape(c)
        PROVE  UNCHANGED <<requests, server>>
    BY <1>6 DEF Scrape, ListDir, Connect, Denied, RemoveStale, KeepStale, Accept, SendRow, RowsEnd,
                RowsBreak, Disconnect, Finish
  <1> QED
    BY <1>2, <1>3, <1>4, <1>5, <1>6 DEF Next, vars

-----------------------------------------------------------------------------
(* Scrapes. *)

\* A worker does nothing to a scrape but end, or have one more thread.
LEMMA WorkerScrape ==
  ASSUME ScrapeInv, UNCHANGED scrapes,
         \A w \in Workers : alive'[w] => alive[w] /\ known[w] \subseteq known'[w]
  PROVE  ScrapeInv'
  <1> SUFFICES ASSUME NEW c \in Scrapers PROVE Sound(c)'
    BY DEF ScrapeInv
  <1>1. Sound(c)
    BY DEF ScrapeInv
  <1>2. UNCHANGED <<phase[c], todo[c], at[c], rows[c], size[c], got[c], listed[c], answer[c]>>
    BY DEF scrapes
  <1>3. ASSUME NEW w \in Workers, alive'[w]
        PROVE  /\ listed[c] \cap Of(w) \subseteq known'[w]
               /\ at[c] = w /\ phase[c] = "reading" =>
                    listed[c] \cap Of(w) \subseteq size[c] /\ size[c] \subseteq known'[w]
               /\ listed[c] \cap Of(w) = known'[w] =>
                    known'[w] \subseteq got[c] \cup AtHand(c, w)'
    <2>1. alive[w] /\ known[w] \subseteq known'[w] /\ listed[c] \cap Of(w) \subseteq known[w]
      BY <1>1, <1>3 DEF Sound
    <2>2. known'[w] = known[w] => AtHand(c, w)' = AtHand(c, w)
      BY <1>2 DEF AtHand
    <2> QED
      BY <1>1, <2>1, <2>2 DEF Sound
  <1> QED
    BY <1>1, <1>2, <1>3 DEF Sound

\* A scrape does nothing to another.
LEMMA OtherScrapes ==
  ASSUME ScrapeInv, NEW c \in Scrapers, UNCHANGED <<alive, known>>,
         \A d \in Scrapers \ {c} :
           UNCHANGED <<phase[d], todo[d], at[d], rows[d], size[d], got[d], listed[d], answer[d]>>,
         Sound(c)'
  PROVE  ScrapeInv'
  <1> SUFFICES ASSUME NEW d \in Scrapers \ {c} PROVE Sound(d)'
    BY DEF ScrapeInv
  <1>1. Sound(d)
    BY DEF ScrapeInv
  <1> QED
    BY <1>1 DEF Sound, AtHand

\* What each step of a scrape does to what it is at and what it has.
LEMMA ScrapeSteps ==
  ASSUME TypeOK, NEW c \in Scrapers, Scrape(c)
  PROVE  /\ UNCHANGED <<alive, known>>
         /\ \A d \in Scrapers \ {c} :
              UNCHANGED <<phase[d], todo[d], at[d], rows[d], size[d], got[d], listed[d], answer[d]>>
  <1>1. ScrapeTypes
    BY DEF TypeOK
  <1>2. UNCHANGED <<alive, known>>
    BY DEF Scrape, ListDir, Connect, Denied, RemoveStale, KeepStale, Accept, SendRow, RowsEnd,
           RowsBreak, Disconnect, Finish, requests
  <1>3. ASSUME NEW d \in Scrapers \ {c}
        PROVE  UNCHANGED <<phase[d], todo[d], at[d], rows[d], size[d], got[d], listed[d],
                           answer[d]>>
    <2>1. CASE ListDir(c)
      BY <1>1, <2>1 DEF ScrapeTypes, ListDir, AnswerBegins
    <2>2. CASE Leave(c) \/ Abort(c)
      BY <1>1, <2>2 DEF ScrapeTypes, Leave, Abort, Forget, AnswerEnds
    <2>3. ASSUME NEW w \in Workers, Connect(c, w), ~Abort(c)
          PROVE  UNCHANGED <<phase[d], todo[d], at[d], rows[d], size[d], got[d], listed[d],
                             answer[d]>>
      BY <1>1, <2>3 DEF ScrapeTypes, Connect
    <2>4. CASE Accept(c) \/ Finish(c)
      BY <1>1, <2>4 DEF ScrapeTypes, Accept, Finish, AnswerEnds
    <2>5. ASSUME NEW t \in Threads, SendRow(c, t)
          PROVE  UNCHANGED <<phase[d], todo[d], at[d], rows[d], size[d], got[d], listed[d],
                             answer[d]>>
      BY <1>1, <2>5 DEF ScrapeTypes, SendRow
    <2> QED
      BY <2>1, <2>2, <2>3, <2>4, <2>5
         DEF Scrape, Denied, RemoveStale, KeepStale, RowsEnd, RowsBreak, Disconnect
  <1> QED
    BY <1>2, <1>3

\* A scrape sets out for the threads of the files that it has yet to come to.
LEMMA ListDirSound ==
  ASSUME TypeOK, KnownInv, FileInv, NEW c \in Scrapers, ListDir(c)
  PROVE  Sound(c)'
  <1> USE ConstantAssumption
  <1>2. /\ phase'[c] = "next"
        /\ answer'[c] \in {"none", "streamed"}
        /\ todo'[c] = {w \in Workers : file[w] # None}
        /\ listed'[c] = UNION {known[w] : w \in {v \in Workers : Listens(file[v])}}
        /\ UNCHANGED <<alive, known>>
    BY DEF TypeOK, ScrapeTypes, ListDir, AnswerBegins, requests
  <1>3. ASSUME NEW w \in Workers, NEW t \in listed'[c] \cap Of(w)
        PROVE  t \in known[w] /\ w \in todo'[c]
    <2>1. PICK v \in Workers : Listens(file[v]) /\ t \in known[v]
      BY <1>2, <1>3
    <2>2. t \in Of(v) /\ t \in Of(w)
      BY <1>3, <2>1 DEF KnownInv
    <2>3. v = w
      BY <2>2 DEF Of
    <2>4. file[w] # None
      BY <2>1, <2>3 DEF Listens
    <2> QED
      BY <1>2, <2>1, <2>3, <2>4
  <1>4. ASSUME NEW w \in Workers, listed'[c] \cap Of(w) = known[w]
        PROVE  known[w] \subseteq got'[c] \cup AtHand(c, w)'
    <2>1. CASE known[w] = {}
      BY <2>1
    <2>2. CASE known[w] # {}
      <3>1. w \in todo'[c]
        BY <1>3, <1>4, <2>2
      <3> QED
        BY <1>2, <3>1 DEF AtHand
    <2> QED
      BY <2>1, <2>2
  <1> QED
    BY <1>2, <1>3, <1>4 DEF Sound

\* A scrape that raised has set out for nothing any more.
LEMMA AbortSound ==
  ASSUME TypeOK, NEW c \in Scrapers, Abort(c), UNCHANGED <<alive, known>>,
         Sound(c), phase[c] # "ok"
  PROVE  Sound(c)'
  <1>1. /\ phase'[c] = "raised" /\ listed'[c] = {} /\ got'[c] = {}
        /\ answer'[c] = IF answer[c] = "none" THEN "500" ELSE answer[c]
    BY DEF TypeOK, ScrapeTypes, Abort, Forget, AnswerEnds
  <1> QED
    BY <1>1 DEF Sound

\* A worker that takes the connection is at hand, one that refuses it was not
\* to be had.
LEMMA ConnectSound ==
  ASSUME TypeOK, NEW c \in Scrapers, NEW w \in Workers, Connect(c, w), Sound(c)
  PROVE  Sound(c)'
  <1>1. phase[c] = "next" /\ UNCHANGED <<alive, known>>
    BY DEF Connect, requests
  <1>2. CASE file[w] = None
    BY <1>1, <1>2, AbortSound DEF Connect
  <1>3. CASE file[w] # None
    <2>1. /\ phase'[c] = IF Listens(file[w]) THEN "waiting" ELSE "refused"
          /\ at'[c] = w /\ todo'[c] = todo[c] \ {w}
          /\ listed'[c] = IF Listens(file[w]) THEN listed[c] ELSE listed[c] \ Of(w)
          /\ UNCHANGED <<got, answer>>
      BY <1>3 DEF TypeOK, ScrapeTypes, Connect
    <2>2. \A v \in Workers \ {w} : listed'[c] \cap Of(v) = listed[c] \cap Of(v)
      BY <2>1 DEF Of
    <2>3. ASSUME NEW v \in Workers, alive[v], listed'[c] \cap Of(v) = known[v]
          PROVE  known[v] \subseteq got[c] \cup AtHand(c, v)'
      <3>1. CASE v # w
        <4>1. known[v] \subseteq got[c] \cup AtHand(c, v)
          BY <2>2, <2>3, <3>1 DEF Sound
        <4>2. AtHand(c, v) \subseteq AtHand(c, v)'
          BY <1>1, <2>1, <3>1 DEF AtHand
        <4> QED
          BY <4>1, <4>2
      <3>2. CASE v = w /\ Listens(file[w])
        BY <1>1, <2>1, <3>2 DEF AtHand
      <3>3. CASE v = w /\ ~Listens(file[w])
        BY <2>1, <2>3, <3>3
      <3> QED
        BY <3>1, <3>2, <3>3
    <2>4. \A v \in Workers : listed'[c] \cap Of(v) \subseteq listed[c] \cap Of(v)
      BY <2>1
    <2>5. phase'[c] \notin {"ok", "reading"} /\ answer'[c] # "200"
      BY <1>1, <2>1 DEF Sound
    <2> QED
      BY <1>1, <2>1, <2>3, <2>4, <2>5 DEF Sound
  <1> QED
    BY <1>2, <1>3

\* The worker at hand, if it is one, has given its rows when it is left.
LEMMA LeaveSound ==
  ASSUME TypeOK, NEW c \in Scrapers, Leave(c), UNCHANGED <<alive, known>>, Sound(c),
         phase[c] # "ok",
         \A w \in Workers : alive[w] /\ at[c] = w /\ phase[c] \in {"waiting", "reading"} =>
           phase[c] = "reading" /\ (rows[c] = {} \/ size[c] # known[w])
  PROVE  Sound(c)'
  <1>1. /\ phase'[c] = "next"
        /\ UNCHANGED <<todo, got, listed, answer>>
    BY DEF TypeOK, ScrapeTypes, Leave, Forget
  <1>2. ASSUME NEW w \in Workers, alive[w], listed[c] \cap Of(w) = known[w]
        PROVE  known[w] \subseteq got[c] \cup AtHand(c, w)'
    <2>1. known[w] \subseteq got[c] \cup AtHand(c, w)
      BY <1>2 DEF Sound
    <2>2. AtHand(c, w)' = IF w \in todo[c] THEN known[w] ELSE {}
      BY <1>1 DEF AtHand
    <2>3. CASE at[c] = w /\ phase[c] \in {"waiting", "reading"}
      <3>1. phase[c] = "reading" /\ (rows[c] = {} \/ size[c] # known[w])
        BY <1>2, <2>3
      <3>2. listed[c] \cap Of(w) \subseteq size[c] /\ size[c] \subseteq known[w]
        BY <1>2, <2>3, <3>1 DEF Sound
      <3>3. rows[c] = {}
        BY <1>2, <3>1, <3>2
      <3> QED
        BY <2>1, <2>2, <3>1, <3>3 DEF AtHand
    <2>4. CASE ~(at[c] = w /\ phase[c] \in {"waiting", "reading"})
      BY <2>1, <2>2, <2>4 DEF AtHand
    <2> QED
      BY <2>3, <2>4
  <1> QED
    BY <1>1, <1>2 DEF Sound

\* The handler has the rows of all threads to send, and sends them.
LEMMA ReadSound ==
  ASSUME TypeOK, NEW c \in Scrapers, Sound(c),
         Accept(c) \/ \E t \in Threads : SendRow(c, t)
  PROVE  Sound(c)'
  <1>1. phase[c] \in {"waiting", "reading"} /\ at[c] \in Workers
        /\ UNCHANGED <<alive, known, todo, at, listed, answer>>
    BY DEF TypeOK, Accept, SendRow, requests
  <1>2. phase'[c] = "reading"
    BY DEF TypeOK, ScrapeTypes, Accept, SendRow
  <1>3. CASE Accept(c)
    <2>1. rows'[c] = known[at[c]] /\ size'[c] = known[at[c]] /\ UNCHANGED got
          /\ phase[c] = "waiting"
      BY <1>3 DEF TypeOK, ScrapeTypes, Accept
    <2>2. \A w \in Workers : AtHand(c, w)' = AtHand(c, w)
      BY <1>1, <1>2, <2>1 DEF AtHand
    <2> QED
      BY <1>1, <1>2, <2>1, <2>2 DEF Sound
  <1>4. ASSUME NEW t \in Threads, SendRow(c, t) PROVE Sound(c)'
    <2>1. rows'[c] = rows[c] \ {t} /\ got'[c] = got[c] \cup {t} /\ UNCHANGED size
          /\ phase[c] = "reading"
      BY <1>4 DEF TypeOK, ScrapeTypes, SendRow
    <2>2. \A w \in Workers : AtHand(c, w) \subseteq AtHand(c, w)' \cup {t}
      BY <1>1, <1>2, <2>1 DEF AtHand
    <2> QED
      BY <1>1, <1>2, <2>1, <2>2 DEF Sound
  <1> QED
    BY <1>3, <1>4

\* When there is no file left, there is no worker left to come to.
LEMMA FinishSound ==
  ASSUME TypeOK, NEW c \in Scrapers, Finish(c), Sound(c)
  PROVE  Sound(c)'
  <1>1. /\ phase[c] = "next" /\ todo[c] = {} /\ phase'[c] = "ok"
        /\ UNCHANGED <<alive, known, todo, at, got, listed>>
    BY DEF TypeOK, ScrapeTypes, Finish, requests
  <1>2. \A w \in Workers : AtHand(c, w) = {} /\ AtHand(c, w)' = {}
    BY <1>1 DEF AtHand
  <1> QED
    BY <1>1, <1>2 DEF Sound

\* Every step of a scrape keeps its account.
LEMMA ScrapeScrape ==
  ASSUME TypeOK, KnownInv, FileInv, ScrapeInv, NEW c \in Scrapers, Scrape(c)
  PROVE  ScrapeInv'
  <1>1. Sound(c) /\ UNCHANGED <<alive, known>>
    BY ScrapeSteps DEF ScrapeInv
  <1>2. CASE RemoveStale(c) \/ KeepStale(c) \/ RowsEnd(c) \/ RowsBreak(c)
    <2>1. Leave(c) /\ phase[c] # "ok"
      BY <1>2 DEF RemoveStale, KeepStale, RowsEnd, RowsBreak
    <2>2. \A w \in Workers : alive[w] /\ at[c] = w /\ phase[c] \in {"waiting", "reading"} =>
            phase[c] = "reading" /\ (rows[c] = {} \/ size[c] # known[w])
      BY <1>2 DEF RemoveStale, KeepStale, RowsEnd, RowsBreak
    <2> QED
      BY <1>1, <2>1, <2>2, LeaveSound, OtherScrapes, ScrapeSteps
  <1>3. CASE Disconnect(c)
    <2>1. (Leave(c) \/ Abort(c)) /\ phase[c] # "ok" /\ ~alive[at[c]]
      BY <1>3 DEF Disconnect
    <2>2. Sound(c)'
      BY <1>1, <2>1, LeaveSound, AbortSound
    <2> QED
      BY <1>1, <2>2, OtherScrapes, ScrapeSteps
  <1>4. CASE Denied(c)
    <2>1. Sound(c)'
      BY <1>1, <1>4, AbortSound DEF Denied
    <2> QED
      BY <1>1, <2>1, OtherScrapes, ScrapeSteps
  <1>5. CASE ~(\/ RemoveStale(c) \/ KeepStale(c) \/ RowsEnd(c) \/ RowsBreak(c)
             \/ Disconnect(c) \/ Denied(c))
    <2>1. Sound(c)'
      BY <1>1, <1>5, ListDirSound, ConnectSound, ReadSound, FinishSound DEF Scrape
    <2> QED
      BY <1>1, <2>1, OtherScrapes, ScrapeSteps
  <1> QED
    BY <1>2, <1>3, <1>4, <1>5

-----------------------------------------------------------------------------

\* Every step keeps the invariant.
LEMMA NextIInv == IInv /\ [Next]_vars => IInv'
  <1> SUFFICES ASSUME IInv, [Next]_vars PROVE IInv'
    OBVIOUS
  <1>1. TypeOK /\ KnownInv /\ StartsOnce /\ FileInv /\ ScrapeInv
    BY DEF IInv
  <1>2. KnownInv' /\ StartsOnce'
    BY <1>1, NextKnown
  <1>3. CASE UNCHANGED vars
    <2>1. TypeOK' /\ FileInv'
      BY <1>1, <1>3 DEF vars, scrapes, requests, TypeOK, WorkerTypes, ScrapeTypes, FileInv
    <2>2. ScrapeInv'
      BY <1>1, <1>3, WorkerScrape DEF vars, requests
    <2> QED
      BY <1>2, <2>1, <2>2 DEF IInv
  <1>4. ASSUME NEW t \in Threads, Request(t) \/ Serving(t) PROVE IInv'
    <2>1. TypeOK' /\ FileInv'
      BY <1>1, <1>4, RequestType, ServingType, RequestFile, ServingFile
    <2>2. UNCHANGED <<alive, scrapes>> /\ \A w \in Workers : known[w] \subseteq known'[w]
      BY <1>1, <1>4, Owner
         DEF TypeOK, WorkerTypes, Request, AskInit, CallInit, ResetInit, Count,
             Serving, Stat, Remove, Bind, Listen, requests
    <2> QED
      BY <1>1, <1>2, <2>1, <2>2, WorkerScrape DEF IInv
  <1>5. ASSUME NEW w \in Workers, Exit(w) \/ Kill(w) PROVE IInv'
    <2>1. TypeOK' /\ FileInv'
      BY <1>1, <1>5, EndType, EndFile
    <2>2. UNCHANGED scrapes
          /\ \A v \in Workers : alive'[v] => alive[v] /\ known[v] \subseteq known'[v]
      BY <1>1, <1>5 DEF TypeOK, WorkerTypes, Exit, Kill, Gone
    <2> QED
      BY <1>1, <1>2, <2>1, <2>2, WorkerScrape DEF IInv
  <1>6. ASSUME NEW c \in Scrapers, Scrape(c) PROVE IInv'
    BY <1>1, <1>2, <1>6, ScrapeType, ScrapeFile, ScrapeScrape DEF IInv
  <1> QED
    BY <1>3, <1>4, <1>5, <1>6 DEF Next

\* The invariants hold in every reachable state.
THEOREM Invariance == Spec => []IInv
  BY InitIInv, NextIInv, PTL DEF Spec

\* Once the server threads that a worker started are past their start, one that
\* listens has its file, unless a scrape took it for a dead worker's.
THEOREM OneHasTheFile == Spec => []LiveFileThere
  <1>1. IInv => LiveFileThere
    <2> SUFFICES ASSUME IInv, NEW w \in Workers, alive[w], ~tampered[w],
                        \A s \in Of(w) : server[s] \in {"none", "serving", "broken"},
                        \E s \in Of(w) : server[s] = "serving"
                 PROVE  Listens(file[w])
      BY DEF LiveFileThere
    <2>1. file[w] \in Threads \cup {None, Stale, Plain}
      BY DEF IInv, TypeOK, WorkerTypes
    <2>2. file[w] \notin {None, Stale, Plain}
      BY DEF IInv, FileInv, Up, Starting
    <2>3. file[w] \in Of(w) /\ server[file[w]] \in Up
      BY <2>1, <2>2 DEF IInv, FileInv
    <2>4. server[file[w]] = "serving" /\ file[w][1] = w
      BY <2>3 DEF Up, Of
    <2> QED
      BY <2>1, <2>2, <2>4 DEF Listens
  <1> QED
    BY <1>1, Invariance, PTL

\* An answer with status 200 has the rows of every thread of a worker that lived
\* on, had no new ones and did not refuse the scrape.
THEOREM RowsAreThere == Spec => []ScrapeComplete
  <1>1. IInv => ScrapeComplete
    <2> SUFFICES ASSUME IInv, NEW c \in Scrapers, NEW w \in Workers,
                        answer[c] = "200" \/ (answer[c] = "streamed" /\ phase[c] = "ok"),
                        alive[w], listed[c] \cap Of(w) = known[w]
                 PROVE  known[w] \subseteq got[c]
      BY DEF ScrapeComplete
    <2>1. Sound(c)
      BY DEF IInv, ScrapeInv
    <2>2. phase[c] = "ok" /\ todo[c] = {}
      BY <2>1 DEF Sound
    <2>3. AtHand(c, w) = {}
      BY <2>2 DEF AtHand
    <2> QED
      BY <2>1, <2>3 DEF Sound
  <1> QED
    BY <1>1, Invariance, PTL

-----------------------------------------------------------------------------
(***************************************************************************)
(* Two facts about WorkerStatus, the seconds of one thread, for every      *)
(* clock: what it counts is what has been spent, and a row read while the  *)
(* thread stores nothing is off by no more than the time that it has had   *)
(* the beginning or the end of a request in hand.                          *)
(*                                                                         *)
(* The argument: at each place of the request thread the totals and the    *)
(* seconds since its last assignment add up to the time spent; a reading   *)
(* that is quiet has seen no request begin or end, so that what it has     *)
(* read of the thread's attributes is still their value.                   *)
(***************************************************************************)

\* What a reading has, by how far it is.
LEMMA ReadingFields ==
  ASSUME NEW r \in Readings
  PROVE  /\ r.at \in {"start", "ended", "total", "clock", "since"}
         /\ r.at = "start" => r = NoReading
         /\ r.at # "start" => r.row \in Rows /\ r.quiet \in BOOLEAN
         /\ r.at = "ended" => r \in [at : {"ended"}, row : Rows, quiet : BOOLEAN, started : Int]
         /\ r.at = "total" => r \in [at : {"total"}, row : Rows, quiet : BOOLEAN, inRequest : BOOLEAN]
         /\ r.at = "clock" => r \in [at : {"clock"}, row : Rows, quiet : BOOLEAN, sum : Int]
         /\ r.at = "since" => r \in [at : {"since"}, row : Rows, quiet : BOOLEAN,
                                     sum : Int, exact : Int, pending : Nat]
BY DEF Readings, NoReading

\* A reading that is disturbed is no longer quiet.
LEMMA DisturbedReading ==
  ASSUME reader \in Readings, Disturb
  PROVE  /\ reader' \in Readings
         /\ reader'.at = "start" \/ ~reader'.quiet
<1>1. CASE reader.at = "start"
  BY <1>1 DEF Disturb, Readings, NoReading
<1>2. CASE reader.at # "start"
  <2>1. reader' = [reader EXCEPT !.quiet = FALSE]
    BY <1>2 DEF Disturb
  <2> QED
    BY <1>2, <2>1, ReadingFields DEF Readings
<1> QED
  BY <1>1, <1>2

\* Both totals are right at the start.
LEMMA StatusInitInv == StatusInit => StatusIInv
BY StatusConstants DEF StatusInit, StatusIInv, StatusTypeOK, Rows, Readings, NoReading,
                             TotalsSay, Since, ReadingHolds, OffByPending

-----------------------------------------------------------------------------

\* The clock moves on: what is spent is that second.
LEMMA TickKeeps ==
  ASSUME StatusIInv, Tick
  PROVE  StatusIInv'
<1> USE StatusConstants
<1>1. StatusTypeOK /\ TotalsSay /\ ReadingHolds /\ OffByPending
  BY DEF StatusIInv
<1>2. StatusTypeOK'
  BY <1>1 DEF StatusTypeOK, Tick, request, Rows, SpentOn
<1>3. TotalsSay'
  BY <1>1 DEF StatusTypeOK, TotalsSay, Since, Tick, SpentOn, request, Rows
<1>4. ReadingHolds'
  BY <1>1 DEF ReadingHolds, Tick, request, Settled,
              Current
<1>5. OffByPending'
  BY <1>1 DEF OffByPending, Tick
<1> QED
  BY <1>2, <1>3, <1>4, <1>5 DEF StatusIInv

\* The clock is read: only what is in hand changes.
LEMMA LookKeeps ==
  ASSUME StatusIInv, LookAtClock
  PROVE  StatusIInv'
<1>1. StatusTypeOK /\ TotalsSay /\ ReadingHolds /\ OffByPending
  BY DEF StatusIInv
<1>2. /\ doing \in {"rest", "body", "ending"}
      /\ doing' = CASE doing = "rest" -> "entering" [] doing = "body" -> "leaving"
                     [] doing = "ending" -> "closing"
      /\ looked' = now /\ UNCHANGED <<now, started, ended, total, reader, last, spent>>
  BY DEF LookAtClock, Looks
<1>3. StatusTypeOK'
  BY <1>1, <1>2 DEF StatusTypeOK
<1>4. TotalsSay'
  BY <1>1, <1>2 DEF StatusTypeOK, TotalsSay, Since, Rows
<1>5. (Settled => Settled') /\ (Settled => Current' = Current)
  BY <1>2 DEF Settled, Current
<1>6. ReadingHolds'
  BY <1>1, <1>2, <1>5 DEF ReadingHolds
<1>7. OffByPending'
  BY <1>1, <1>2 DEF OffByPending
<1> QED
  BY <1>3, <1>4, <1>6, <1>7 DEF StatusIInv

\* The request thread keeps the totals, and disturbs who reads them.
LEMMA RequestKeeps ==
  ASSUME StatusIInv, Begin \/ CountIdle \/ CountBusy \/ Raise \/ End
  PROVE  StatusIInv'
<1>1. StatusTypeOK /\ TotalsSay /\ ReadingHolds /\ OffByPending
  BY DEF StatusIInv
<1>2. Disturb /\ UNCHANGED <<now, last>>
  BY DEF Begin, CountIdle, CountBusy, Raise, End
<1>3. reader' \in Readings /\ (reader'.at = "start" \/ ~reader'.quiet)
  BY <1>1, <1>2, DisturbedReading DEF StatusTypeOK
<1>4. /\ doing' \in {"rest", "entering", "beginning", "body", "leaving", "ending", "closing"}
      /\ started' \in 0 .. now' /\ ended' \in 0 .. now' /\ looked' \in 0 .. now'
      /\ total' \in [Rows -> Nat] /\ spent' \in [Rows -> Nat]
  BY <1>1 DEF StatusTypeOK, TotalsSay, Since, Begin,
              CountIdle, CountBusy, Raise, End, Rows
<1>5. StatusTypeOK'
  BY <1>1, <1>2, <1>3, <1>4 DEF StatusTypeOK
<1>6. TotalsSay'
  BY <1>1 DEF StatusTypeOK, TotalsSay, Since, Begin,
              CountIdle, CountBusy, Raise, End, Rows
<1>7. ReadingHolds'
  BY <1>3 DEF ReadingHolds
<1>8. OffByPending'
  BY <1>1, <1>2 DEF OffByPending
<1> QED
  BY <1>5, <1>6, <1>7, <1>8 DEF StatusIInv

\* What the steps of a reading leave alone.
LEMMA ReaderLeaves ==
  ASSUME StatusIInv, UNCHANGED <<now, request, spent>>,
         reader' \in Readings, last' \in [value : Int, exact : Int, pending : Nat],
         ReadingHolds', OffByPending'
  PROVE  StatusIInv'
<1>1. StatusTypeOK'
  BY DEF StatusIInv, StatusTypeOK, request
<1>2. TotalsSay'
  BY DEF StatusIInv, TotalsSay, Since, request
<1> QED
  BY <1>1, <1>2 DEF StatusIInv

\* request_started_at is read of a thread that may be settled.
LEMMA ReadStartedKeeps ==
  ASSUME StatusIInv, NEW row \in Rows, ReadStarted(row)
  PROVE  StatusIInv'
<1>1. StatusTypeOK /\ OffByPending
  BY DEF StatusIInv
<1>2. reader' = [at |-> "ended", row |-> row, started |-> started, quiet |-> Settled]
  BY DEF ReadStarted
<1>3. reader' \in Readings
  BY <1>1, <1>2 DEF StatusTypeOK, Readings, Settled
<1>4. ReadingHolds'
  <2>1. /\ reader'.at = "ended" /\ reader'.started = started
        /\ reader'.quiet = Settled
    BY <1>2
  <2>2. started' = started /\ (Settled' <=> Settled)
    BY DEF ReadStarted, Settled, request
  <2> QED
    BY <2>1, <2>2 DEF ReadingHolds
<1> QED
  BY <1>1, <1>3, <1>4, ReaderLeaves DEF ReadStarted, StatusTypeOK,
                                        OffByPending

\* If it is, in_request is whether it is in a request.
LEMMA ReadEndedKeeps ==
  ASSUME StatusIInv, ReadEnded
  PROVE  StatusIInv'
<1>1. StatusTypeOK /\ TotalsSay /\ ReadingHolds /\ OffByPending
  BY DEF StatusIInv
<1>2. /\ reader.row \in Rows /\ reader.quiet \in BOOLEAN /\ reader.at = "ended"
  BY <1>1, ReadingFields DEF StatusTypeOK, ReadEnded
<1>3. reader' = [at |-> "total", row |-> reader.row, quiet |-> reader.quiet,
                 inRequest |-> reader.started > ended]
  BY DEF ReadEnded, InRequest
<1>4. reader' \in Readings
  BY <1>2, <1>3 DEF Readings
<1>5. ReadingHolds'
  <2> SUFFICES ASSUME reader.quiet
               PROVE  Settled /\ (reader.started > ended <=> Current =
               "busy")
    <3>1. /\ reader'.at = "total" /\ reader'.quiet = reader.quiet
          /\ reader'.inRequest = (reader.started > ended)
      BY <1>3
    <3>2. (Settled' <=> Settled) /\ Current' = Current
      BY DEF ReadEnded, request, Settled, Current
    <3> QED
      BY <3>1, <3>2 DEF ReadingHolds
  <2>1. Settled /\ reader.started = started
    BY <1>1, <1>2 DEF ReadingHolds
  <2> QED
    BY <1>1, <2>1 DEF StatusTypeOK, TotalsSay, Settled, Current
<1> QED
  BY <1>1, <1>4, <1>5, ReaderLeaves DEF ReadEnded, StatusTypeOK,
                                        OffByPending

\* The row that the thread is not at is what has been spent.
LEMMA ReadTotalKeeps ==
  ASSUME StatusIInv, ReadTotal
  PROVE  StatusIInv'
<1>1. StatusTypeOK /\ TotalsSay /\ ReadingHolds /\ OffByPending
  BY DEF StatusIInv
<1>2. /\ reader.row \in Rows /\ reader.quiet \in BOOLEAN /\ reader.at = "total"
      /\ reader.inRequest \in BOOLEAN
  BY <1>1, ReadingFields DEF StatusTypeOK, ReadTotal
<1>3. total[reader.row] \in Nat /\ spent[reader.row] \in Nat
  BY <1>1, <1>2 DEF StatusTypeOK
<1>4. reader.quiet => Settled /\ (reader.inRequest <=> Current = "busy")
  BY <1>1, <1>2 DEF ReadingHolds
<1>5. CASE reader.inRequest = (reader.row = "busy")
  <2>1. /\ reader' = [at |-> "clock", row |-> reader.row, quiet |-> reader.quiet,
                      sum |-> total[reader.row]]
        /\ UNCHANGED last
    BY <1>5 DEF ReadTotal
  <2>2. reader' \in Readings
    BY <1>2, <1>3, <2>1 DEF Readings
  <2>3. reader.quiet => reader.row = Current
    BY <1>2, <1>4, <1>5 DEF Current, Rows
  <2>4. ReadingHolds'
    BY <1>4, <2>1, <2>3 DEF ReadingHolds, ReadTotal, request,
                            Settled, Current
  <2> QED
    BY <1>1, <2>1, <2>2, <2>4, ReaderLeaves DEF ReadTotal, StatusTypeOK,
       OffByPending
<1>6. CASE reader.inRequest # (reader.row = "busy")
  <2>0. Pending \in Nat
    BY <1>1 DEF Pending, StatusTypeOK
  <2>1. Yields(total[reader.row], spent[reader.row], Pending)
    BY <1>6 DEF ReadTotal
  <2>2. reader.quiet => total[reader.row] - spent[reader.row] \in -Pending .. Pending
    <3> SUFFICES ASSUME reader.quiet PROVE Since(reader.row) \in 0 .. Pending
      BY <1>1, <1>2, <1>3, <2>0 DEF TotalsSay
    <3>1. Settled /\ reader.row # Current
      BY <1>2, <1>4, <1>6 DEF Current, Rows
    <3> QED
      BY <1>1, <1>2, <2>0, <3>1 DEF Settled, Current, Since, Pending, Rows, StatusTypeOK
  <2>3. reader' = NoReading /\ reader' \in Readings
    BY <2>1 DEF Yields, Readings
  <2>4. last' \in [value : Int, exact : Int, pending : Nat] /\ OffByPending'
    BY <1>1, <1>3, <2>0, <2>1, <2>2 DEF Yields, StatusTypeOK, OffByPending
  <2>5. ReadingHolds'
    BY <2>3 DEF ReadingHolds, NoReading
  <2> QED
    BY <2>3, <2>4, <2>5, ReaderLeaves DEF ReadTotal
<1> QED
  BY <1>5, <1>6

\* The row that the thread is at: its total, and now the clock ...
LEMMA ReadClockKeeps ==
  ASSUME StatusIInv, ReadClock
  PROVE  StatusIInv'
<1>1. StatusTypeOK /\ TotalsSay /\ ReadingHolds /\ OffByPending
  BY DEF StatusIInv
<1>2. /\ reader.row \in Rows /\ reader.quiet \in BOOLEAN /\ reader.at = "clock"
      /\ reader.sum \in Int
  BY <1>1, ReadingFields DEF StatusTypeOK, ReadClock
<1>3. /\ reader' = [at |-> "since", row |-> reader.row, quiet |-> reader.quiet,
                    sum |-> reader.sum + now, exact |-> spent[reader.row],
                    pending |-> Pending]
      /\ Pending \in Nat
  BY <1>1 DEF ReadClock, Pending, StatusTypeOK
<1>4. reader' \in Readings
  BY <1>1, <1>2, <1>3 DEF Readings, StatusTypeOK
<1>5. ReadingHolds'
  <2> DEFINE Moment == IF reader.row = "idle" THEN ended ELSE started
             Value == reader.sum + now
  <2>1. /\ reader'.at = "since" /\ reader'.row = reader.row /\ reader'.quiet = reader.quiet
        /\ reader'.sum = Value /\ reader'.exact = spent[reader.row]
        /\ reader'.pending = Pending
    BY <1>3
  <2>2. /\ started' = started /\ ended' = ended /\ Current' = Current
        /\ Settled' <=> Settled
    BY DEF ReadClock, request, Settled, Current
  <2>3. ASSUME reader.quiet
        PROVE  /\ Settled /\ reader.row = Current
               /\ Value - Moment - spent[reader.row] \in -Pending .. Pending
    <3>1. Settled /\ reader.row = Current /\ reader.sum = total[reader.row]
      BY <1>1, <1>2, <2>3 DEF ReadingHolds
    <3>2. spent[reader.row] = total[reader.row] + Since(reader.row)
      BY <1>1, <1>2 DEF TotalsSay
    <3>3. now - Moment - Since(reader.row) = Pending
      BY <1>1, <3>1 DEF Since, Settled, Current, Pending, StatusTypeOK
    <3>4. /\ now \in Int /\ Moment \in Int /\ spent[reader.row] \in Int
          /\ total[reader.row] \in Int /\ Since(reader.row) \in Int
      BY <1>1, <1>2 DEF StatusTypeOK, Since
    <3> HIDE DEF Moment
    <3> QED
      BY <1>3, <3>1, <3>2, <3>3, <3>4
  <2>4. reader'.quiet =>
          reader'.sum - (IF reader'.row = "idle" THEN ended' ELSE started') - reader'.exact
            \in -reader'.pending .. reader'.pending
    BY <2>1, <2>2, <2>3
  <2> HIDE DEF Value, Moment
  <2> QED
    BY <2>1, <2>2, <2>3, <2>4 DEF ReadingHolds
<1> QED
  BY <1>1, <1>4, <1>5, ReaderLeaves DEF ReadClock, StatusTypeOK,
                                        OffByPending

\* ... less the moment of the thread's last assignment, is what has been spent.
LEMMA ReadSinceKeeps ==
  ASSUME StatusIInv, ReadSince
  PROVE  StatusIInv'
<1>1. StatusTypeOK /\ ReadingHolds /\ OffByPending
  BY DEF StatusIInv
<1>2. /\ reader.row \in Rows /\ reader.quiet \in BOOLEAN /\ reader.at = "since"
      /\ reader.sum \in Int /\ reader.exact \in Int /\ reader.pending \in Nat
  BY <1>1, ReadingFields DEF StatusTypeOK, ReadSince
<1>3. Yields(reader.sum - IF reader.row = "idle" THEN ended ELSE started, reader.exact, reader.pending)
  BY DEF ReadSince
<1>4. reader' = NoReading /\ reader' \in Readings
  BY <1>3 DEF Yields, Readings
<1>5. last' \in [value : Int, exact : Int, pending : Nat] /\ OffByPending'
  BY <1>1, <1>2, <1>3 DEF Yields, StatusTypeOK, OffByPending,
                          ReadingHolds
<1>6. ReadingHolds'
  BY <1>4 DEF ReadingHolds, NoReading
<1> QED
  BY <1>4, <1>5, <1>6, ReaderLeaves DEF ReadSince

\* Every step keeps the invariant.
LEMMA StatusStep ==
  ASSUME StatusIInv, [StatusNext]_statusVars
  PROVE  StatusIInv'
<1>1. CASE UNCHANGED statusVars
  BY <1>1 DEF statusVars, request, StatusIInv, StatusTypeOK, TotalsSay,
              Since, ReadingHolds, Settled,
              Current, OffByPending
<1> QED
  BY <1>1, TickKeeps, LookKeeps, RequestKeeps, ReadStartedKeeps, ReadEndedKeeps, ReadTotalKeeps,
     ReadClockKeeps, ReadSinceKeeps DEF StatusNext

\* The invariant of the proofs holds in every reachable state.
LEMMA StatusInv == StatusSpec => []StatusIInv
  BY StatusInitInv, StatusStep, PTL DEF StatusSpec

\* Between requests the totals and the seconds since the last one are the time
\* spent: no second is lost or counted twice.
THEOREM SecondsAreCounted == StatusSpec => []CountedOnce
<1>1. StatusIInv => CountedOnce
  BY DEF StatusIInv, StatusTypeOK, TotalsSay, Since, CountedOnce, Rows
<1> QED
  BY <1>1, StatusInv, PTL

\* A row read while the thread stores nothing is off by no more than the time
\* that the thread has had a beginning or an end in hand.
THEOREM ReadingsAreClose == StatusSpec => []OffByPending
<1>1. StatusIInv => OffByPending
  BY DEF StatusIInv
<1> QED
  BY <1>1, StatusInv, PTL
=============================================================================
