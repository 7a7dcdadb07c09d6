----------------------------- MODULE IdleSeconds -----------------------------
(***************************************************************************)
(* WorkerStatus of utils/wsgi/middeware/idle_counter.py: the seconds that  *)
(* one request thread has been idle and busy.  It keeps them itself, and   *)
(* the handler of a scrape reads them from another thread with no lock, so *)
(* that each access to an attribute or to the clock is a step of its own.  *)
(*                                                                         *)
(* The clock (time.time()) is external: it moves on by whole units, and    *)
(* several readings of it may be the same.  It is not set back.            *)
(***************************************************************************)
EXTENDS Integers

CONSTANT MaxTime  \* the clock is looked at until then

ASSUME StatusConstants == MaxTime \in Nat

Rows == {"idle", "busy"}

VARIABLES
  now,      \* the clock
  doing,    \* where the request thread is
  started, ended,  \* request_started_at, request_ended_at
  looked,   \* the reading of the clock that it has in hand
  total,    \* _idle_seconds_total and _busy_seconds_total
  reader,   \* the reading that the handler is at
  last,     \* the last quiet reading, and what it should be
  spent     \* row -> time spent, moment by moment (history)

request == <<doing, started, ended, looked, total>>
statusVars == <<now, request, reader, last, spent>>

NoReading == [at |-> "start"]

StatusInit ==
  /\ now = 0
  /\ doing = "rest"
  /\ started = now /\ ended = now /\ looked = now
  /\ total = [row \in Rows |-> 0]
  /\ reader = NoReading
  /\ last = [value |-> 0, exact |-> 0, pending |-> 0]
  /\ spent = [row \in Rows |-> 0]

\* What a moment is spent on.  A request begins and ends when the clock is read
\* for it, not when that is stored; between its body's end and its own, it is
\* neither idle nor busy.
SpentOn(row) ==
  doing \in IF row = "idle" THEN {"rest", "closing"} ELSE {"entering", "beginning", "body"}

Tick ==
  /\ now < MaxTime
  /\ now' = now + 1
  /\ spent' = [row \in Rows |-> spent[row] + IF SpentOn(row) THEN 1 ELSE 0]
  /\ UNCHANGED <<request, reader, last>>

-----------------------------------------------------------------------------
(* count_request_time *)

\* time.time(), called for the next of the three assignments that need it.
Looks == [rest |-> "entering", body |-> "leaving", ending |-> "closing"]

LookAtClock ==
  /\ doing \in DOMAIN Looks
  /\ looked' = now
  /\ doing' = Looks[doing]
  /\ UNCHANGED <<now, started, ended, total, reader, last, spent>>

\* A reading is quiet if nothing is stored meanwhile.
Disturb == reader' = IF reader.at = "start" THEN reader ELSE [reader EXCEPT !.quiet = FALSE]

Begin ==
  /\ doing = "entering"
  /\ started' = looked
  /\ doing' = "beginning"
  /\ Disturb
  /\ UNCHANGED <<now, ended, looked, total, last, spent>>

CountIdle ==
  /\ doing = "beginning"
  /\ total' = [total EXCEPT !["idle"] = @ + started - ended]
  /\ doing' = "body"
  /\ Disturb
  /\ UNCHANGED <<now, started, ended, looked, last, spent>>

CountBusy ==
  /\ doing = "leaving"
  /\ total' = [total EXCEPT !["busy"] = @ + looked - started]
  /\ doing' = "ending"
  /\ Disturb
  /\ UNCHANGED <<now, started, ended, looked, last, spent>>

\* Faulty variant: the end is not noted.
RaiseOnly ==
  /\ doing = "body"
  /\ spent' = [spent EXCEPT !["busy"] = total["busy"]]
  /\ doing' = "rest"
  /\ Disturb
  /\ UNCHANGED <<now, started, ended, looked, total, last>>

\* The time of a request that raises is not counted.
Raise ==
  /\ doing = "body"
  /\ spent' = [spent EXCEPT !["busy"] = total["busy"]]
  /\ doing' = "ending"
  /\ Disturb
  /\ UNCHANGED <<now, started, ended, looked, total, last>>

\* finally
End ==
  /\ doing = "closing"
  /\ ended' = looked
  /\ doing' = "rest"
  /\ Disturb
  /\ UNCHANGED <<now, started, looked, total, last, spent>>

-----------------------------------------------------------------------------
(* idle_seconds_total and busy_seconds_total *)

\* The attributes agree, and in_request can tell.
Settled ==
  \/ doing \in {"rest", "entering"}
  \/ doing \in {"body", "leaving"} /\ started > ended

\* How long the request thread has had the time of a beginning or an end in
\* hand, that the attributes do not show yet.
Pending == IF doing \in {"entering", "leaving"} THEN now - looked ELSE 0

ReadStarted(row) ==
  /\ reader.at = "start"
  /\ reader' = [at |-> "ended", row |-> row, started |-> started, quiet |-> Settled]
  /\ UNCHANGED <<now, request, last, spent>>

\* Faulty variant: a thread that has had no request is in one.
InRequestAtFirst(s, e) == s >= e

InRequest(s, e) == s > e

\* in_request
ReadEnded ==
  /\ reader.at = "ended"
  /\ reader' = [at |-> "total", row |-> reader.row, quiet |-> reader.quiet,
                inRequest |-> InRequest(reader.started, ended)]
  /\ UNCHANGED <<now, request, last, spent>>

Yields(value, exact, pending) ==
  /\ reader' = NoReading
  /\ last' = IF reader.quiet
             THEN [value |-> value, exact |-> exact, pending |-> pending] ELSE last

\* The row of what the thread is at goes on; that of the other stands.
ReadTotal ==
  /\ reader.at = "total"
  /\ IF reader.inRequest = (reader.row = "busy")
     THEN /\ reader' = [at |-> "clock", row |-> reader.row, quiet |-> reader.quiet,
                        sum |-> total[reader.row]]
          /\ UNCHANGED last
     ELSE Yields(total[reader.row], spent[reader.row], Pending)
  /\ UNCHANGED <<now, request, spent>>

ReadClock ==
  /\ reader.at = "clock"
  /\ reader' = [at |-> "since", row |-> reader.row, quiet |-> reader.quiet,
                sum |-> reader.sum + now, exact |-> spent[reader.row], pending |-> Pending]
  /\ UNCHANGED <<now, request, last, spent>>

ReadSince ==
  /\ reader.at = "since"
  /\ Yields(reader.sum - IF reader.row = "idle" THEN ended ELSE started, reader.exact, reader.pending)
  /\ UNCHANGED <<now, request, spent>>

-----------------------------------------------------------------------------

StatusNext ==
  \/ Tick
  \/ LookAtClock \/ Begin \/ CountIdle \/ CountBusy \/ Raise \/ End
  \/ \E row \in Rows : ReadStarted(row)
  \/ ReadEnded \/ ReadTotal \/ ReadClock \/ ReadSince

StatusSpec == StatusInit /\ [][StatusNext]_statusVars

-----------------------------------------------------------------------------

\* How far a reading is, and what it has read.
Readings ==
  {NoReading}
    \cup [at : {"ended"}, row : Rows, quiet : BOOLEAN, started : Int]
    \cup [at : {"total"}, row : Rows, quiet : BOOLEAN, inRequest : BOOLEAN]
    \cup [at : {"clock"}, row : Rows, quiet : BOOLEAN, sum : Int]
    \cup [at : {"since"}, row : Rows, quiet : BOOLEAN, sum : Int, exact : Int, pending : Nat]

\* The types of the variables.
StatusTypeOK ==
  /\ now \in 0 .. MaxTime
  /\ doing \in {"rest", "entering", "beginning", "body", "leaving", "ending", "closing"}
  /\ started \in 0 .. now /\ ended \in 0 .. now /\ looked \in 0 .. now
  /\ total \in [Rows -> Nat] /\ spent \in [Rows -> Nat]
  /\ reader \in Readings
  /\ last \in [value : Int, exact : Int, pending : Nat]

\* Between requests every moment is counted once: as idle, busy, or as neither
\* when the request raised or the moment was that of its end.
CountedOnce ==
  doing = "rest" =>
    /\ total["busy"] = spent["busy"]
    /\ total["idle"] + now - ended = spent["idle"]

\* A row that is read while the attributes agree, and nothing is stored, is right
\* but for the time that the thread has had a beginning or an end in hand: idle
\* seconds are too many then, or busy ones too few or too many, by no more than
\* that.  However many seconds go by between the other accesses, they do no harm.
OffByPending == last.value - last.exact \in -last.pending .. last.pending

-----------------------------------------------------------------------------
(* The invariant the proofs use. *)

\* The two totals say what has been spent, if the seconds since the last
\* assignment are added to the row the thread is at.
Since(row) ==
  CASE row = "idle" /\ doing = "rest" -> now - ended
    [] row = "idle" /\ doing = "entering" -> looked - ended
    [] row = "idle" /\ doing = "beginning" -> started - ended
    [] row = "idle" /\ doing = "closing" -> now - looked
    [] row = "busy" /\ doing = "entering" -> now - looked
    [] row = "busy" /\ doing \in {"beginning", "body"} -> now - started
    [] row = "busy" /\ doing = "leaving" -> looked - started
    [] OTHER -> 0

TotalsSay ==
  /\ \A row \in Rows : spent[row] = total[row] + Since(row)
  /\ doing \in {"rest", "entering"} => started <= ended
  /\ doing = "entering" => ended <= looked
  /\ doing = "beginning" => ended <= started
  /\ doing \in {"leaving", "closing"} => started <= looked

\* What a reading that is quiet so far has read is still so.
Current == IF doing \in {"rest", "entering"} THEN "idle" ELSE "busy"

ReadingHolds ==
  reader.at # "start" /\ reader.quiet =>
    /\ Settled
    /\ reader.at = "ended" => reader.started = started
    /\ reader.at = "total" => (reader.inRequest <=> Current = "busy")
    /\ reader.at \in {"clock", "since"} => reader.row = Current
    /\ reader.at = "clock" => reader.sum = total[reader.row]
    /\ reader.at = "since" =>
         (reader.sum - IF reader.row = "idle" THEN ended ELSE started) - reader.exact
           \in -reader.pending .. reader.pending

StatusIInv == StatusTypeOK /\ TotalsSay /\ ReadingHolds /\ OffByPending
=============================================================================
