------------------------------ MODULE WorkTime ------------------------------
(***************************************************************************)
(* The counter of a device's working time (src/work_time_tracker.cpp): the *)
(* total in flash, plus the seconds of a session that millis() counts.     *)
(* One tick is a part of a second.                                         *)
(***************************************************************************)
EXTENDS Naturals

CONSTANTS
  Second,            \* ticks of a second (1000 in the code)
  PERSIST_INTERVAL,  \* ticks between two writes
  Wrap,              \* ticks after which millis() starts again at 0 (2^32)
  MaxPass,           \* bound: ticks one pass of the main loop takes
  MaxWorked,         \* bound: ticks in all
  MaxWrites,         \* bound: calls of flush stop after that many writes
  MaxRestarts        \* bound: restarts

ASSUME WtAssumption ==
  /\ Second \in Nat \ {0} /\ PERSIST_INTERVAL \in Nat \ {0} /\ Wrap \in Nat
  /\ MaxPass \in Nat /\ PERSIST_INTERVAL + MaxPass <= Wrap
  /\ MaxWorked \in Nat /\ MaxWrites \in Nat /\ MaxRestarts \in Nat

VARIABLES
  now,             \* millis()
  flash,           \* total_sec in NVS
  baseSec,         \* baseSec_
  sessionStart,    \* sessionStartMs_
  lastPersist,     \* lastPersistMs_
  worked,          \* ticks the device has really worked
  writes,          \* writes of the total to NVS
  boots,           \* restarts
  nvsFailed        \* NVS could not be opened, or not be written, at some time

trackerVars == <<now, flash, baseSec, sessionStart, lastPersist>>
wtVars == <<trackerVars, worked, writes, boots, nvsFailed>>

WtTypeOK ==
  /\ now \in 0 .. Wrap - 1 /\ sessionStart \in 0 .. Wrap - 1 /\ lastPersist \in 0 .. Wrap - 1
  /\ flash \in Nat /\ baseSec \in Nat
  /\ worked \in Nat /\ writes \in Nat /\ boots \in 0 .. MaxRestarts /\ nvsFailed \in BOOLEAN

WtInit ==
  /\ now = 0 /\ flash = 0 /\ baseSec = 0 /\ sessionStart = 0 /\ lastPersist = 0
  /\ worked = 0 /\ writes = 0 /\ boots = 0 /\ nvsFailed = FALSE

Since(t, since) == (t + Wrap - since) % Wrap

\* total(), at time t.
Total(t) == baseSec + Since(t, sessionStart) \div Second

\* A faulty variant of Persisted.
PersistedKeepsSession(t) ==
  flash' = Total(t) /\ baseSec' = Total(t) /\ UNCHANGED sessionStart

\* persist(total()): the total becomes the base of a new session.
Persisted(t) == flash' = Total(t) /\ baseSec' = Total(t) /\ sessionStart' = t

\* putUInt fails, which nobody looks at: the session is folded into the base in RAM alone.
Unsaved(t) == baseSec' = Total(t) /\ sessionStart' = t /\ UNCHANGED flash

\* The write; an NVS that cannot be opened, which is only logged; or one that takes no value.
Persist(t) ==
  \/ Persisted(t) /\ writes' = writes + 1 /\ UNCHANGED nvsFailed
  \/ nvsFailed' = TRUE /\ UNCHANGED <<flash, baseSec, sessionStart, writes>>
  \/ nvsFailed' = TRUE /\ Unsaved(t) /\ UNCHANGED writes

\* A pass of the main loop, with its loop(): d ticks, and a write when it is time for one.
Pass(d) ==
  LET t == (now + d) % Wrap IN
  /\ worked + d <= MaxWorked /\ worked' = worked + d /\ now' = t
  /\ IF Since(t, lastPersist) < PERSIST_INTERVAL
       THEN UNCHANGED <<flash, baseSec, sessionStart, lastPersist, writes, nvsFailed>>
       ELSE Persist(t) /\ lastPersist' = t
  /\ UNCHANGED boots

\* flush(), when the OTA receiver is about to restart.
Flush ==
  /\ writes < MaxWrites
  /\ Persist(now) /\ lastPersist' = now /\ UNCHANGED <<now, worked, boots>>

\* The device restarts: begin() reads the total, or takes 0 when NVS cannot be opened.
Restart ==
  /\ boots < MaxRestarts /\ boots' = boots + 1
  /\ now' = 0 /\ sessionStart' = 0 /\ lastPersist' = 0
  /\ \/ baseSec' = flash /\ UNCHANGED nvsFailed
     \/ baseSec' = 0 /\ nvsFailed' = TRUE
  /\ UNCHANGED <<flash, worked, writes>>

WtNext == (\E d \in 1 .. MaxPass : Pass(d)) \/ Flush \/ Restart

WtSpec == WtInit /\ [][WtNext]_wtVars

----------------------------------------------------------------------------
(* Properties. *)

\* total() never counts a second twice: it does not run ahead of the time really worked, across
\* writes, failed writes, restarts and the wrap of millis().
NeverAhead == Second * Total(now) <= worked

\* While NVS works, total() stays behind by less than a second for every write (persist
\* drops the part of a second) and an interval and a pass for every restart.
KeepsUp ==
  ~nvsFailed =>
    worked < Second * Total(now) + Second * (writes + 1) + boots * (PERSIST_INTERVAL + MaxPass)

\* The total tracks the working time from both sides, whatever writes, failures and restarts fall
\* in between.
TracksWork == NeverAhead /\ KeepsUp
=============================================================================
