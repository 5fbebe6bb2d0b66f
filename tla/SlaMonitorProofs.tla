------------------------- MODULE SlaMonitorProofs -------------------------
(***************************************************************************)
(* Theorems about SlaMonitor for every set of tickets, workers and bounds.   *)
(***************************************************************************)
EXTENDS SlaMonitor, TLAPS

\* A sweep s is consistent with the table st and the alerts al: what it is about to
\* write has been announced, and it has locked what it announces for the first time.
SweepOK(s, st, al) ==
    /\ s.pc \in {"insert", "alert", "flush"} =>
          /\ s.ticket \in Ticket /\ s.seen # NoSla
          /\ s.loaded # Absent => st[s.ticket] # Absent
          /\ \A c \in s.due : s.seen[c] \in Alert
          /\ \A c \in Clock \ s.due :
                s.seen[c] \in Alert /\ s.seen[c] # LastStatus(s.loaded)[c]
                    => Said(al[s.ticket][c], s.seen[c])
          /\ s.ticket \notin s.todo
    /\ s.pc = "idle" => \A t \in Ticket : s.rows[t] = Untouched
    /\ s.pc = "insert" =>
          s.loaded = Absent /\ s.rows[s.ticket] = Untouched /\ s.due # {}
    /\ s.pc = "alert" => s.due # {} /\ (s.loaded = Absent => s.rows[s.ticket] # Untouched)
    /\ s.pc = "flush" => s.due = {}
    /\ \A t \in s.todo : s.rows[t] = Untouched
    /\ \A t \in Ticket, c \in Clock : s.rows[t] # Untouched =>
          /\ s.rows[t][c] = Keep => st[t] # Absent
          /\ s.rows[t][c] \in Alert => Said(al[t][c], s.rows[t][c])

\* How often a clock without a row has been announced, given the sweeps sw, the
\* table, the alerts and the number lo of sweeps lost.
FreshOK(t, c, sw, st, al, lo) ==
    st[t] = Absent =>
        /\ Len(al[t][c]) <= lo + 1
        /\ (\A w \in Worker : sw[w].rows[t] = Untouched) => Len(al[t][c]) <= lo
        /\ \A w \in Worker :
              sw[w].pc = "alert" /\ sw[w].ticket = t /\ c \in sw[w].due => Len(al[t][c]) <= lo

\* A row is written by one sweep at a time.
Exclusive(sw) ==
    \A t \in Ticket, v, w \in Worker :
        v # w => sw[v].rows[t] = Untouched \/ sw[w].rows[t] = Untouched

IInv ==
    /\ TypeOK
    /\ \A w \in Worker : SweepOK(sweep[w], state, alerts)
    /\ Exclusive(sweep)
    /\ \A t \in Ticket, c \in Clock : FreshOK(t, c, sweep, state, alerts, lost)
    /\ RecordedIsAnnounced

--------------------------------------------------------------------------
(* Lemmas about one sweep *)

LEMMA IdleOK ==
    ASSUME NEW st, NEW al
    PROVE  Idle \in SweepState /\ SweepOK(Idle, st, al)
<1>1. Idle \in SweepState
  BY DEF Idle, SweepState, Reading
<1>2. SweepOK(Idle, st, al)
  BY DEF Idle, SweepOK
<1> QED
  BY <1>1, <1>2

\* The parts of a sweep, typed.
LEMMA SweepParts ==
    ASSUME IInv, NEW w \in Worker
    PROVE  /\ sweep[w] \in SweepState
           /\ sweep[w].pc \in {"idle", "next", "insert", "alert", "flush"}
           /\ sweep[w].todo \subseteq Ticket /\ sweep[w].old \subseteq Ticket
           /\ sweep[w].seen \in Reading
           /\ sweep[w].loaded \in Row \cup {Absent}
           /\ sweep[w].due \subseteq Clock
           /\ sweep[w].rows \in [Ticket -> Write \cup {Untouched}]
           /\ SweepOK(sweep[w], state, alerts)
<1>1. sweep[w] \in SweepState
  BY DEF IInv, TypeOK
<1> QED
  BY <1>1 DEF IInv, SweepState

\* More alerts and more rows do no harm to a sweep.
LEMMA StaysOK ==
    ASSUME NEW s \in SweepState, NEW st, NEW al, NEW st2, NEW al2, SweepOK(s, st, al),
           \A t \in Ticket, c \in Clock, v \in Alert : Said(al[t][c], v) => Said(al2[t][c], v),
           \A t \in Ticket : st[t] # Absent => st2[t] # Absent
    PROVE  SweepOK(s, st2, al2)
<1> USE DEF SweepOK
<1>1. s.pc \in {"insert", "alert", "flush"} =>
          /\ s.ticket \in Ticket /\ s.seen # NoSla
          /\ s.loaded # Absent => st2[s.ticket] # Absent
          /\ \A c \in s.due : s.seen[c] \in Alert
          /\ \A c \in Clock \ s.due :
                s.seen[c] \in Alert /\ s.seen[c] # LastStatus(s.loaded)[c]
                    => Said(al2[s.ticket][c], s.seen[c])
          /\ s.ticket \notin s.todo
  OBVIOUS
<1>2. \A t \in Ticket, c \in Clock : s.rows[t] # Untouched =>
          /\ s.rows[t][c] = Keep => st2[t] # Absent
          /\ s.rows[t][c] \in Alert => Said(al2[t][c], s.rows[t][c])
  OBVIOUS
<1> QED
  BY <1>1, <1>2

\* What an announcement adds.
LEMMA SaidAppend ==
    ASSUME NEW l \in Seq(Alert), NEW v \in Alert
    PROVE  Said(Append(l, v), v) /\ \A a : Said(l, a) => Said(Append(l, v), a)
<1> DEFINE m == Append(l, v)
<1>1. /\ Len(l) \in Nat /\ Len(m) = Len(l) + 1 /\ DOMAIN m = 1..Len(m) /\ DOMAIN l = 1..Len(l)
      /\ m[Len(l) + 1] = v /\ \A i \in 1..Len(l) : m[i] = l[i]
  OBVIOUS
<1> HIDE DEF m
<1>2. Said(m, v)
  <2>1. Len(l) + 1 \in DOMAIN m
    BY <1>1
  <2> QED
    BY <1>1, <2>1 DEF Said
<1>3. ASSUME NEW a, Said(l, a)
      PROVE  Said(m, a)
  <2>1. PICK i \in DOMAIN l : l[i] = a
    BY <1>3 DEF Said
  <2>2. i \in DOMAIN m /\ m[i] = a
    BY <1>1, <2>1
  <2> QED
    BY <2>2 DEF Said
<1> QED
  BY <1>2, <1>3 DEF m

\* One sweep moves; the others stay consistent.
LEMMA OneSweep ==
    ASSUME IInv, NEW w \in Worker, NEW s \in SweepState, Step(w, s),
           SweepOK(s, state', alerts'),
           \A t \in Ticket, c \in Clock, v \in Alert :
              Said(alerts[t][c], v) => Said(alerts'[t][c], v),
           \A t \in Ticket : state[t] # Absent => state'[t] # Absent
    PROVE  /\ sweep' \in [Worker -> SweepState]
           /\ sweep'[w] = s
           /\ \A v \in Worker \ {w} : sweep'[v] = sweep[v]
           /\ \A v \in Worker : SweepOK(sweep'[v], state', alerts')
<1>1. /\ sweep' \in [Worker -> SweepState] /\ sweep'[w] = s
      /\ \A v \in Worker \ {w} : sweep'[v] = sweep[v]
  BY DEF IInv, TypeOK, Step
<1>2. ASSUME NEW v \in Worker \ {w}
      PROVE  SweepOK(sweep[v], state', alerts')
  BY SweepParts, StaysOK, <1>2
<1> QED
  BY <1>1, <1>2

\* What the clocks, the bounds and the ghosts may do without touching the sweeps.
Around == /\ active' \subseteq Ticket /\ clocks' \in [Ticket -> Reading]
          /\ entered' \in [Ticket -> [Clock -> Nat]] /\ mixed' \in [Ticket -> [Clock -> Nat]]
          /\ changes' \in 0..MaxChanges /\ overlapped' \in BOOLEAN

LEMMA AroundKept ==
    ASSUME IInv, UNCHANGED <<active, clocks, entered, changes, overlapped, mixed>>
    PROVE  Around
BY DEF IInv, TypeOK, Around

\* A step of one sweep that announces and commits nothing.
LEMMA Moves ==
    ASSUME IInv, NEW w \in Worker, NEW s \in SweepState, Step(w, s), Around,
           UNCHANGED <<state, alerts, lost>>, SweepOK(s, state, alerts),
           \A t \in Ticket : sweep[w].rows[t] # Untouched => s.rows[t] # Untouched,
           \A t \in Ticket : s.rows[t] # Untouched /\ sweep[w].rows[t] = Untouched
              => \A v \in Worker \ {w} : sweep[v].rows[t] = Untouched,
           \A t \in Ticket, c \in Clock :
              s.pc = "alert" /\ s.ticket = t /\ c \in s.due /\ state[t] = Absent
                 => Len(alerts[t][c]) <= lost
    PROVE  IInv'
<1>1. /\ sweep' \in [Worker -> SweepState]
      /\ sweep'[w] = s
      /\ \A v \in Worker \ {w} : sweep'[v] = sweep[v]
      /\ \A v \in Worker : SweepOK(sweep'[v], state', alerts')
  BY OneSweep
<1>2. TypeOK'
  BY <1>1 DEF IInv, TypeOK, Around
<1>3. Exclusive(sweep')
  BY <1>1 DEF IInv, Exclusive
<1>4. ASSUME NEW t \in Ticket, NEW c \in Clock
      PROVE  FreshOK(t, c, sweep', state', alerts', lost')
  <2>1. FreshOK(t, c, sweep, state, alerts, lost)
    BY DEF IInv
  <2>2. (\A v \in Worker : sweep'[v].rows[t] = Untouched)
           => \A v \in Worker : sweep[v].rows[t] = Untouched
    BY <1>1
  <2>3. ASSUME NEW v \in Worker, sweep'[v].pc = "alert", sweep'[v].ticket = t,
               c \in sweep'[v].due, state[t] = Absent
        PROVE  Len(alerts[t][c]) <= lost
    <3>1. CASE v = w
      BY <1>1, <2>3, <3>1
    <3>2. CASE v # w
      BY <1>1, <2>1, <2>3, <3>2 DEF FreshOK
    <3> QED
      BY <3>1, <3>2
  <2> QED
    BY <2>1, <2>2, <2>3 DEF FreshOK
<1>5. RecordedIsAnnounced'
  BY DEF IInv, RecordedIsAnnounced
<1> QED
  BY <1>1, <1>2, <1>3, <1>4, <1>5 DEF IInv

--------------------------------------------------------------------------
(* The invariant is inductive: one lemma per action *)

LEMMA InitInv ==
    ASSUME Init
    PROVE  IInv
<1>1. \A w \in Worker : sweep[w] = Idle /\ sweep[w] \in SweepState /\ SweepOK(sweep[w], state, alerts)
  BY IdleOK DEF Init
<1>2. TypeOK
  <2>1. clocks \in [Ticket -> Reading]
    BY MonitorAssumption DEF Init
  <2>2. state \in [Ticket -> Row \cup {Absent}] /\ sweep \in [Worker -> SweepState]
    BY <1>1 DEF Init
  <2>3. alerts \in [Ticket -> [Clock -> Seq(Alert)]] /\ entered \in [Ticket -> [Clock -> Nat]]
        /\ mixed \in [Ticket -> [Clock -> Nat]]
    BY DEF Init
  <2>4. active \subseteq Ticket /\ changes \in 0..MaxChanges /\ lost \in Nat
    BY MonitorAssumption DEF Init
  <2>5. overlapped \in BOOLEAN
    BY DEF Init
  <2> QED
    BY <2>1, <2>2, <2>3, <2>4, <2>5 DEF TypeOK
<1>3. Exclusive(sweep)
  BY <1>1 DEF Exclusive, Idle
<1>4. ASSUME NEW t \in Ticket, NEW c \in Clock
      PROVE  FreshOK(t, c, sweep, state, alerts, lost)
  <2>1. Len(alerts[t][c]) = 0 /\ lost = 0
    BY DEF Init
  <2> QED
    BY <2>1 DEF FreshOK
<1>5. RecordedIsAnnounced
  BY DEF Init, RecordedIsAnnounced
<1> QED
  BY <1>1, <1>2, <1>3, <1>4, <1>5 DEF IInv

\* A sweep that takes a ticket for edited.
Aged(s, t) == [s EXCEPT !.old = @ \cup ({t} \cap s.todo)]

LEMMA AgedParts ==
    ASSUME NEW s \in SweepState, NEW t \in Ticket
    PROVE  /\ Aged(s, t) \in SweepState
           /\ Aged(s, t).pc = s.pc /\ Aged(s, t).todo = s.todo /\ Aged(s, t).ticket = s.ticket
           /\ Aged(s, t).seen = s.seen /\ Aged(s, t).loaded = s.loaded
           /\ Aged(s, t).due = s.due /\ Aged(s, t).rows = s.rows
BY DEF Aged, SweepState

LEMMA TurnToTyped ==
    ASSUME IInv, NEW t \in Ticket, NEW reading \in Reading, TurnTo(t, reading)
    PROVE  /\ clocks' \in [Ticket -> Reading] /\ entered' \in [Ticket -> [Clock -> Nat]]
           /\ changes' \in 0..MaxChanges
           /\ UNCHANGED <<state, alerts, lost, overlapped, mixed>>
<1>1. clocks' \in [Ticket -> Reading] /\ entered' \in [Ticket -> [Clock -> Nat]]
  BY DEF TurnTo, IInv, TypeOK
<1>2. changes' \in 0..MaxChanges
  BY MonitorAssumption DEF TurnTo, IInv, TypeOK
<1> QED
  BY <1>1, <1>2 DEF TurnTo

LEMMA TimeInv ==
    ASSUME IInv, NEW t \in Ticket, NEW c \in Clock, TimePasses(t, c)
    PROVE  IInv'
<1>1. PICK status \in Alert : TurnTo(t, [clocks[t] EXCEPT ![c] = status])
  BY DEF TimePasses
<1>2. [clocks[t] EXCEPT ![c] = status] \in Reading
  <2>1. clocks[t] \in [Clock -> Status]
    BY DEF TimePasses, IInv, TypeOK, Reading
  <2> QED
    BY <2>1 DEF Reading, Status
<1>3. /\ clocks' \in [Ticket -> Reading] /\ entered' \in [Ticket -> [Clock -> Nat]]
      /\ changes' \in 0..MaxChanges
      /\ UNCHANGED <<state, alerts, lost, overlapped, mixed>>
  BY <1>1, <1>2, TurnToTyped
<1>4. UNCHANGED <<active, sweep>>
  BY DEF TimePasses
<1>5. TypeOK'
  BY <1>3, <1>4 DEF IInv, TypeOK
<1> QED
  BY <1>3, <1>4, <1>5 DEF IInv, RecordedIsAnnounced

\* An edit is a turn of the clocks, and makes the sweeps in progress age.
LEMMA EditTurns ==
    ASSUME IInv, NEW t \in Ticket, Edit(t)
    PROVE  /\ \E reading \in Reading : TurnTo(t, reading)
           /\ sweep' = [w \in Worker |-> Aged(sweep[w], t)]
           /\ active' \subseteq Ticket
<1>1. clocks[t] \in Reading /\ active \subseteq Ticket
  BY DEF IInv, TypeOK
<1>2. \E reading \in Reading : TurnTo(t, reading)
  BY <1>1, MonitorAssumption DEF Edit
<1>3. active' \subseteq Ticket
  BY <1>1 DEF Edit
<1>4. sweep' = [w \in Worker |-> Aged(sweep[w], t)]
  BY DEF Edit, Aged
<1> QED
  BY <1>2, <1>3, <1>4

LEMMA EditInv ==
    ASSUME IInv, NEW t \in Ticket, Edit(t)
    PROVE  IInv'
<1>1. PICK reading \in Reading : TurnTo(t, reading)
  BY EditTurns
<1>2. /\ clocks' \in [Ticket -> Reading] /\ entered' \in [Ticket -> [Clock -> Nat]]
      /\ changes' \in 0..MaxChanges
      /\ UNCHANGED <<state, alerts, lost, overlapped, mixed>>
  BY <1>1, TurnToTyped
<1>3. \A w \in Worker : sweep'[w] = Aged(sweep[w], t)
  BY EditTurns
<1>4. ASSUME NEW w \in Worker
      PROVE  /\ sweep'[w] \in SweepState /\ SweepOK(sweep'[w], state, alerts)
             /\ sweep'[w].rows = sweep[w].rows /\ sweep'[w].pc = sweep[w].pc
             /\ sweep'[w].ticket = sweep[w].ticket /\ sweep'[w].due = sweep[w].due
  <2> DEFINE s == sweep[w]  a == sweep'[w]
  <2>1. s \in SweepState /\ SweepOK(s, state, alerts)
    BY SweepParts
  <2>2. /\ a \in SweepState /\ a.pc = s.pc /\ a.todo = s.todo /\ a.ticket = s.ticket
        /\ a.seen = s.seen /\ a.loaded = s.loaded /\ a.due = s.due /\ a.rows = s.rows
    BY <1>3, <2>1, AgedParts
  <2> HIDE DEF s, a
  <2>3. SweepOK(a, state, alerts)
    BY <2>1, <2>2 DEF SweepOK
  <2> QED
    BY <2>2, <2>3 DEF s, a
<1>5. TypeOK'
  <2>1. sweep' \in [Worker -> SweepState]
    BY <1>4, EditTurns
  <2> QED
    BY <1>2, <2>1, EditTurns DEF IInv, TypeOK
<1>6. Exclusive(sweep')
  BY <1>4 DEF IInv, Exclusive
<1>7. ASSUME NEW u \in Ticket, NEW c \in Clock
      PROVE  FreshOK(u, c, sweep', state', alerts', lost')
  BY <1>2, <1>4 DEF IInv, FreshOK
<1>8. RecordedIsAnnounced'
  BY <1>2 DEF IInv, RecordedIsAnnounced
<1> QED
  BY <1>2, <1>4, <1>5, <1>6, <1>7, <1>8 DEF IInv

LEMMA SweepStartInv ==
    ASSUME IInv, NEW w \in Worker, SweepStart(w)
    PROVE  IInv'
<1> DEFINE s == [Idle EXCEPT !.pc = "next", !.todo = active]
<1>0. active \subseteq Ticket
  BY DEF IInv, TypeOK
<1>1. s \in SweepState
  BY <1>0, IdleOK DEF SweepState, Idle
<1>2. SweepOK(s, state, alerts)
  <2>1. /\ s.pc = "next" /\ s.rows = [t \in Ticket |-> Untouched]
        /\ s.todo = active
    BY DEF Idle
  <2>2. \A t \in s.todo : s.rows[t] = Untouched
    BY <1>0, <2>1
  <2> HIDE DEF s
  <2> QED
    BY <2>1, <2>2 DEF SweepOK
<1>3. Around
  BY DEF SweepStart, Around, IInv, TypeOK
<1>4. s.pc = "next" /\ s.rows = [t \in Ticket |-> Untouched]
  BY DEF Idle
<1>5. \A t \in Ticket : sweep[w].rows[t] = Untouched
  BY SweepParts DEF SweepOK, SweepStart
<1>6. Step(w, s) /\ UNCHANGED <<state, alerts, lost>>
  BY DEF SweepStart
<1> HIDE DEF s
<1> QED
  BY <1>1, <1>2, <1>3, <1>4, <1>5, <1>6, Moves

LEMMA RollBackInv ==
    ASSUME IInv, NEW w \in Worker, RollBack(w), Around
    PROVE  IInv'
<1>1. Idle \in SweepState /\ SweepOK(Idle, state', alerts')
  BY IdleOK
<1>2. Step(w, Idle) /\ lost' = lost + 1 /\ UNCHANGED <<state, alerts>>
  BY DEF RollBack
<1>3. /\ sweep' \in [Worker -> SweepState]
      /\ sweep'[w] = Idle
      /\ \A v \in Worker \ {w} : sweep'[v] = sweep[v]
      /\ \A v \in Worker : SweepOK(sweep'[v], state', alerts')
  BY <1>1, <1>2, OneSweep
<1>4. TypeOK'
  BY <1>2, <1>3 DEF IInv, TypeOK, Around
<1>5. Exclusive(sweep')
  BY <1>3 DEF IInv, Exclusive, Idle
<1>6. ASSUME NEW t \in Ticket, NEW c \in Clock
      PROVE  FreshOK(t, c, sweep', state', alerts', lost')
  <2>1. FreshOK(t, c, sweep, state, alerts, lost)
    BY DEF IInv
  <2>2. lost \in Nat /\ Len(alerts[t][c]) \in Nat
    BY DEF IInv, TypeOK
  <2>3. state[t] = Absent => Len(alerts[t][c]) <= lost + 1
    BY <2>1 DEF FreshOK
  <2> QED
    BY <1>2, <2>2, <2>3 DEF FreshOK
<1>7. RecordedIsAnnounced'
  BY <1>2 DEF IInv, RecordedIsAnnounced
<1> QED
  BY <1>3, <1>4, <1>5, <1>6, <1>7 DEF IInv

\* A look takes a ticket, and a reading of it that may not be that of now.
LEMMA LookTakes ==
    ASSUME IInv, NEW w \in Worker, Look(w)
    PROVE  /\ \E t \in sweep[w].todo : \E reading \in Reading :
                 t \in Ticket /\ LookAt(w, t, reading)
           /\ mixed' \in [Ticket -> [Clock -> Nat]]
<1>1. PICK t \in sweep[w].todo : \E reading \in Readings(w, t) : LookAt(w, t, reading)
  BY DEF Look
<1>2. PICK reading \in Readings(w, t) : LookAt(w, t, reading)
  BY <1>1
<1>3. t \in Ticket
  BY SweepParts
<1>4. reading \in Reading
  BY <1>3, MonitorAssumption DEF Readings, IInv, TypeOK
<1>5. mixed' \in [Ticket -> [Clock -> Nat]]
  <2>1. mixed \in [Ticket -> [Clock -> Nat]]
    BY DEF IInv, TypeOK
  <2>2. CASE reading = NoSla
    BY <1>2, <2>1, <2>2 DEF LookAt
  <2>3. CASE reading # NoSla
    <3>1. PICK counts : counts = [c \in Clock |->
             mixed[t][c] + IF Alone /\ reading[c] # StatusOf(clocks[t], c) THEN 1 ELSE 0]
      OBVIOUS
    <3>2. counts \in [Clock -> Nat]
      BY <1>3, <2>1, <3>1
    <3>3. mixed' = [mixed EXCEPT ![t] = counts]
      BY <1>2, <2>3, <3>1 DEF LookAt
    <3> QED
      BY <2>1, <3>2, <3>3
  <2> QED
    BY <2>2, <2>3
<1> QED
  BY <1>2, <1>3, <1>4, <1>5

LEMMA LookInv ==
    ASSUME IInv, NEW w \in Worker, Look(w)
    PROVE  IInv'
<1>1. PICK t \in sweep[w].todo : \E reading \in Reading : t \in Ticket /\ LookAt(w, t, reading)
  BY LookTakes
<1>2. PICK reading \in Reading : LookAt(w, t, reading)
  BY <1>1
<1>3. /\ sweep[w] \in SweepState /\ sweep[w].pc = "next" /\ SweepOK(sweep[w], state, alerts)
      /\ sweep[w].todo \subseteq Ticket /\ sweep[w].old \subseteq Ticket
      /\ sweep[w].rows \in [Ticket -> Write \cup {Untouched}]
      /\ t \in Ticket
  BY <1>1, SweepParts DEF Look
<1>4. Around /\ UNCHANGED <<state, alerts, lost>>
  BY LookTakes DEF Look, Around, IInv, TypeOK
<1>5. CASE reading = NoSla
  <2> DEFINE s == [sweep[w] EXCEPT !.todo = @ \ {t}, !.old = @ \ {t}]
  <2>1. s \in SweepState /\ s.pc = "next" /\ s.rows = sweep[w].rows /\ s.todo = sweep[w].todo \ {t}
    BY <1>3 DEF SweepState
  <2>2. Step(w, s)
    BY <1>2, <1>5 DEF LookAt
  <2> HIDE DEF s
  <2>3. SweepOK(s, state, alerts)
    BY <1>3, <2>1 DEF SweepOK
  <2> QED
    BY <1>4, <2>1, <2>2, <2>3, Moves
<1>6. CASE reading # NoSla
  <2> DEFINE row == state[t]
             due == Due(reading, LastStatus(row))
             left == [sweep[w] EXCEPT !.todo = @ \ {t}, !.old = @ \ {t}]
             s == [left EXCEPT !.ticket = t, !.seen = reading, !.loaded = row, !.due = due,
                               !.pc = AfterLook(row, due)]
  <2>1. Step(w, s)
    BY <1>2, <1>6 DEF LookAt
  <2>2. due \subseteq Clock /\ row \in Row \cup {Absent}
    BY <1>3 DEF Due, IInv, TypeOK
  <2>3. /\ AfterLook(row, due) \in {"insert", "alert", "flush"}
        /\ AfterLook(row, due) = "insert" => row = Absent /\ due # {}
        /\ AfterLook(row, due) = "alert" => due # {} /\ row # Absent
        /\ AfterLook(row, due) = "flush" => due = {}
    BY DEF AfterLook
  <2>4. /\ s \in SweepState
        /\ s.pc = AfterLook(row, due) /\ s.rows = sweep[w].rows /\ s.todo = sweep[w].todo \ {t}
        /\ s.ticket = t /\ s.seen = reading /\ s.loaded = row /\ s.due = due
    BY <1>3, <2>2, <2>3 DEF SweepState
  <2>5. \A c \in Clock : c \in due <=> reading[c] \in Alert /\ reading[c] # LastStatus(row)[c]
    BY DEF Due
  <2>6. sweep[w].rows[t] = Untouched
    BY <1>3 DEF SweepOK
  <2> HIDE DEF s, left, due, row
  <2>7. /\ s.ticket \in Ticket /\ s.seen # NoSla
        /\ s.loaded # Absent => state[s.ticket] # Absent
        /\ \A c \in s.due : s.seen[c] \in Alert
        /\ \A c \in Clock \ s.due :
              s.seen[c] \in Alert /\ s.seen[c] # LastStatus(s.loaded)[c]
                 => Said(alerts[s.ticket][c], s.seen[c])
        /\ s.ticket \notin s.todo
    BY <1>3, <1>6, <2>2, <2>4, <2>5 DEF row
  <2>8. SweepOK(s, state, alerts)
    <3>1. /\ s.pc = "insert" =>
                s.loaded = Absent /\ s.rows[s.ticket] = Untouched /\ s.due # {}
          /\ s.pc = "alert" => s.due # {} /\ s.loaded # Absent
          /\ s.pc = "flush" => s.due = {}
          /\ s.pc # "idle"
      BY <2>3, <2>4, <2>6
    <3>2. \A u \in s.todo : s.rows[u] = Untouched
      BY <1>3, <2>4 DEF SweepOK
    <3>3. \A u \in Ticket, c \in Clock : s.rows[u] # Untouched =>
            /\ s.rows[u][c] = Keep => state[u] # Absent
            /\ s.rows[u][c] \in Alert => Said(alerts[u][c], s.rows[u][c])
      BY <1>3, <2>4 DEF SweepOK
    <3> QED
      BY <2>7, <3>1, <3>2, <3>3 DEF SweepOK
  <2>9. \A u \in Ticket, c \in Clock :
          s.pc = "alert" /\ s.ticket = u /\ c \in s.due /\ state[u] = Absent
             => Len(alerts[u][c]) <= lost
    BY <2>3, <2>4 DEF row
  <2> QED
    BY <1>4, <2>1, <2>4, <2>8, <2>9, Moves
<1> QED
  BY <1>5, <1>6

\* What the statement of one row needs: the new row says what has been announced.
LEMMA SendInv ==
    ASSUME IInv, NEW w \in Worker, NEW write \in Write, NEW pc \in {"alert", "next"},
           Send(w, write, pc),
           sweep[w].pc \in {"insert", "flush"},
           pc = "alert" => sweep[w].due # {} /\ sweep[w].loaded = Absent
                           /\ sweep[w].rows[sweep[w].ticket] = Untouched,
           \A c \in Clock : write[c] = Keep => state[sweep[w].ticket] # Absent,
           \A c \in Clock : write[c] \in Alert => Said(alerts[sweep[w].ticket][c], write[c])
    PROVE  IInv'
<1>1. CASE Conflict(w)
  <2>1. RollBack(w) /\ Around
    BY <1>1, AroundKept DEF Send
  <2> QED
    BY <2>1, RollBackInv
<1>2. CASE ~Conflict(w)
  <2> DEFINE t == sweep[w].ticket
             s == [sweep[w] EXCEPT !.rows[t] = write, !.pc = pc]
  <2>1. /\ sweep[w] \in SweepState /\ SweepOK(sweep[w], state, alerts) /\ t \in Ticket
        /\ sweep[w].rows \in [Ticket -> Write \cup {Untouched}]
    BY SweepParts DEF SweepOK
  <2>2. Step(w, s) /\ Around /\ UNCHANGED <<state, alerts, lost>> /\ ~Locked(w)
    BY <1>2, AroundKept DEF Send
  <2>3. /\ s \in SweepState /\ s.pc = pc /\ s.todo = sweep[w].todo /\ s.ticket = t
        /\ s.seen = sweep[w].seen /\ s.loaded = sweep[w].loaded /\ s.due = sweep[w].due
        /\ s.rows = [sweep[w].rows EXCEPT ![t] = write]
    BY <2>1 DEF SweepState
  <2>4. write # Untouched
    BY MonitorAssumption DEF Write
  <2>5. \A u \in Ticket : s.rows[u] = IF u = t THEN write ELSE sweep[w].rows[u]
    BY <2>1, <2>3
  <2>6. \A v \in Worker \ {w} : sweep[v].rows[t] = Untouched
    BY <2>2 DEF Locked
  <2> HIDE DEF s
  <2>7. SweepOK(s, state, alerts)
    <3>1. \A u \in Ticket, c \in Clock : s.rows[u] # Untouched =>
            /\ s.rows[u][c] = Keep => state[u] # Absent
            /\ s.rows[u][c] \in Alert => Said(alerts[u][c], s.rows[u][c])
      BY <2>1, <2>5 DEF SweepOK
    <3>2. t \notin s.todo
      BY <2>1, <2>3 DEF SweepOK
    <3>3. \A q \in s.todo : s.rows[q] = Untouched
      BY <2>1, <2>3, <2>5, <3>2, SweepParts DEF SweepOK
    <3>4. pc = "alert" => /\ s.ticket \in Ticket /\ s.seen # NoSla
                          /\ s.loaded # Absent => state[s.ticket] # Absent
                          /\ \A c \in s.due : s.seen[c] \in Alert
                          /\ \A c \in Clock \ s.due :
                                s.seen[c] \in Alert /\ s.seen[c] # LastStatus(s.loaded)[c]
                                   => Said(alerts[s.ticket][c], s.seen[c])
                          /\ s.ticket \notin s.todo
      BY <2>1, <2>3, <3>2 DEF SweepOK
    <3>5. pc = "alert" => s.due # {} /\ (s.loaded = Absent => s.rows[s.ticket] # Untouched)
      BY <2>1, <2>3, <2>4, <2>5
    <3> QED
      BY <2>3, <3>1, <3>2, <3>3, <3>4, <3>5 DEF SweepOK
  <2>8. ASSUME NEW u \in Ticket, NEW c \in Clock, s.pc = "alert", s.ticket = u, state[u] = Absent
        PROVE  Len(alerts[u][c]) <= lost
    <3>1. \A v \in Worker : sweep[v].rows[u] = Untouched
      BY <2>3, <2>6, <2>8
    <3> QED
      BY <2>8, <3>1 DEF IInv, FreshOK
  <2>9. /\ \A u \in Ticket : sweep[w].rows[u] # Untouched => s.rows[u] # Untouched
        /\ \A u \in Ticket : s.rows[u] # Untouched /\ sweep[w].rows[u] = Untouched
              => \A v \in Worker \ {w} : sweep[v].rows[u] = Untouched
    BY <2>4, <2>5, <2>6
  <2> QED
    BY <2>2, <2>3, <2>7, <2>8, <2>9, Moves
<1> QED
  BY <1>1, <1>2

LEMMA InsertInv ==
    ASSUME IInv, NEW w \in Worker, Insert(w)
    PROVE  IInv'
<1>1. Blank \in Write /\ \A c \in Clock : Blank[c] # Keep /\ Blank[c] \notin Alert
  BY MonitorAssumption DEF Blank, Write, Status
<1>2. /\ sweep[w].pc = "insert" /\ Send(w, Blank, "alert")
      /\ sweep[w].loaded = Absent /\ sweep[w].rows[sweep[w].ticket] = Untouched
  BY SweepParts DEF Insert, SweepOK
<1>3. sweep[w].due # {}
  BY <1>2, SweepParts DEF SweepOK
<1> QED
  BY <1>1, <1>2, <1>3, SendInv

LEMMA FlushInv ==
    ASSUME IInv, NEW w \in Worker, Flush(w)
    PROVE  IInv'
<1>1. /\ sweep[w] \in SweepState /\ SweepOK(sweep[w], state, alerts) /\ sweep[w].pc = "flush"
      /\ sweep[w].due = {} /\ sweep[w].ticket \in Ticket
      /\ sweep[w].seen \in [Clock -> Status] /\ sweep[w].loaded \in Row \cup {Absent}
  BY SweepParts DEF Flush, SweepOK, Reading
<1> DEFINE changed == Changed(sweep[w])
<1>2. CASE changed = {}
  <2> DEFINE s == [sweep[w] EXCEPT !.pc = "next"]
  <2>1. Step(w, s) /\ UNCHANGED <<state, alerts, lost>> /\ Around
    BY <1>2, AroundKept DEF Flush
  <2>2. /\ s \in SweepState /\ s.pc = "next" /\ s.rows = sweep[w].rows
        /\ s.todo = sweep[w].todo
    BY <1>1 DEF SweepState
  <2> HIDE DEF s
  <2>3. SweepOK(s, state, alerts)
    BY <1>1, <2>2 DEF SweepOK
  <2> QED
    BY <2>1, <2>2, <2>3, Moves
<1>3. CASE changed # {}
  <2> DEFINE write == [c \in Clock |-> IF c \in changed THEN sweep[w].seen[c] ELSE Keep]
  <2>1. Send(w, write, "next")
    BY <1>3 DEF Flush
  <2>2. write \in Write
    BY <1>1 DEF Write
  <2>3. ASSUME NEW c \in Clock, write[c] = Keep
        PROVE  state[sweep[w].ticket] # Absent
    <3>1. c \notin changed
      BY <1>1, <2>3, MonitorAssumption
    <3>2. sweep[w].seen[c] = LastStatus(sweep[w].loaded)[c]
      BY <3>1 DEF Changed
    <3>3. sweep[w].loaded # Absent
      BY <1>1, <3>2, MonitorAssumption DEF LastStatus, Blank
    <3> QED
      BY <1>1, <3>3 DEF SweepOK
  <2>4. ASSUME NEW c \in Clock, write[c] \in Alert
        PROVE  Said(alerts[sweep[w].ticket][c], write[c])
    <3>1. c \in changed /\ write[c] = sweep[w].seen[c]
      BY <2>4, MonitorAssumption DEF Status
    <3>2. sweep[w].seen[c] # LastStatus(sweep[w].loaded)[c]
      BY <3>1 DEF Changed
    <3> QED
      BY <1>1, <2>4, <3>1, <3>2 DEF SweepOK
  <2> HIDE DEF write
  <2> QED
    BY <1>1, <2>1, <2>2, <2>3, <2>4, SendInv
<1> QED
  BY <1>2, <1>3

LEMMA SendAlertInv ==
    ASSUME IInv, NEW w \in Worker, SendAlert(w)
    PROVE  IInv'
<1> DEFINE t == sweep[w].ticket
           c == IF "response" \in sweep[w].due THEN "response" ELSE "resolution"
           due == sweep[w].due \ {c}
           s == [sweep[w] EXCEPT !.due = due, !.pc = IF due = {} THEN "flush" ELSE "alert"]
           v == sweep[w].seen[c]
<1>1. /\ sweep[w] \in SweepState /\ SweepOK(sweep[w], state, alerts) /\ sweep[w].pc = "alert"
      /\ sweep[w].due \subseteq Clock /\ sweep[w].due # {} /\ t \in Ticket
  BY SweepParts DEF SendAlert, SweepOK
<1>2. c \in sweep[w].due /\ c \in Clock /\ v \in Alert
  BY <1>1 DEF SweepOK, Clock
<1>3. /\ alerts' = [alerts EXCEPT ![t][c] = Append(@, v)]
      /\ Step(w, s) /\ UNCHANGED <<state, lost>> /\ Around
  BY AroundKept DEF SendAlert
<1>4. /\ s \in SweepState /\ s.pc = IF due = {} THEN "flush" ELSE "alert"
      /\ s.due = due /\ s.rows = sweep[w].rows /\ s.todo = sweep[w].todo /\ s.ticket = t
      /\ s.seen = sweep[w].seen /\ s.loaded = sweep[w].loaded
  BY <1>1 DEF SweepState
<1>5. alerts \in [Ticket -> [Clock -> Seq(Alert)]]
  BY DEF IInv, TypeOK
<1>6. /\ alerts' \in [Ticket -> [Clock -> Seq(Alert)]]
      /\ alerts'[t][c] = Append(alerts[t][c], v)
      /\ \A u \in Ticket, d \in Clock : ~(u = t /\ d = c) => alerts'[u][d] = alerts[u][d]
  BY <1>1, <1>2, <1>3, <1>5
<1>7. \A u \in Ticket, d \in Clock, a \in Alert : Said(alerts[u][d], a) => Said(alerts'[u][d], a)
  <2>1. ASSUME NEW u \in Ticket, NEW d \in Clock, NEW a \in Alert, Said(alerts[u][d], a)
        PROVE  Said(alerts'[u][d], a)
    <3>1. CASE u = t /\ d = c
      <4>1. alerts[t][c] \in Seq(Alert) /\ v \in Alert
        BY <1>1, <1>2, <1>5
      <4>2. Said(Append(alerts[t][c], v), a)
        BY <2>1, <3>1, <4>1, SaidAppend
      <4> QED
        BY <1>6, <3>1, <4>2
    <3>2. CASE ~(u = t /\ d = c)
      BY <1>6, <2>1, <3>2
    <3> QED
      BY <3>1, <3>2
  <2> QED
    BY <2>1
<1>8. Said(alerts'[t][c], v)
  BY <1>1, <1>2, <1>5, <1>6, SaidAppend
<1> HIDE DEF s, due, c, t, v
<1>9. SweepOK(s, state', alerts')
  <2>1. SweepOK(sweep[w], state', alerts')
    BY <1>1, <1>3, <1>7, StaysOK
  <2>2. \A d \in Clock \ s.due : s.seen[d] \in Alert /\ s.seen[d] # LastStatus(s.loaded)[d]
                                   => Said(alerts'[s.ticket][d], s.seen[d])
    <3>1. ASSUME NEW d \in Clock \ s.due, s.seen[d] \in Alert,
                 s.seen[d] # LastStatus(s.loaded)[d]
          PROVE  Said(alerts'[s.ticket][d], s.seen[d])
      <4>1. CASE d = c
        BY <1>4, <1>8, <4>1 DEF v
      <4>2. CASE d # c
        <5>1. d \in Clock \ sweep[w].due
          BY <1>4, <3>1, <4>2 DEF due
        <5> QED
          BY <1>1, <1>4, <2>1, <3>1, <5>1 DEF SweepOK, t
      <4> QED
        BY <4>1, <4>2
    <3> QED
      BY <3>1
  <2>3. /\ s.pc \in {"alert", "flush"} /\ (s.pc = "alert" => s.due # {})
        /\ (s.pc = "flush" => s.due = {}) /\ s.due \subseteq sweep[w].due
    BY <1>4 DEF due
  <2>4. /\ s.ticket \in Ticket /\ s.seen # NoSla
        /\ s.loaded # Absent => state'[s.ticket] # Absent
        /\ \A d \in s.due : s.seen[d] \in Alert
        /\ s.ticket \notin s.todo
        /\ s.loaded = Absent => s.rows[s.ticket] # Untouched
    BY <1>1, <1>4, <2>1, <2>3 DEF SweepOK, t
  <2>5. /\ \A u \in s.todo : s.rows[u] = Untouched
        /\ \A u \in Ticket, d \in Clock : s.rows[u] # Untouched =>
              /\ s.rows[u][d] = Keep => state'[u] # Absent
              /\ s.rows[u][d] \in Alert => Said(alerts'[u][d], s.rows[u][d])
    BY <1>4, <2>1 DEF SweepOK
  <2> QED
    BY <2>2, <2>3, <2>4, <2>5 DEF SweepOK
<1>10. /\ sweep' \in [Worker -> SweepState]
       /\ sweep'[w] = s
       /\ \A u \in Worker \ {w} : sweep'[u] = sweep[u]
       /\ \A u \in Worker : SweepOK(sweep'[u], state', alerts')
  BY <1>3, <1>4, <1>7, <1>9, OneSweep
<1>11. TypeOK'
  BY <1>3, <1>6, <1>10 DEF IInv, TypeOK, Around
<1>12. Exclusive(sweep')
  BY <1>4, <1>10 DEF IInv, Exclusive
<1>13. ASSUME NEW u \in Ticket, NEW d \in Clock
       PROVE  FreshOK(u, d, sweep', state', alerts', lost')
  <2>1. FreshOK(u, d, sweep, state, alerts, lost) /\ lost \in Nat
    BY DEF IInv, TypeOK
  <2>2. \A x \in Worker : sweep'[x].rows[u] = sweep[x].rows[u]
    BY <1>4, <1>10
  <2>3. CASE u = t /\ d = c
    <3>1. Len(alerts'[t][c]) = Len(alerts[t][c]) + 1 /\ Len(alerts[t][c]) \in Nat
      BY <1>1, <1>2, <1>5, <1>6
    <3>2. SUFFICES ASSUME state[t] = Absent
                   PROVE  /\ Len(alerts'[t][c]) <= lost + 1
                          /\ \E x \in Worker : sweep'[x].rows[t] # Untouched
                          /\ \A x \in Worker : ~(sweep'[x].pc = "alert" /\ sweep'[x].ticket = t
                                                   /\ c \in sweep'[x].due)
      BY <1>3, <2>3 DEF FreshOK
    <3>3. Len(alerts[t][c]) <= lost
      BY <1>1, <1>2, <2>1, <2>3, <3>2 DEF FreshOK, t
    <3>4. sweep[w].rows[t] # Untouched
      BY <1>1, <3>2 DEF SweepOK, t
    <3>5. ASSUME NEW x \in Worker, sweep'[x].pc = "alert", sweep'[x].ticket = t, c \in sweep'[x].due
          PROVE  FALSE
      <4>1. CASE x = w
        BY <1>4, <1>10, <3>5, <4>1 DEF due
      <4>2. CASE x # w
        <5>1. sweep'[x] = sweep[x]
          BY <1>10, <4>2
        <5>2. sweep[x].pc = "alert" /\ sweep[x].ticket = t
          BY <3>5, <5>1
        <5>3. sweep[x].loaded = Absent
          BY <3>2, <5>2, SweepParts DEF SweepOK
        <5>4. sweep[x].rows[t] # Untouched
          BY <5>2, <5>3, SweepParts DEF SweepOK
        <5> QED
          BY <1>1, <3>4, <4>2, <5>4 DEF IInv, Exclusive
      <4> QED
        BY <4>1, <4>2
    <3>6. sweep'[w].rows[t] # Untouched
      BY <1>4, <1>10, <3>4
    <3>7. Len(alerts'[t][c]) <= lost + 1
      BY <2>1, <3>1, <3>3
    <3> QED
      BY <3>5, <3>6, <3>7
  <2>4. CASE ~(u = t /\ d = c)
    <3>1. alerts'[u][d] = alerts[u][d]
      BY <1>6, <2>4
    <3>2. ASSUME NEW x \in Worker, sweep'[x].pc = "alert", sweep'[x].ticket = u, d \in sweep'[x].due
          PROVE  sweep[x].pc = "alert" /\ sweep[x].ticket = u /\ d \in sweep[x].due
      <4>1. CASE x = w
        BY <1>1, <1>4, <1>10, <3>2, <4>1 DEF due, t
      <4>2. CASE x # w
        BY <1>10, <3>2, <4>2
      <4> QED
        BY <4>1, <4>2
    <3> QED
      BY <1>3, <2>1, <2>2, <3>1, <3>2 DEF FreshOK
  <2> QED
    BY <2>3, <2>4
<1>14. RecordedIsAnnounced'
  BY <1>3, <1>7 DEF IInv, RecordedIsAnnounced
<1> QED
  BY <1>10, <1>11, <1>12, <1>13, <1>14 DEF IInv

LEMMA CommitInv ==
    ASSUME IInv, NEW w \in Worker, Commit(w)
    PROVE  IInv'
<1>1. /\ sweep[w] \in SweepState /\ SweepOK(sweep[w], state, alerts)
      /\ sweep[w].rows \in [Ticket -> Write \cup {Untouched}]
  BY SweepParts
<1>2. /\ Step(w, Idle) /\ UNCHANGED <<alerts, lost>> /\ Around
      /\ state' = [t \in Ticket |-> IF sweep[w].rows[t] = Untouched THEN state[t]
                                    ELSE Merged(state[t], sweep[w].rows[t])]
  BY AroundKept DEF Commit
<1>3. ASSUME NEW t \in Ticket, sweep[w].rows[t] # Untouched
      PROVE  /\ state'[t] \in Row
             /\ \A c \in Clock : state'[t][c] = IF sweep[w].rows[t][c] = Keep THEN state[t][c]
                                                 ELSE sweep[w].rows[t][c]
  <2>1. state'[t] = [c \in Clock |-> IF sweep[w].rows[t][c] = Keep THEN state[t][c]
                                     ELSE sweep[w].rows[t][c]]
    BY <1>2, <1>3 DEF Merged
  <2>2. sweep[w].rows[t] \in Write
    BY <1>1, <1>3
  <2>3. ASSUME NEW c \in Clock
        PROVE  (IF sweep[w].rows[t][c] = Keep THEN state[t][c] ELSE sweep[w].rows[t][c])
                  \in Status \cup {Null}
    <3>1. CASE sweep[w].rows[t][c] = Keep
      <4>1. state[t] \in Row
        BY <1>1, <1>3, <3>1 DEF SweepOK, IInv, TypeOK
      <4> QED
        BY <3>1, <4>1 DEF Row
    <3>2. CASE sweep[w].rows[t][c] # Keep
      BY <2>2, <3>2 DEF Write
    <3> QED
      BY <3>1, <3>2
  <2> QED
    BY <2>1, <2>3 DEF Row
<1>4. \A t \in Ticket : sweep[w].rows[t] = Untouched => state'[t] = state[t]
  BY <1>2
<1>5. \A t \in Ticket : state'[t] = Absent =>
          state[t] = Absent /\ sweep[w].rows[t] = Untouched
  <2>1. Absent \notin Row
    BY MonitorAssumption DEF Row
  <2> QED
    BY <1>3, <1>4, <2>1
<1>6. Idle \in SweepState /\ SweepOK(Idle, state', alerts')
  BY IdleOK
<1>7. \A t \in Ticket : state[t] # Absent => state'[t] # Absent
  BY <1>5
<1>8. \A t \in Ticket, c \in Clock, v \in Alert : Said(alerts[t][c], v) => Said(alerts'[t][c], v)
  BY <1>2
<1>9. /\ sweep' \in [Worker -> SweepState]
      /\ sweep'[w] = Idle
      /\ \A v \in Worker \ {w} : sweep'[v] = sweep[v]
      /\ \A v \in Worker : SweepOK(sweep'[v], state', alerts')
  BY <1>2, <1>6, <1>7, <1>8, OneSweep
<1>10. TypeOK'
  <2>1. \A t \in Ticket : state'[t] \in Row \cup {Absent}
    BY <1>3, <1>4 DEF IInv, TypeOK
  <2>2. state' \in [Ticket -> Row \cup {Absent}]
    BY <1>2, <2>1
  <2> QED
    BY <1>2, <1>9, <2>2 DEF IInv, TypeOK, Around
<1>11. Exclusive(sweep')
  BY <1>9 DEF IInv, Exclusive, Idle
<1>12. ASSUME NEW t \in Ticket, NEW c \in Clock
       PROVE  FreshOK(t, c, sweep', state', alerts', lost')
  <2>1. SUFFICES ASSUME state'[t] = Absent
                 PROVE  /\ Len(alerts[t][c]) <= lost + 1
                        /\ (\A v \in Worker : sweep'[v].rows[t] = Untouched)
                              => Len(alerts[t][c]) <= lost
                        /\ \A v \in Worker : sweep'[v].pc = "alert" /\ sweep'[v].ticket = t
                              /\ c \in sweep'[v].due => Len(alerts[t][c]) <= lost
    BY <1>2 DEF FreshOK
  <2>2. state[t] = Absent /\ sweep[w].rows[t] = Untouched
    BY <1>5, <2>1
  <2>3. FreshOK(t, c, sweep, state, alerts, lost)
    BY DEF IInv
  <2>4. (\A v \in Worker : sweep'[v].rows[t] = Untouched)
           => \A v \in Worker : sweep[v].rows[t] = Untouched
    BY <1>9, <2>2
  <2>5. \A v \in Worker : sweep'[v].pc = "alert" => sweep'[v] = sweep[v]
    BY <1>9 DEF Idle
  <2> QED
    BY <2>2, <2>3, <2>4, <2>5 DEF FreshOK
<1>13. RecordedIsAnnounced'
  <2>1. ASSUME NEW t \in Ticket, NEW c \in Clock, state'[t] # Absent, state'[t][c] \in Alert
        PROVE  Said(alerts[t][c], state'[t][c])
    <3>1. CASE sweep[w].rows[t] # Untouched /\ sweep[w].rows[t][c] # Keep
      BY <1>1, <1>3, <2>1, <3>1 DEF SweepOK
    <3>2. CASE sweep[w].rows[t] # Untouched /\ sweep[w].rows[t][c] = Keep
      <4>1. state[t] # Absent /\ state'[t][c] = state[t][c]
        BY <1>1, <1>3, <3>2 DEF SweepOK
      <4> QED
        BY <2>1, <4>1 DEF IInv, RecordedIsAnnounced
    <3>3. CASE sweep[w].rows[t] = Untouched
      BY <1>4, <2>1, <3>3 DEF IInv, RecordedIsAnnounced
    <3> QED
      BY <3>1, <3>2, <3>3
  <2> QED
    BY <1>2, <2>1 DEF RecordedIsAnnounced
<1> QED
  BY <1>9, <1>10, <1>11, <1>12, <1>13 DEF IInv

LEMMA NextInv ==
    ASSUME IInv, [Next]_vars
    PROVE  IInv'
<1>1. CASE Next
  <2>1. ASSUME NEW t \in Ticket, Edit(t) \/ \E c \in Clock : TimePasses(t, c)
        PROVE  IInv'
    BY <2>1, EditInv, TimeInv
  <2>2. ASSUME NEW w \in Worker, SweepStart(w) \/ Work(w)
        PROVE  IInv'
    BY <2>2, SweepStartInv, LookInv, InsertInv, SendAlertInv, FlushInv, CommitInv DEF Work
  <2>3. ASSUME NEW w \in Worker, Crash(w) \/ DeadlockVictim(w)
        PROVE  IInv'
    <3>1. RollBack(w) /\ Around
      BY <2>3, AroundKept DEF Crash, DeadlockVictim
    <3> QED
      BY <3>1, RollBackInv
  <2> QED
    BY <1>1, <2>1, <2>2, <2>3 DEF Next
<1>2. CASE UNCHANGED vars
  <2>1. UNCHANGED <<active, clocks, state, sweep, alerts, entered, changes, lost, overlapped, mixed>>
    BY <1>2 DEF vars
  <2>2. TypeOK' /\ RecordedIsAnnounced'
    BY <2>1 DEF IInv, TypeOK, RecordedIsAnnounced
  <2> QED
    BY <2>1, <2>2 DEF IInv
<1> QED
  BY <1>1, <1>2

--------------------------------------------------------------------------
(* Theorems *)

\* Every sweep is consistent with the table and the alerts sent, whatever others do.
THEOREM InductiveInvariant == Spec => []IInv
BY InitInv, NextInv, PTL DEF Spec

\* Clocks, rows, sweeps and alerts keep their types.
THEOREM TypeCorrect == Spec => []TypeOK
<1>1. IInv => TypeOK
  BY DEF IInv
<1> QED
  BY <1>1, InductiveInvariant, PTL

\* check_sla_transitions swallows no alert: for any number of tickets and overlapping,
\* crashing or deadlocked sweeps, a recorded at_risk or breached has been announced.
THEOREM NoAlertSwallowed == Spec => []RecordedIsAnnounced
<1>1. IInv => RecordedIsAnnounced
  BY DEF IInv
<1> QED
  BY <1>1, InductiveInvariant, PTL

\* The insert flushed before the first alert serialises the sweeps of a new ticket:
\* while it has no committed row, only a lost sweep makes a further alert.
THEOREM NewTicketAlertedOnce == Spec => []FirstAlertOnce
<1>1. IInv => FirstAlertOnce
  <2>1. ASSUME IInv, NEW t \in Ticket, NEW c \in Clock, state[t] = Absent
        PROVE  Len(alerts[t][c]) <= 1 + lost
    <3>1. Len(alerts[t][c]) <= lost + 1
      BY <2>1 DEF IInv, FreshOK
    <3> QED
      BY <2>1, <3>1 DEF IInv, TypeOK
  <2> QED
    BY <2>1 DEF FirstAlertOnce
<1> QED
  BY <1>1, InductiveInvariant, PTL
--------------------------------------------------------------------------
(* Sweeps that do not overlap *)

\* Where a clock that showed x shows y, a sweep announces it once or not at all.
Turn(x, y) == IF y \in Alert /\ y # x THEN 1 ELSE 0

\* The sweep s has read the clocks of t and has not yet written what it saw.
Handling(s, t) == s.pc \in {"insert", "alert", "flush"} /\ s.ticket = t

\* The row of t as it will be on record when s commits.
Final(s, t, c, row) ==
    IF s.rows[t] = Untouched THEN LastStatus(row)[c]
    ELSE IF s.rows[t][c] = Keep THEN row[c] ELSE s.rows[t][c]

\* The alerts of a clock that were said, with those that s, alone with the row on record,
\* still has to say when the clock shows now, are no more than its turns.
Paid(s, t, c, row, said, now, turns) ==
    /\ Handling(s, t) =>
          /\ s.loaded = row /\ (row # Absent => s.rows[t] = Untouched)
          /\ said + (IF c \in s.due THEN 1 ELSE 0) + Turn(s.seen[c], now) <= turns
    /\ ~Handling(s, t) => said + Turn(Final(s, t, c, row), now) <= turns

\* The turns of a clock, and what was read for it and was never shown: that costs an alert of
\* its own and one of what is shown after it.
Turns(t, c) == entered[t][c] + 2 * mixed[t][c]

Sole(w) == \A v \in Worker \ {w} : sweep[v].pc = "idle"

AllPaid(s) == \A t \in Ticket, c \in Clock :
    Paid(s, t, c, state[t], Len(alerts[t][c]), StatusOf(clocks[t], c), Turns(t, c))

AloneInv ==
    /\ \A w \in Worker : sweep[w].pc = "idle" => sweep[w] = Idle
    /\ lost = 0 /\ ~overlapped =>
          /\ \A v, w \in Worker : v = w \/ sweep[v].pc = "idle" \/ sweep[w].pc = "idle"
          /\ \A w \in Worker : Sole(w) => AllPaid(sweep[w])
          /\ \A t \in Ticket, c \in Clock : Len(alerts[t][c]) <= Turns(t, c)

LEMMA TurnFacts ==
    ASSUME NEW x, NEW y, NEW z
    PROVE  /\ Turn(x, y) \in {0, 1} /\ Turn(x, x) = 0
           /\ Turn(x, z) <= Turn(x, y) + Turn(y, z)
BY DEF Turn

\* Alerts and turns are counts.
LEMMA Counts ==
    ASSUME IInv, NEW t \in Ticket, NEW c \in Clock
    PROVE  Len(alerts[t][c]) \in Nat /\ Turns(t, c) \in Nat
BY DEF IInv, TypeOK, Turns

LEMMA SameTurns ==
    ASSUME UNCHANGED <<entered, mixed>>
    PROVE  \A t \in Ticket, c \in Clock : Turns(t, c)' = Turns(t, c)
BY DEF Turns

LEMMA PaidEnough ==
    ASSUME NEW s, NEW t, NEW c, NEW row, NEW said \in Nat, NEW now, NEW turns \in Nat,
           Paid(s, t, c, row, said, now, turns)
    PROVE  said <= turns
<1>1. CASE Handling(s, t)
  BY <1>1, TurnFacts DEF Paid
<1>2. CASE ~Handling(s, t)
  BY <1>2, TurnFacts DEF Paid
<1> QED
  BY <1>1, <1>2

\* One sweep moves: alone, it is the only one that has to have paid.
LEMMA AloneMoves ==
    ASSUME IInv, IInv', AloneInv, NEW w \in Worker, NEW s, Step(w, s),
           s.pc = "idle" => s = Idle,
           lost' = 0 /\ ~overlapped' =>
              /\ lost = 0 /\ ~overlapped /\ Sole(w)
              /\ \A t \in Ticket, c \in Clock :
                    Paid(s, t, c, state'[t], Len(alerts'[t][c]), StatusOf(clocks'[t], c),
                         Turns(t, c)')
    PROVE  AloneInv'
<1>1. /\ sweep'[w] = s
      /\ \A v \in Worker \ {w} : sweep'[v] = sweep[v]
  BY DEF Step, IInv, TypeOK
<1>2. \A v \in Worker : sweep'[v].pc = "idle" => sweep'[v] = Idle
  BY <1>1 DEF AloneInv
<1>3. ASSUME lost' = 0, ~overlapped'
      PROVE  /\ \A u, v \in Worker : u = v \/ sweep'[u].pc = "idle" \/ sweep'[v].pc = "idle"
             /\ \A v \in Worker : Sole(v)' => AllPaid(sweep[v])'
             /\ \A t \in Ticket, c \in Clock : Len(alerts'[t][c]) <= Turns(t, c)'
  <2>1. /\ Sole(w)
        /\ \A t \in Ticket, c \in Clock :
              Paid(s, t, c, state'[t], Len(alerts'[t][c]), StatusOf(clocks'[t], c),
                   Turns(t, c)')
    BY <1>3
  <2>2. \A u, v \in Worker : u = v \/ sweep'[u].pc = "idle" \/ sweep'[v].pc = "idle"
    BY <1>1, <2>1 DEF Sole
  <2>3. ASSUME NEW v \in Worker, Sole(v)' PROVE AllPaid(sweep[v])'
    <3>1. sweep'[v] = s
      <4>1. CASE v = w
        BY <1>1, <4>1
      <4>2. CASE v # w
        <5>1. sweep'[v] = Idle
          BY <1>1, <1>2, <2>1, <4>2 DEF Sole
        <5>2. s = Idle
          BY <1>1, <2>3, <4>2 DEF Sole
        <5> QED
          BY <5>1, <5>2
      <4> QED
        BY <4>1, <4>2
    <3> QED
      BY <2>1, <3>1 DEF AllPaid
  <2>4. ASSUME NEW t \in Ticket, NEW c \in Clock
        PROVE  Len(alerts'[t][c]) <= Turns(t, c)'
    <3>1. Len(alerts'[t][c]) \in Nat /\ Turns(t, c)' \in Nat
      BY DEF IInv, TypeOK, Turns
    <3> QED
      BY <2>1, <3>1, PaidEnough
  <2> QED
    BY <2>2, <2>3, <2>4
<1> QED
  BY <1>2, <1>3 DEF AloneInv

LEMMA AwakeIsSole ==
    ASSUME AloneInv, NEW w \in Worker, sweep[w].pc # "idle", lost = 0, ~overlapped
    PROVE  /\ Sole(w)
           /\ \A t \in Ticket, c \in Clock :
                 Paid(sweep[w], t, c, state[t], Len(alerts[t][c]), StatusOf(clocks[t], c),
                      Turns(t, c))
<1>1. Sole(w)
  BY DEF AloneInv, Sole
<1> QED
  BY <1>1 DEF AloneInv, AllPaid

\* A clock that turns meanwhile pays for its own alert.
LEMMA PaidTurns ==
    ASSUME NEW s, NEW t, NEW c, NEW row, NEW said \in Nat, NEW now, NEW turns \in Nat, NEW new,
           Paid(s, t, c, row, said, now, turns)
    PROVE  Paid(s, t, c, row, said, new, turns + Turn(now, new))
<1>1. \A x : Turn(x, new) <= Turn(x, now) + Turn(now, new)
             /\ Turn(x, new) \in {0, 1} /\ Turn(x, now) \in {0, 1} /\ Turn(now, new) \in {0, 1}
  BY TurnFacts
<1>2. ASSUME Handling(s, t)
      PROVE  /\ s.loaded = row /\ (row # Absent => s.rows[t] = Untouched)
             /\ said + (IF c \in s.due THEN 1 ELSE 0) + Turn(s.seen[c], new)
                  <= turns + Turn(now, new)
  BY <1>1, <1>2 DEF Paid
<1>3. ASSUME ~Handling(s, t)
      PROVE  said + Turn(Final(s, t, c, row), new) <= turns + Turn(now, new)
  BY <1>1, <1>3 DEF Paid
<1> QED
  BY <1>2, <1>3 DEF Paid

\* What a sweep has paid does not depend on the age of what it has loaded.
LEMMA AloneClocks ==
    ASSUME IInv, AloneInv, NEW t \in Ticket, NEW reading \in Reading, TurnTo(t, reading),
           UNCHANGED sweep \/ sweep' = [w \in Worker |-> Aged(sweep[w], t)]
    PROVE  AloneInv'
<1>1. UNCHANGED <<state, alerts, lost, overlapped, mixed>>
  BY DEF TurnTo
<1>2. ASSUME lost = 0, ~overlapped, NEW u \in Ticket, NEW c \in Clock
      PROVE  Turns(u, c)' = Turns(u, c) + Turn(StatusOf(clocks[u], c), StatusOf(clocks'[u], c))
  <2>1. /\ entered[u][c] \in Nat /\ mixed[u][c] \in Nat
        /\ \A x : Turn(x, x) = 0
    BY TurnFacts DEF IInv, TypeOK
  <2>2. CASE u = t
    <3>1. clocks'[u] = reading
      BY <2>2 DEF TurnTo, IInv, TypeOK
    <3>2. entered'[u][c] = entered[u][c]
            + IF StatusOf(reading, c) \in Alert /\ StatusOf(reading, c) # StatusOf(clocks[u], c)
              THEN 1 ELSE 0
      BY <1>2, <2>2 DEF TurnTo, IInv, TypeOK, Alone
    <3> QED
      BY <1>1, <2>1, <3>1, <3>2 DEF Turn, Turns
  <2>3. CASE u # t
    <3>1. clocks'[u] = clocks[u] /\ entered'[u] = entered[u]
      BY <2>3 DEF TurnTo, IInv, TypeOK
    <3> QED
      BY <1>1, <2>1, <3>1 DEF Turns
  <2> QED
    BY <2>2, <2>3
<1>3. ASSUME NEW w \in Worker
      PROVE  /\ sweep'[w].pc = sweep[w].pc /\ sweep'[w].ticket = sweep[w].ticket
             /\ sweep'[w].seen = sweep[w].seen /\ sweep'[w].loaded = sweep[w].loaded
             /\ sweep'[w].due = sweep[w].due /\ sweep'[w].rows = sweep[w].rows
             /\ sweep[w] = Idle => sweep'[w] = Idle
  <2>1. CASE UNCHANGED sweep
    BY <2>1
  <2>2. CASE sweep' = [v \in Worker |-> Aged(sweep[v], t)]
    <3>1. sweep'[w] = Aged(sweep[w], t) /\ sweep[w] \in SweepState
      BY <2>2, SweepParts
    <3>2. sweep[w] = Idle => Aged(sweep[w], t) = Idle
      BY DEF Aged, Idle
    <3> QED
      BY <3>1, <3>2, AgedParts
  <2> QED
    BY <2>1, <2>2
<1>4. ASSUME lost = 0, ~overlapped, NEW w \in Worker, Sole(w)
      PROVE  AllPaid(sweep[w])'
  <2>1. ASSUME NEW u \in Ticket, NEW c \in Clock
        PROVE  Paid(sweep'[w], u, c, state[u], Len(alerts[u][c]), StatusOf(clocks'[u], c), Turns(u, c)')
    <3>1. Paid(sweep[w], u, c, state[u], Len(alerts[u][c]), StatusOf(clocks[u], c), Turns(u, c))
      BY <1>4 DEF AloneInv, AllPaid
    <3>2. Paid(sweep[w], u, c, state[u], Len(alerts[u][c]), StatusOf(clocks'[u], c), Turns(u, c)')
      BY <1>2, <1>4, <3>1, Counts, PaidTurns
    <3> QED
      BY <1>3, <3>2 DEF Paid, Handling, Final
  <2> QED
    BY <1>1, <2>1 DEF AllPaid
<1>5. ASSUME lost = 0, ~overlapped, NEW u \in Ticket, NEW c \in Clock
      PROVE  Len(alerts[u][c]) <= Turns(u, c)'
  <2>1. Len(alerts[u][c]) <= Turns(u, c)
    BY <1>5 DEF AloneInv
  <2>2. Turn(StatusOf(clocks[u], c), StatusOf(clocks'[u], c)) \in {0, 1}
    BY TurnFacts
  <2> QED
    BY <1>2, <1>5, <2>1, <2>2, Counts
<1>6. \A w \in Worker : Sole(w)' => Sole(w)
  BY <1>3 DEF Sole
<1>7. \A w \in Worker : sweep'[w].pc = "idle" => sweep'[w] = Idle
  BY <1>3 DEF AloneInv
<1>8. lost = 0 /\ ~overlapped
         => \A v, w \in Worker : v = w \/ sweep'[v].pc = "idle" \/ sweep'[w].pc = "idle"
  BY <1>3 DEF AloneInv
<1> QED
  BY <1>1, <1>4, <1>5, <1>6, <1>7, <1>8 DEF AloneInv

LEMMA AloneTurns ==
    ASSUME IInv, AloneInv, NEW t \in Ticket, Edit(t) \/ \E c \in Clock : TimePasses(t, c)
    PROVE  AloneInv'
<1>1. CASE Edit(t)
  <2>1. PICK reading \in Reading : TurnTo(t, reading)
    BY <1>1, EditTurns
  <2>2. sweep' = [w \in Worker |-> Aged(sweep[w], t)]
    BY <1>1, EditTurns
  <2> QED
    BY <2>1, <2>2, AloneClocks
<1>2. ASSUME NEW c \in Clock, TimePasses(t, c)
      PROVE  AloneInv'
  <2>1. PICK status \in Alert : TurnTo(t, [clocks[t] EXCEPT ![c] = status])
    BY <1>2 DEF TimePasses
  <2>2. [clocks[t] EXCEPT ![c] = status] \in Reading
    BY <1>2 DEF TimePasses, IInv, TypeOK, Reading, Status
  <2>3. UNCHANGED sweep
    BY <1>2 DEF TimePasses
  <2> QED
    BY <2>1, <2>2, <2>3, AloneClocks
<1> QED
  BY <1>1, <1>2

LEMMA AloneStarts ==
    ASSUME IInv, IInv', AloneInv, NEW w \in Worker, SweepStart(w)
    PROVE  AloneInv'
<1>1. PICK s : s = [Idle EXCEPT !.pc = "next", !.todo = active]
  OBVIOUS
<1>2. /\ s.pc = "next" /\ s.rows = Idle.rows /\ Idle.pc = "idle"
      /\ \A t \in Ticket : Idle.rows[t] = Untouched
  BY <1>1 DEF Idle
<1>3. Step(w, s) /\ UNCHANGED <<active, clocks, state, alerts, entered, mixed, lost>>
  BY <1>1 DEF SweepStart
<1>4. ASSUME lost' = 0, ~overlapped'
      PROVE  /\ lost = 0 /\ ~overlapped /\ Sole(w)
             /\ \A t \in Ticket, c \in Clock :
                   Paid(s, t, c, state[t], Len(alerts[t][c]), StatusOf(clocks[t], c), Turns(t, c))
  <2>1. lost = 0 /\ ~overlapped /\ Sole(w) /\ sweep[w] = Idle
    BY <1>3, <1>4 DEF SweepStart, Sole, AloneInv
  <2>2. ASSUME NEW t \in Ticket, NEW c \in Clock
        PROVE  Paid(s, t, c, state[t], Len(alerts[t][c]), StatusOf(clocks[t], c), Turns(t, c))
    <3>1. Paid(Idle, t, c, state[t], Len(alerts[t][c]), StatusOf(clocks[t], c), Turns(t, c))
      BY <2>1 DEF AloneInv, AllPaid
    <3>2. ~Handling(s, t) /\ ~Handling(Idle, t)
      BY <1>2 DEF Handling
    <3>3. Final(s, t, c, state[t]) = Final(Idle, t, c, state[t])
      BY <1>2 DEF Final
    <3> QED
      BY <3>1, <3>2, <3>3 DEF Paid
  <2> QED
    BY <2>1, <2>2
<1> QED
  BY <1>2, <1>3, <1>4, SameTurns, AloneMoves

LEMMA AloneLooks ==
    ASSUME IInv, IInv', AloneInv, NEW w \in Worker, Look(w)
    PROVE  AloneInv'
<1>1. PICK t \in sweep[w].todo : \E reading \in Reading : t \in Ticket /\ LookAt(w, t, reading)
  BY LookTakes
<1>2. PICK reading \in Reading : LookAt(w, t, reading)
  BY <1>1
<1>3. /\ sweep[w] \in SweepState /\ sweep[w].pc = "next" /\ SweepOK(sweep[w], state, alerts)
      /\ t \in Ticket
      /\ \A u \in Ticket : ~Handling(sweep[w], u)
  BY <1>1, SweepParts DEF Look, Handling
<1>4. UNCHANGED <<clocks, state, alerts, entered, lost, overlapped>>
  BY DEF Look
<1>5. lost = 0 /\ ~overlapped => Sole(w)
  BY <1>3, AwakeIsSole
<1>6. CASE reading = NoSla
  <2>1. PICK s : s = [sweep[w] EXCEPT !.todo = @ \ {t}, !.old = @ \ {t}]
    OBVIOUS
  <2>2. s.pc = "next" /\ s.rows = sweep[w].rows
    BY <1>3, <2>1 DEF SweepState
  <2>3. Step(w, s) /\ UNCHANGED mixed
    BY <1>2, <1>6, <2>1 DEF LookAt
  <2>4. ASSUME lost = 0, ~overlapped, NEW u \in Ticket, NEW c \in Clock
        PROVE  Paid(s, u, c, state[u], Len(alerts[u][c]), StatusOf(clocks[u], c), Turns(u, c))
    <3>1. Paid(sweep[w], u, c, state[u], Len(alerts[u][c]), StatusOf(clocks[u], c), Turns(u, c))
      BY <1>3, <2>4, AwakeIsSole
    <3>2. ~Handling(s, u) /\ Final(s, u, c, state[u]) = Final(sweep[w], u, c, state[u])
      BY <2>2 DEF Handling, Final
    <3> QED
      BY <1>3, <3>1, <3>2 DEF Paid
  <2> QED
    BY <1>4, <1>5, <2>2, <2>3, <2>4, SameTurns, AloneMoves
<1>7. CASE reading # NoSla
  <2>1. PICK due : due = Due(reading, LastStatus(state[t]))
    OBVIOUS
  <2>2. PICK pc : pc = AfterLook(state[t], due)
    OBVIOUS
  <2>3. PICK s : s = [sweep[w] EXCEPT !.todo = @ \ {t}, !.old = @ \ {t}, !.ticket = t,
                              !.seen = reading, !.loaded = state[t], !.due = due, !.pc = pc]
    OBVIOUS
  <2>4. /\ s.pc = pc /\ s.rows = sweep[w].rows /\ s.todo = sweep[w].todo \ {t}
        /\ s.ticket = t /\ s.seen = reading /\ s.loaded = state[t] /\ s.due = due
    BY <1>3, <2>3 DEF SweepState
  <2>5. pc \in {"insert", "alert", "flush"}
    BY <2>2 DEF AfterLook
  <2>6. Step(w, s)
    BY <1>2, <1>7, <2>1, <2>2, <2>3 DEF LookAt
  <2>7. ASSUME lost = 0, ~overlapped, NEW u \in Ticket, NEW c \in Clock
        PROVE  mixed'[u][c] = mixed[u][c]
                 + IF u = t /\ reading[c] # StatusOf(clocks[u], c) THEN 1 ELSE 0
    <3>1. mixed \in [Ticket -> [Clock -> Nat]]
      BY DEF IInv, TypeOK
    <3>2. mixed' = [mixed EXCEPT ![t] = [d \in Clock |->
             mixed[t][d] + IF Alone /\ reading[d] # StatusOf(clocks[t], d) THEN 1 ELSE 0]]
      BY <1>2, <1>7 DEF LookAt
    <3>3. CASE u = t
      <4>1. mixed'[u][c] = mixed[u][c]
              + IF Alone /\ reading[c] # StatusOf(clocks[u], c) THEN 1 ELSE 0
        BY <1>3, <3>1, <3>2, <3>3
      <4> QED
        BY <2>7, <3>3, <4>1 DEF Alone
    <3>4. CASE u # t
      <4>1. mixed'[u] = mixed[u] /\ mixed[u][c] \in Nat
        BY <3>1, <3>2, <3>4
      <4> QED
        BY <3>4, <4>1
    <3> QED
      BY <3>3, <3>4
  <2>8. ASSUME lost = 0, ~overlapped, NEW u \in Ticket, NEW c \in Clock
        PROVE  Paid(s, u, c, state[u], Len(alerts[u][c]), StatusOf(clocks[u], c), Turns(u, c)')
    <3> DEFINE now == StatusOf(clocks[u], c)
               said == Len(alerts[u][c])
               last == LastStatus(state[u])[c]
    <3>1. Paid(sweep[w], u, c, state[u], said, now, Turns(u, c))
      BY <1>3, <2>8, AwakeIsSole
    <3>2. said \in Nat /\ Turns(u, c) \in Nat /\ entered[u][c] \in Nat /\ mixed[u][c] \in Nat
      BY Counts DEF IInv, TypeOK
    <3>3. CASE u = t
      <4>1. sweep[w].rows[u] = Untouched /\ Handling(s, u)
        BY <1>3, <2>4, <2>5, <3>3 DEF SweepOK, Handling
      <4>2. said + Turn(last, now) <= Turns(u, c)
        BY <1>3, <3>1, <4>1 DEF Paid, Final
      <4>3. said + Turn(last, reading[c]) + Turn(reading[c], now) <= Turns(u, c)'
        <5>1. /\ Turn(now, now) = 0 /\ Turn(last, now) \in {0, 1}
              /\ Turn(last, reading[c]) \in {0, 1} /\ Turn(reading[c], now) \in {0, 1}
          BY TurnFacts
        <5>2. Turns(u, c)' = Turns(u, c) + IF reading[c] # now THEN 2 ELSE 0
          BY <1>4, <2>7, <2>8, <3>2, <3>3 DEF Turns
        <5>3. CASE reading[c] = now
          <6>1. Turn(last, reading[c]) = Turn(last, now) /\ Turn(reading[c], now) = 0
            BY <5>1, <5>3
          <6>2. Turns(u, c)' = Turns(u, c)
            BY <3>2, <5>2, <5>3
          <6> QED
            BY <3>2, <4>2, <5>1, <6>1, <6>2
        <5>4. CASE reading[c] # now
          <6>1. Turns(u, c)' = Turns(u, c) + 2
            BY <5>2, <5>4
          <6> QED
            BY <3>2, <4>2, <5>1, <6>1
        <5> QED
          BY <5>3, <5>4
      <4>4. (IF c \in s.due THEN 1 ELSE 0) = Turn(last, reading[c])
        BY <2>1, <2>4, <3>3 DEF Due, Turn
      <4>5. /\ s.loaded = state[u] /\ (state[u] # Absent => s.rows[u] = Untouched)
            /\ said + (IF c \in s.due THEN 1 ELSE 0) + Turn(s.seen[c], now) <= Turns(u, c)'
        BY <2>4, <3>3, <4>1, <4>3, <4>4
      <4> QED
        BY <4>1, <4>5 DEF Paid
    <3>4. CASE u # t
      <4>1. ~Handling(s, u) /\ Final(s, u, c, state[u]) = Final(sweep[w], u, c, state[u])
        BY <2>4, <3>4 DEF Handling, Final
      <4>2. Turns(u, c)' = Turns(u, c)
        BY <1>4, <2>7, <2>8, <3>2, <3>4 DEF Turns
      <4> QED
        BY <1>3, <3>1, <4>1, <4>2 DEF Paid
    <3> QED
      BY <3>3, <3>4
  <2> QED
    BY <1>4, <1>5, <2>4, <2>5, <2>6, <2>8, AloneMoves
<1> QED
  BY <1>6, <1>7

\* A lost sweep ends what is promised to sweeps of which none is lost.
LEMMA AloneRollsBack ==
    ASSUME IInv, IInv', AloneInv, NEW w \in Worker, RollBack(w)
    PROVE  AloneInv'
<1>1. lost' # 0 /\ Step(w, Idle)
  BY DEF RollBack, IInv, TypeOK
<1> QED
  BY <1>1, AloneMoves

LEMMA AloneAlerts ==
    ASSUME IInv, IInv', AloneInv, NEW w \in Worker, SendAlert(w)
    PROVE  AloneInv'
<1>1. PICK t : t = sweep[w].ticket
  OBVIOUS
<1>2. PICK c : c = IF "response" \in sweep[w].due THEN "response" ELSE "resolution"
  OBVIOUS
<1>3. PICK due : due = sweep[w].due \ {c}
  OBVIOUS
<1>4. PICK pc : pc = IF due = {} THEN "flush" ELSE "alert"
  OBVIOUS
<1>5. PICK s : s = [sweep[w] EXCEPT !.due = due, !.pc = pc]
  OBVIOUS
<1>6. /\ sweep[w] \in SweepState /\ SweepOK(sweep[w], state, alerts) /\ sweep[w].pc = "alert"
      /\ sweep[w].due \subseteq Clock /\ sweep[w].due # {} /\ t \in Ticket
  BY <1>1, SweepParts DEF SendAlert, SweepOK
<1>7. c \in sweep[w].due /\ c \in Clock
  BY <1>2, <1>6 DEF Clock
<1>8. /\ s.pc \in {"alert", "flush"} /\ s.due = due /\ s.rows = sweep[w].rows
      /\ s.todo = sweep[w].todo /\ s.ticket = t
      /\ s.seen = sweep[w].seen /\ s.loaded = sweep[w].loaded
  BY <1>1, <1>4, <1>5, <1>6 DEF SweepState
<1>9. /\ alerts' = [alerts EXCEPT ![t][c] = Append(@, sweep[w].seen[c])]
      /\ Step(w, s) /\ UNCHANGED <<clocks, state, entered, mixed, lost, overlapped>>
  BY <1>1, <1>2, <1>3, <1>4, <1>5 DEF SendAlert
<1>10. alerts \in [Ticket -> [Clock -> Seq(Alert)]] /\ sweep[w].seen[c] \in Alert
  BY <1>1, <1>6, <1>7 DEF IInv, TypeOK, SweepOK
<1>11. ASSUME NEW u \in Ticket, NEW d \in Clock, ~(u = t /\ d = c)
       PROVE  alerts'[u][d] = alerts[u][d]
  BY <1>6, <1>7, <1>9, <1>10, <1>11
<1>12. Len(alerts'[t][c]) = Len(alerts[t][c]) + 1
  <2>1. alerts'[t][c] = Append(alerts[t][c], sweep[w].seen[c])
    BY <1>6, <1>7, <1>9, <1>10
  <2>2. alerts[t][c] \in Seq(Alert)
    BY <1>6, <1>7, <1>10
  <2> QED
    BY <1>10, <2>1, <2>2
<1>13. ASSUME lost = 0, ~overlapped, NEW u \in Ticket, NEW d \in Clock
       PROVE  Paid(s, u, d, state[u], Len(alerts'[u][d]), StatusOf(clocks[u], d), Turns(u, d))
  <2>1. Paid(sweep[w], u, d, state[u], Len(alerts[u][d]), StatusOf(clocks[u], d), Turns(u, d))
    BY <1>6, <1>13, AwakeIsSole
  <2>2. Len(alerts[u][d]) \in Nat /\ Turns(u, d) \in Nat
    BY Counts
  <2>3. CASE u = t
    <3>1. Handling(sweep[w], u) /\ Handling(s, u)
      BY <1>1, <1>6, <1>8, <2>3 DEF Handling
    <3>2. /\ sweep[w].loaded = state[u] /\ (state[u] # Absent => sweep[w].rows[u] = Untouched)
          /\ Len(alerts[u][d]) + (IF d \in sweep[w].due THEN 1 ELSE 0)
               + Turn(sweep[w].seen[d], StatusOf(clocks[u], d)) <= Turns(u, d)
      BY <2>1, <3>1 DEF Paid
    <3>3. Len(alerts'[u][d]) + (IF d \in s.due THEN 1 ELSE 0)
            = Len(alerts[u][d]) + (IF d \in sweep[w].due THEN 1 ELSE 0)
      <4>1. CASE d = c
        BY <1>3, <1>7, <1>8, <1>12, <2>2, <2>3, <4>1
      <4>2. CASE d # c
        <5>1. alerts'[u][d] = alerts[u][d]
          BY <1>11, <4>2
        <5>2. d \in s.due <=> d \in sweep[w].due
          BY <1>3, <1>8, <4>2
        <5> QED
          BY <5>1, <5>2
      <4> QED
        BY <4>1, <4>2
    <3>4. Len(alerts'[u][d]) + (IF d \in s.due THEN 1 ELSE 0)
            + Turn(s.seen[d], StatusOf(clocks[u], d)) <= Turns(u, d)
      BY <1>8, <3>2, <3>3
    <3> QED
      BY <1>8, <3>1, <3>2, <3>4 DEF Paid
  <2>4. CASE u # t
    <3>1. ~Handling(sweep[w], u) /\ ~Handling(s, u)
      BY <1>1, <1>8, <2>4 DEF Handling
    <3>2. Final(s, u, d, state[u]) = Final(sweep[w], u, d, state[u])
      BY <1>8 DEF Final
    <3>3. alerts'[u][d] = alerts[u][d]
      BY <1>11, <2>4
    <3> QED
      BY <1>8, <2>1, <3>1, <3>2, <3>3 DEF Paid
  <2> QED
    BY <2>3, <2>4
<1>14. lost = 0 /\ ~overlapped => Sole(w)
  BY <1>6, AwakeIsSole
<1> QED
  BY <1>8, <1>9, <1>13, <1>14, SameTurns, AloneMoves

\* The statement of a row: it leaves the clocks either still to be announced or as seen.
LEMMA AloneSends ==
    ASSUME IInv, IInv', AloneInv, NEW w \in Worker, NEW write \in Write, NEW pc \in {"alert", "next"},
           sweep[w].pc \in {"insert", "flush"}, Send(w, write, pc),
           UNCHANGED clocks,
           pc = "alert" => sweep[w].loaded = Absent,
           pc = "next" => sweep[w].due = {},
           pc = "next" => \A c \in Clock :
              IF write[c] = Keep THEN sweep[w].loaded # Absent /\ sweep[w].seen[c] = sweep[w].loaded[c]
              ELSE write[c] = sweep[w].seen[c]
    PROVE  AloneInv'
<1>1. CASE Conflict(w)
  BY <1>1, AloneRollsBack DEF Send
<1>2. CASE ~Conflict(w)
  <2>1. PICK t : t = sweep[w].ticket
    OBVIOUS
  <2>2. /\ sweep[w] \in SweepState /\ SweepOK(sweep[w], state, alerts) /\ t \in Ticket
        /\ sweep[w].rows \in [Ticket -> Write \cup {Untouched}]
    BY <2>1, SweepParts DEF SweepOK
  <2>3. PICK rows : rows = [sweep[w].rows EXCEPT ![t] = write]
    OBVIOUS
  <2>4. PICK s : s = [sweep[w] EXCEPT !.rows[t] = write, !.pc = pc]
    OBVIOUS
  <2>5. /\ s.pc = pc /\ s.todo = sweep[w].todo /\ s.ticket = t /\ s.rows = rows
        /\ s.seen = sweep[w].seen /\ s.loaded = sweep[w].loaded /\ s.due = sweep[w].due
    BY <2>1, <2>2, <2>3, <2>4 DEF SweepState
  <2>6. Step(w, s) /\ UNCHANGED <<state, alerts, entered, mixed, lost, overlapped>>
    BY <1>2, <2>1, <2>4 DEF Send
  <2>7. write # Untouched
    BY MonitorAssumption DEF Write
  <2>8. ASSUME lost = 0, ~overlapped, NEW u \in Ticket, NEW c \in Clock
        PROVE  Paid(s, u, c, state[u], Len(alerts[u][c]), StatusOf(clocks[u], c), Turns(u, c))
    <3>1. Paid(sweep[w], u, c, state[u], Len(alerts[u][c]), StatusOf(clocks[u], c), Turns(u, c))
      BY <2>8, AwakeIsSole
    <3>2. CASE u = t
      <4>1. Handling(sweep[w], u)
        BY <2>1, <3>2 DEF Handling
      <4>2. /\ sweep[w].loaded = state[u] /\ (state[u] # Absent => sweep[w].rows[u] = Untouched)
            /\ Len(alerts[u][c]) + (IF c \in sweep[w].due THEN 1 ELSE 0)
                 + Turn(sweep[w].seen[c], StatusOf(clocks[u], c)) <= Turns(u, c)
        BY <3>1, <4>1 DEF Paid
      <4>3. s.rows[u] = write
        BY <2>2, <2>3, <2>5, <3>2
      <4>5. CASE pc = "alert"
        <5>1. Handling(s, u)
          BY <2>5, <3>2, <4>5 DEF Handling
        <5> QED
          BY <2>5, <4>2, <4>5, <5>1 DEF Paid
      <4>6. CASE pc = "next"
        <5>1. ~Handling(s, u)
          BY <2>5, <4>6 DEF Handling
        <5>2. Final(s, u, c, state[u]) = sweep[w].seen[c]
          BY <2>7, <4>2, <4>3, <4>6 DEF Final
        <5>3. Len(alerts[u][c]) + Turn(sweep[w].seen[c], StatusOf(clocks[u], c)) <= Turns(u, c)
          <6>1. /\ Len(alerts[u][c]) \in Nat
                /\ Turn(sweep[w].seen[c], StatusOf(clocks[u], c)) \in {0, 1}
            BY Counts, TurnFacts
          <6>2. c \notin sweep[w].due
            BY <4>6
          <6> QED
            BY <4>2, <6>1, <6>2
        <5> QED
          BY <5>1, <5>2, <5>3 DEF Paid
      <4> QED
        BY <4>5, <4>6
    <3>3. CASE u # t
      <4>1. ~Handling(sweep[w], u) /\ ~Handling(s, u)
        BY <2>1, <2>5, <3>3 DEF Handling
      <4>2. s.rows[u] = sweep[w].rows[u]
        BY <2>2, <2>3, <2>5, <3>3
      <4>3. Final(s, u, c, state[u]) = Final(sweep[w], u, c, state[u])
        BY <4>2 DEF Final
      <4> QED
        BY <2>5, <3>1, <4>1, <4>3 DEF Paid
    <3> QED
      BY <3>2, <3>3
  <2>9. lost = 0 /\ ~overlapped => Sole(w)
    BY AwakeIsSole
  <2> QED
    BY <2>5, <2>6, <2>8, <2>9, SameTurns, AloneMoves
<1> QED
  BY <1>1, <1>2

LEMMA AloneInserts ==
    ASSUME IInv, IInv', AloneInv, NEW w \in Worker, Insert(w)
    PROVE  AloneInv'
<1>1. Blank \in Write
  BY DEF Blank, Write
<1>2. sweep[w].pc = "insert" /\ Send(w, Blank, "alert") /\ sweep[w].loaded = Absent
  BY SweepParts DEF Insert, SweepOK
<1>3. UNCHANGED clocks
  BY <1>2 DEF Send
<1> QED
  BY <1>1, <1>2, <1>3, AloneSends

LEMMA AloneFlushes ==
    ASSUME IInv, IInv', AloneInv, NEW w \in Worker, Flush(w)
    PROVE  AloneInv'
<1>1. /\ sweep[w] \in SweepState /\ SweepOK(sweep[w], state, alerts) /\ sweep[w].pc = "flush"
      /\ sweep[w].due = {} /\ sweep[w].ticket \in Ticket
      /\ sweep[w].seen \in [Clock -> Status] /\ sweep[w].loaded \in Row \cup {Absent}
  BY SweepParts DEF Flush, SweepOK, Reading
<1>2. ASSUME NEW c \in Clock, c \notin Changed(sweep[w])
      PROVE  sweep[w].loaded # Absent /\ sweep[w].seen[c] = sweep[w].loaded[c]
  <2>1. sweep[w].seen[c] = LastStatus(sweep[w].loaded)[c]
    BY <1>2 DEF Changed
  <2>2. sweep[w].seen[c] # Null
    BY <1>1, MonitorAssumption
  <2> QED
    BY <2>1, <2>2 DEF LastStatus, Blank
<1>3. CASE Changed(sweep[w]) = {}
  <2>1. PICK s : s = [sweep[w] EXCEPT !.pc = "next"]
    OBVIOUS
  <2>2. Step(w, s) /\ UNCHANGED <<clocks, state, alerts, entered, mixed, lost, overlapped>>
    BY <1>3, <2>1 DEF Flush
  <2>3. s.pc = "next" /\ s.rows = sweep[w].rows /\ s.todo = sweep[w].todo
    BY <1>1, <2>1 DEF SweepState
  <2>4. ASSUME lost = 0, ~overlapped, NEW u \in Ticket, NEW c \in Clock
        PROVE  Paid(s, u, c, state[u], Len(alerts[u][c]), StatusOf(clocks[u], c), Turns(u, c))
    <3>1. Paid(sweep[w], u, c, state[u], Len(alerts[u][c]), StatusOf(clocks[u], c), Turns(u, c))
      BY <1>1, <2>4, AwakeIsSole
    <3>2. ~Handling(s, u)
      BY <2>3 DEF Handling
    <3>3. Len(alerts[u][c]) + Turn(Final(s, u, c, state[u]), StatusOf(clocks[u], c)) <= Turns(u, c)
      <4>1. CASE Handling(sweep[w], u)
        <5>1. /\ sweep[w].loaded = state[u] /\ (state[u] # Absent => sweep[w].rows[u] = Untouched)
              /\ Len(alerts[u][c]) + (IF c \in sweep[w].due THEN 1 ELSE 0)
                   + Turn(sweep[w].seen[c], StatusOf(clocks[u], c)) <= Turns(u, c)
          BY <3>1, <4>1 DEF Paid
        <5>2. state[u] # Absent /\ sweep[w].seen[c] = state[u][c]
          BY <1>2, <1>3, <5>1
        <5>3. Final(s, u, c, state[u]) = sweep[w].seen[c]
          BY <2>3, <5>1, <5>2 DEF Final, LastStatus
        <5>4. Len(alerts[u][c]) \in Nat
          BY Counts
        <5> QED
          BY <1>1, <5>1, <5>3, <5>4
      <4>2. CASE ~Handling(sweep[w], u)
        <5>1. Final(s, u, c, state[u]) = Final(sweep[w], u, c, state[u])
          BY <2>3 DEF Final
        <5> QED
          BY <3>1, <4>2, <5>1 DEF Paid
      <4> QED
        BY <4>1, <4>2
    <3> QED
      BY <2>3, <3>1, <3>2, <3>3 DEF Paid
  <2>5. lost = 0 /\ ~overlapped => Sole(w)
    BY <1>1, AwakeIsSole
  <2> QED
    BY <2>2, <2>3, <2>4, <2>5, SameTurns, AloneMoves
<1>4. CASE Changed(sweep[w]) # {}
  <2>1. PICK write : write = [c \in Clock |-> IF c \in Changed(sweep[w]) THEN sweep[w].seen[c] ELSE Keep]
    OBVIOUS
  <2>2. Send(w, write, "next")
    BY <1>4, <2>1 DEF Flush
  <2>3. write \in Write
    BY <1>1, <2>1 DEF Write
  <2>4. ASSUME NEW c \in Clock
        PROVE  IF write[c] = Keep
               THEN sweep[w].loaded # Absent /\ sweep[w].seen[c] = sweep[w].loaded[c]
               ELSE write[c] = sweep[w].seen[c]
    <3>1. sweep[w].seen[c] # Keep
      BY <1>1, MonitorAssumption
    <3> QED
      BY <1>2, <2>1, <3>1
  <2>5. UNCHANGED clocks
    BY <2>2 DEF Send
  <2> QED
    BY <1>1, <2>2, <2>3, <2>4, <2>5, AloneSends
<1> QED
  BY <1>3, <1>4

LEMMA AloneCommits ==
    ASSUME IInv, IInv', AloneInv, NEW w \in Worker, Commit(w)
    PROVE  AloneInv'
<1>1. /\ Step(w, Idle) /\ UNCHANGED <<clocks, alerts, entered, mixed, lost, overlapped>>
      /\ state' = [t \in Ticket |-> IF sweep[w].rows[t] = Untouched THEN state[t]
                                    ELSE Merged(state[t], sweep[w].rows[t])]
      /\ sweep[w].pc = "next"
  BY DEF Commit
<1>2. ASSUME NEW t \in Ticket, NEW c \in Clock
      PROVE  LastStatus(state'[t])[c] = Final(sweep[w], t, c, state[t])
  <2>1. CASE sweep[w].rows[t] = Untouched
    BY <1>1, <2>1 DEF Final
  <2>2. CASE sweep[w].rows[t] # Untouched
    <3>1. state'[t] = Merged(state[t], sweep[w].rows[t])
      BY <1>1, <2>2
    <3>2. /\ SweepOK(sweep[w], state, alerts) /\ sweep[w].rows[t] \in Write
          /\ state[t] \in Row \cup {Absent}
      BY <2>2, SweepParts DEF IInv, TypeOK
    <3>3. ASSUME NEW d \in Clock
          PROVE  Merged(state[t], sweep[w].rows[t])[d] \in Status \cup {Null}
      <4>1. sweep[w].rows[t][d] = Keep => state[t] \in Row
        BY <2>2, <3>2 DEF SweepOK
      <4> QED
        BY <3>2, <4>1 DEF Merged, Write, Row
    <3>4. Merged(state[t], sweep[w].rows[t]) \in Row
      BY <3>3 DEF Merged, Row
    <3>5. state'[t] # Absent
      BY <3>1, <3>4, MonitorAssumption DEF Row
    <3> QED
      BY <2>2, <3>1, <3>5 DEF LastStatus, Merged, Final
  <2> QED
    BY <2>1, <2>2
<1>3. ASSUME lost = 0, ~overlapped, NEW t \in Ticket, NEW c \in Clock
      PROVE  Paid(Idle, t, c, state'[t], Len(alerts[t][c]), StatusOf(clocks[t], c), Turns(t, c))
  <2>1. Paid(sweep[w], t, c, state[t], Len(alerts[t][c]), StatusOf(clocks[t], c), Turns(t, c))
    BY <1>1, <1>3, AwakeIsSole
  <2>2. ~Handling(sweep[w], t) /\ ~Handling(Idle, t)
    BY <1>1 DEF Handling, Idle
  <2>3. Final(Idle, t, c, state'[t]) = LastStatus(state'[t])[c] /\ Idle.todo = {}
    BY DEF Final, Idle
  <2> QED
    BY <1>2, <2>1, <2>2, <2>3 DEF Paid
<1>4. lost = 0 /\ ~overlapped => Sole(w)
  BY <1>1, AwakeIsSole
<1> QED
  BY <1>1, <1>3, <1>4, SameTurns, AloneMoves

LEMMA AloneInit ==
    ASSUME Init
    PROVE  AloneInv
<1>1. \A w \in Worker : sweep[w] = Idle
  BY DEF Init
<1>2. ASSUME NEW t \in Ticket, NEW c \in Clock
      PROVE  /\ Len(alerts[t][c]) = 0
             /\ Turns(t, c) = IF StatusOf(clocks[t], c) \in Alert THEN 1 ELSE 0
  BY DEF Init, Turns
<1>3. ASSUME NEW t \in Ticket, NEW c \in Clock
      PROVE  /\ Paid(Idle, t, c, state[t], Len(alerts[t][c]), StatusOf(clocks[t], c), Turns(t, c))
             /\ Len(alerts[t][c]) <= Turns(t, c)
  <2>1. ~Handling(Idle, t)
    BY DEF Handling, Idle
  <2> DEFINE was == Final(Idle, t, c, state[t])
             now == StatusOf(clocks[t], c)
             turns == Turns(t, c)
             said == Len(alerts[t][c])
  <2>2. said = 0 /\ turns = IF now \in Alert THEN 1 ELSE 0
    BY <1>2
  <2> HIDE DEF was, now, turns, said
  <2>3. said + Turn(was, now) <= turns /\ said <= turns
    BY <2>2 DEF Turn
  <2>4. ~Handling(Idle, t) => said + Turn(was, now) <= turns
    BY <2>3
  <2> USE DEF was, now, turns, said
  <2>5. Paid(Idle, t, c, state[t], said, now, turns)
    BY <2>1, <2>4 DEF Paid
  <2> QED
    BY <2>3, <2>5
<1>4. \A w \in Worker : AllPaid(sweep[w])
  BY <1>1, <1>3 DEF AllPaid
<1>5. \A v, w \in Worker : sweep[v].pc = "idle"
  BY <1>1 DEF Idle
<1> QED
  BY <1>1, <1>3, <1>4, <1>5 DEF AloneInv

LEMMA AloneNext ==
    ASSUME IInv, AloneInv, [Next]_vars
    PROVE  AloneInv'
<1>1. IInv'
  BY NextInv
<1>2. CASE Next
  <2>1. ASSUME NEW t \in Ticket, Edit(t) \/ \E c \in Clock : TimePasses(t, c)
        PROVE  AloneInv'
    BY <2>1, AloneTurns
  <2>2. ASSUME NEW w \in Worker, SweepStart(w) \/ Work(w)
        PROVE  AloneInv'
    BY <1>1, <2>2, AloneStarts, AloneLooks, AloneInserts, AloneAlerts, AloneFlushes, AloneCommits
       DEF Work
  <2>3. ASSUME NEW w \in Worker, Crash(w) \/ DeadlockVictim(w)
        PROVE  AloneInv'
    BY <1>1, <2>3, AloneRollsBack DEF Crash, DeadlockVictim
  <2> QED
    BY <1>2, <2>1, <2>2, <2>3 DEF Next
<1>3. CASE UNCHANGED vars
  BY <1>3 DEF vars, AloneInv, AllPaid, Sole, Turns
<1> QED
  BY <1>2, <1>3

\* One alert per transition, as models/sla_notification_state.py promises, and two at most for
\* each status that a sweep made of an edited row and a newer history and that the clock did
\* not have: for any number of tickets, workers and edits, as long as no sweep begins before
\* another is over and none is lost.
THEOREM OneAlertPerTurn == Spec => []OneAlertWhenAlone
<1>1. Init => IInv /\ AloneInv
  BY InitInv, AloneInit
<1>2. (IInv /\ AloneInv) /\ [Next]_vars => (IInv /\ AloneInv)'
  BY NextInv, AloneNext
<1>3. AloneInv => OneAlertWhenAlone
  BY DEF AloneInv, OneAlertWhenAlone, Alone, Turns
<1> QED
  BY <1>1, <1>2, <1>3, PTL DEF Spec
==========================================================================
