--------------------------- MODULE Updatable_proofs ---------------------------
(***************************************************************************)
(* For every set of contracts, bytecodes and callers, and every delay: the *)
(* events of a contract tell its pending update, an update waits until the *)
(* block that was announced, and a source that nobody can update installs  *)
(* the bytecode that could be reviewed.                                    *)
(***************************************************************************)
EXTENDS Updatable, TLAPS

USE CodeAssumption, AddressAssumption, BlockAssumption
    DEF CodeAssumption, AddressAssumption, BlockAssumption

\* The events are dated, no event later than now.
EventsAreDated ==
    \A c \in Contract : \A i \in DOMAIN events[c] : events[c][i].at \in 1..block

\* Submissions and their ends alternate, and each end names what was submitted.
Alternates(log) ==
    /\ \A i \in DOMAIN log : (log[i].name = "UpdateSubmitted") <=> (i % 2 = 1)
    /\ \A i \in DOMAIN log : i % 2 = 0 => log[i].source = log[i - 1].source

\* The pending update that the events of a contract tell is the one in its storage.
Tells(log, source, at) ==
    /\ Len(log) % 2 = 1 => source = Last(log).source /\ at = Last(log).at
    /\ Len(log) % 2 = 0 => source = NoAddress /\ at = 0

LogInv ==
    /\ TypeOK /\ EventsAreDated
    /\ \A c \in Contract : /\ Alternates(events[c])
                           /\ Tells(events[c], pendingUpdateAddress[c], pendingUpdateBlock[c])

\* Every bytecode waits equally long: no update changes the delay of the next one.
SameDelays == \A k, l \in Timelocked : Delay[k] = Delay[l]

\* What a submission announced is what any bytecode would compute from its block.
Announces(log) ==
    \A i \in DOMAIN log : \A k \in Timelocked :
        log[i].name = "UpdateSubmitted" => log[i].effective = Plus(log[i].at, Delay[k])

\* An update comes no earlier than the submission before it announced.
Honours(log) ==
    \A i \in DOMAIN log :
        log[i].name = "UpdateApplied" => log[i].at >= log[i - 1].effective

DelayInv == LogInv /\ \A c \in Contract : Announces(events[c]) /\ Honours(events[c])

\* Nobody can update contract c.
Frozen(c) == code[c] \notin Timelocked \/ Deployer[c] \notin Account

\* The source of submission e of contract c stays what it was.
FixedSource(c, e) ==
    \/ e.reviewed \notin Timelocked
    \/ e.source # c /\ Deployer[e.source] \notin Account

\* The updates of contract c installed what was reviewed if the source was fixed.
Installs(c, log) ==
    \A i \in DOMAIN log :
        log[i].name = "UpdateApplied" /\ FixedSource(c, log[i - 1]) =>
            log[i].installed = log[i - 1].reviewed

\* A contract that nobody can update has no update on its way, and the source of a pending
\* update that is fixed is still what was reviewed.
SourceInv ==
    /\ LogInv
    /\ \A c \in Contract : Installs(c, events[c])
    /\ \A c \in Contract : Frozen(c) => scheduled[c] = code[c]
    /\ \A c \in Contract : Len(events[c]) % 2 = 1 =>
          /\ Last(events[c]).source \in Contract
          /\ FixedSource(c, Last(events[c])) =>
                code[Last(events[c]).source] = Last(events[c]).reviewed

-----------------------------------------------------------------------------
(* What the steps do to the events. *)

\* What a log has after an event was added.
LEMMA AppendAddsLast ==
    ASSUME NEW log \in Seq(Event), NEW e \in Event
    PROVE  /\ Append(log, e) \in Seq(Event)
           /\ Len(Append(log, e)) = Len(log) + 1
           /\ DOMAIN Append(log, e) = 1..(Len(log) + 1)
           /\ DOMAIN log = 1..Len(log)
           /\ \A i \in 1..Len(log) : Append(log, e)[i] = log[i]
           /\ Append(log, e)[Len(log) + 1] = e
           /\ Last(Append(log, e)) = e
  BY DEF Last

\* A log that is not empty ends with one of its events.
LEMMA LastIsEvent ==
    ASSUME NEW log \in Seq(Event), Len(log) % 2 = 1
    PROVE  /\ Len(log) \in DOMAIN log
           /\ Last(log) = log[Len(log)]
           /\ Last(log) \in Event
  <1>1. Len(log) # 0
    OBVIOUS
  <1> QED
    BY <1>1 DEF Last

\* The parities of a length and of the next.
LEMMA NextParity ==
    ASSUME NEW n \in Nat
    PROVE  /\ n % 2 = 0 <=> n % 2 # 1
           /\ n % 2 = 0 <=> (n + 1) % 2 = 1
           /\ n % 2 = 1 <=> (n + 1) % 2 = 0
  OBVIOUS

\* A sum of u64 is a u64.
LEMMA PlusType == ASSUME NEW m \in Nat, NEW n \in Nat PROVE Plus(m, n) \in 0..MaxU64
  BY DEF Plus

\* Contract c emits e while it has no pending update.
Submits(c, source, e) ==
    /\ c \in Contract /\ source \in Contract /\ code[c] \in Timelocked
    /\ pendingUpdateBlock[c] = 0
    /\ e = [name |-> "UpdateSubmitted", source |-> source, at |-> block,
            effective |-> Plus(block, Delay[code[c]]), reviewed |-> code[source]]
    /\ pendingUpdateAddress' = [pendingUpdateAddress EXCEPT ![c] = source]
    /\ pendingUpdateBlock' = [pendingUpdateBlock EXCEPT ![c] = block]
    /\ events' = [events EXCEPT ![c] = Append(@, e)]
    /\ UNCHANGED <<code, scheduled, block>>

\* Contract c ends its pending update with event e.
Ends(c, e) ==
    /\ c \in Contract /\ code[c] \in Timelocked /\ Deployer[c] \in Account
    /\ pendingUpdateBlock[c] # 0
    /\ e \in Event /\ e.name # "UpdateSubmitted"
    /\ e.source = pendingUpdateAddress[c] /\ e.at = block
    /\ e.name = "UpdateApplied" =>
          /\ e.source \in Contract /\ e.installed = code[e.source]
          /\ block >= Plus(pendingUpdateBlock[c], Delay[code[c]])
    /\ pendingUpdateAddress' = [pendingUpdateAddress EXCEPT ![c] = NoAddress]
    /\ pendingUpdateBlock' = [pendingUpdateBlock EXCEPT ![c] = 0]
    /\ events' = [events EXCEPT ![c] = Append(@, e)]
    /\ scheduled' \in [Contract -> Code]
    /\ \A d \in Contract \ {c} : scheduled'[d] = scheduled[d]
    /\ UNCHANGED <<code, block>>

\* The event of a submission.
LEMMA SubmittedIsEvent ==
    ASSUME TypeOK, NEW c \in Contract, NEW source \in Contract, code[c] \in Timelocked
    PROVE  [name |-> "UpdateSubmitted", source |-> source, at |-> block,
            effective |-> Plus(block, Delay[code[c]]), reviewed |-> code[source]] \in Event
  <1>1. block \in Nat /\ Delay[code[c]] \in Nat
    BY DEF TypeOK
  <1>2. Plus(block, Delay[code[c]]) \in 0..MaxU64
    BY <1>1, PlusType
  <1> QED
    BY <1>1, <1>2 DEF TypeOK, Event, Address

\* A step submits, ends an update, begins a block, or changes nothing.
LEMMA StepCases ==
    ASSUME TypeOK, [Next]_vars
    PROVE  \/ \E c, source \in Contract, e \in Event : Submits(c, source, e)
           \/ \E c \in Contract, e \in Event : Ends(c, e)
           \/ NewBlock
           \/ UNCHANGED vars
  <1>1. ASSUME NEW c \in Contract, NEW sender \in Account, NEW source \in Address,
               SubmitUpdate(c, sender, source)
        PROVE  \E d, s \in Contract, e \in Event : Submits(d, s, e)
    <2> DEFINE e == [name |-> "UpdateSubmitted", source |-> source, at |-> block,
                     effective |-> Plus(block, Delay[code[c]]), reviewed |-> code[source]]
    <2>1. source \in Contract /\ code[c] \in Timelocked
      BY <1>1 DEF SubmitUpdate, IsContract, Method
    <2>2. e \in Event
      BY <2>1, SubmittedIsEvent
    <2>3. pendingUpdateBlock[c] = 0
      BY <1>1 DEF SubmitUpdate, HasPendingUpdate
    <2>4. Submits(c, source, e)
      BY <1>1, <2>1, <2>3 DEF SubmitUpdate, Submits, Emit
    <2> QED
      BY <2>1, <2>2, <2>4
  <1>2. ASSUME NEW c \in Contract, NEW sender \in Account, NEW source \in Address,
               ApplyUpdate(c, sender, source)
        PROVE  \E d \in Contract, e \in Event : Ends(d, e)
    <2> DEFINE e == [name |-> "UpdateApplied", source |-> source, at |-> block,
                     installed |-> code[source]]
    <2>1. /\ source \in Contract /\ source = pendingUpdateAddress[c]
          /\ code[c] \in Timelocked /\ Deployer[c] \in Account
      BY <1>2 DEF ApplyUpdate, IsContract, Method, OnlyDeployer
    <2>2. code[source] \in Code /\ block \in Nat
      BY <2>1 DEF TypeOK
    <2>3. e \in Event
      BY <2>2 DEF Event
    <2>4. /\ pendingUpdateBlock[c] # 0
          /\ block >= Plus(pendingUpdateBlock[c], Delay[code[c]])
      BY <1>2 DEF ApplyUpdate, CanApplyUpdate, HasPendingUpdate, UpdateEffectiveBlock
    <2>5. /\ scheduled' \in [Contract -> Code]
          /\ \A d \in Contract \ {c} : scheduled'[d] = scheduled[d]
      BY <1>2, <2>2 DEF ApplyUpdate, TypeOK
    <2>6. /\ e.name = "UpdateApplied" /\ e.source = source /\ e.at = block
          /\ e.installed = code[source]
      OBVIOUS
    <2>7. /\ events' = [events EXCEPT ![c] = Append(@, e)]
          /\ pendingUpdateAddress' = [pendingUpdateAddress EXCEPT ![c] = NoAddress]
          /\ pendingUpdateBlock' = [pendingUpdateBlock EXCEPT ![c] = 0]
          /\ UNCHANGED <<code, block>>
      BY <1>2 DEF ApplyUpdate, Emit, Clear
    <2> HIDE DEF e
    <2>8. Ends(c, e)
      BY <2>1, <2>3, <2>4, <2>5, <2>6, <2>7 DEF Ends
    <2> QED
      BY <2>3, <2>8
  <1>3. ASSUME NEW c \in Contract, NEW sender \in Account, CancelUpdate(c, sender)
        PROVE  \E d \in Contract, e \in Event : Ends(d, e)
    <2> DEFINE e == [name |-> "UpdateCancelled", source |-> pendingUpdateAddress[c],
                     at |-> block]
    <2>1. e \in Event
      BY DEF TypeOK, Event, Address
    <2>2. /\ e.name = "UpdateCancelled" /\ e.source = pendingUpdateAddress[c]
          /\ e.at = block
      OBVIOUS
    <2>3. /\ events' = [events EXCEPT ![c] = Append(@, e)]
          /\ pendingUpdateAddress' = [pendingUpdateAddress EXCEPT ![c] = NoAddress]
          /\ pendingUpdateBlock' = [pendingUpdateBlock EXCEPT ![c] = 0]
          /\ UNCHANGED <<code, scheduled, block>>
      BY <1>3 DEF CancelUpdate, Emit, Clear
    <2> HIDE DEF e
    <2>4. /\ pendingUpdateBlock[c] # 0 /\ code[c] \in Timelocked
          /\ Deployer[c] \in Account
      BY <1>3 DEF CancelUpdate, HasPendingUpdate, Method, OnlyDeployer
    <2>5. Ends(c, e)
      BY <2>1, <2>2, <2>3, <2>4 DEF Ends, TypeOK
    <2> QED
      BY <2>1, <2>5
  <1> QED
    BY <1>1, <1>2, <1>3 DEF Next

-----------------------------------------------------------------------------
(* The events tell the pending update. *)

\* A submission goes on a log of even length, its end on one of odd length.
LEMMA AlternatesExtended ==
    ASSUME NEW log \in Seq(Event), NEW e \in Event, Alternates(log),
           e.name = "UpdateSubmitted" <=> Len(log) % 2 = 0,
           e.name # "UpdateSubmitted" => e.source = Last(log).source
    PROVE  Alternates(Append(log, e))
  <1> DEFINE n == Len(log)
             longer == Append(log, e)
  <1>1. /\ n \in Nat /\ DOMAIN longer = 1..(n + 1) /\ DOMAIN log = 1..n
        /\ \A i \in 1..n : longer[i] = log[i]
        /\ longer[n + 1] = e
    BY AppendAddsLast
  <1>2. n % 2 = 0 <=> (n + 1) % 2 = 1
    BY <1>1, NextParity
  <1>3. (n + 1) % 2 = 0 => n % 2 = 1
    BY <1>1, NextParity
  <1> HIDE DEF n, longer
  <1>4. ASSUME NEW i \in DOMAIN longer
        PROVE  (longer[i].name = "UpdateSubmitted") <=> (i % 2 = 1)
    <2>1. CASE i \in 1..n
      BY <1>1, <2>1 DEF Alternates
    <2>2. CASE i = n + 1
      BY <1>1, <1>2, <2>2 DEF n
    <2> QED
      BY <1>1, <1>4, <2>1, <2>2
  <1>5. ASSUME NEW i \in DOMAIN longer, i % 2 = 0
        PROVE  longer[i].source = longer[i - 1].source
    <2>1. CASE i \in 1..n
      <3>1. i # 1
        BY <1>5
      <3>2. i - 1 \in 1..n
        BY <1>1, <2>1, <3>1
      <3> QED
        BY <1>1, <1>5, <2>1, <3>2 DEF Alternates
    <2>2. CASE i = n + 1
      <3>1. n % 2 = 1 /\ e.source = Last(log).source
        BY <1>2, <1>3, <1>5, <2>2 DEF n
      <3>2. n \in DOMAIN log /\ Last(log) = log[n]
        BY <3>1, LastIsEvent DEF n
      <3>3. i - 1 = n
        BY <1>1, <2>2
      <3> QED
        BY <1>1, <2>2, <3>1, <3>2, <3>3
    <2> QED
      BY <1>1, <1>5, <2>1, <2>2
  <1> QED
    BY <1>4, <1>5 DEF Alternates, longer

\* After a submission it is the pending update, after its end there is none.
LEMMA TellsExtended ==
    ASSUME NEW log \in Seq(Event), NEW e \in Event
    PROVE  IF Len(log) % 2 = 0 THEN Tells(Append(log, e), e.source, e.at)
                               ELSE Tells(Append(log, e), NoAddress, 0)
  <1>1. /\ Len(log) \in Nat /\ Len(Append(log, e)) = Len(log) + 1
        /\ Last(Append(log, e)) = e
    BY AppendAddsLast
  <1>2. /\ Len(log) % 2 = 0 <=> (Len(log) + 1) % 2 = 1
        /\ (Len(log) + 1) % 2 = 0 <=> (Len(log) + 1) % 2 # 1
    BY <1>1, NextParity
  <1> QED
    BY <1>1, <1>2, Zenon DEF Tells

\* The initial state has no events and no pending updates.
LEMMA InitLog == Init => LogInv
  <1> SUFFICES ASSUME Init PROVE LogInv
    OBVIOUS
  <1>1. block = 1 /\ 1 \in 1..MaxBlock
    BY DEF Init
  <1>2. TypeOK
    BY <1>1 DEF Init, TypeOK
  <1>3. \A c \in Contract : events[c] = <<>> /\ Len(events[c]) = 0 /\ DOMAIN events[c] = {}
    BY DEF Init
  <1> QED
    BY <1>2, <1>3 DEF Init, LogInv, Alternates, Tells, EventsAreDated

\* A pending update is the last event of a log of odd length, and nothing else is.
LEMMA PendingIsLast ==
    ASSUME LogInv, NEW c \in Contract
    PROVE  /\ events[c] \in Seq(Event) /\ Len(events[c]) \in Nat
           /\ pendingUpdateBlock[c] = 0 <=> Len(events[c]) % 2 = 0
           /\ pendingUpdateBlock[c] # 0 =>
                 /\ Len(events[c]) % 2 = 1
                 /\ pendingUpdateAddress[c] = Last(events[c]).source
                 /\ pendingUpdateBlock[c] = Last(events[c]).at
  <1>1. events[c] \in Seq(Event)
    BY DEF LogInv, TypeOK
  <1>2. Len(events[c]) \in Nat
    BY <1>1
  <1>3. ASSUME Len(events[c]) % 2 = 1
        PROVE  /\ pendingUpdateAddress[c] = Last(events[c]).source
               /\ pendingUpdateBlock[c] = Last(events[c]).at
               /\ pendingUpdateBlock[c] # 0
    <2>1. Last(events[c]).at \in 1..block
      BY <1>1, <1>3, LastIsEvent DEF LogInv, EventsAreDated
    <2>2. /\ pendingUpdateAddress[c] = Last(events[c]).source
          /\ pendingUpdateBlock[c] = Last(events[c]).at
      BY <1>3 DEF LogInv, Tells
    <2> QED
      BY <2>1, <2>2 DEF LogInv, TypeOK
  <1>4. ASSUME Len(events[c]) % 2 = 0 PROVE pendingUpdateBlock[c] = 0
    BY <1>4 DEF LogInv, Tells
  <1> QED
    BY <1>1, <1>2, <1>3, <1>4, NextParity

\* The logs after an event e of contract c.
LEMMA LogAfter ==
    ASSUME LogInv, NEW c \in Contract, NEW e \in Event,
           events' = [events EXCEPT ![c] = Append(@, e)]
    PROVE  /\ events' \in [Contract -> Seq(Event)]
           /\ events'[c] = Append(events[c], e)
           /\ \A d \in Contract \ {c} : events'[d] = events[d]
  <1>1. events \in [Contract -> Seq(Event)] /\ events[c] \in Seq(Event)
    BY DEF LogInv, TypeOK
  <1>2. Append(events[c], e) \in Seq(Event)
    BY <1>1, AppendAddsLast
  <1> QED
    BY <1>1, <1>2

\* The events of this block are not later than now.
LEMMA DatedAfter ==
    ASSUME LogInv, NEW c \in Contract, NEW e \in Event,
           events' = [events EXCEPT ![c] = Append(@, e)], e.at = block, block' = block
    PROVE  EventsAreDated'
  <1>1. events[c] \in Seq(Event) /\ Len(events[c]) \in Nat /\ block \in 1..MaxBlock
    BY PendingIsLast DEF LogInv, TypeOK
  <1>2. /\ DOMAIN events'[c] = 1..(Len(events[c]) + 1)
        /\ DOMAIN events[c] = 1..Len(events[c])
        /\ \A i \in 1..Len(events[c]) : events'[c][i] = events[c][i]
        /\ events'[c][Len(events[c]) + 1] = e
    <2>1. events'[c] = Append(events[c], e)
      BY LogAfter
    <2> QED
      BY <1>1, <2>1, AppendAddsLast
  <1>3. ASSUME NEW d \in Contract, NEW i \in DOMAIN events'[d]
        PROVE  events'[d][i].at \in 1..block'
    <2>1. CASE d # c
      <3>1. events'[d] = events[d]
        BY <2>1, LogAfter
      <3> QED
        BY <1>3, <3>1 DEF LogInv, EventsAreDated
    <2>2. CASE d = c /\ i \in 1..Len(events[c])
      BY <1>2, <2>2 DEF LogInv, EventsAreDated
    <2>3. CASE d = c /\ i = Len(events[c]) + 1
      BY <1>1, <1>2, <2>3
    <2> QED
      BY <1>1, <1>2, <1>3, <2>1, <2>2, <2>3
  <1> QED
    BY <1>3 DEF EventsAreDated

\* A submission comes after a log of even length and is what the storage says.
LEMMA SubmitKeepsLog ==
    ASSUME LogInv, NEW c \in Contract, NEW source \in Contract, NEW e \in Event,
           Submits(c, source, e)
    PROVE  LogInv'
  <1> DEFINE log == events[c]
  <1>1. /\ TypeOK /\ log \in Seq(Event) /\ Len(log) \in Nat /\ Len(log) % 2 = 0
    BY PendingIsLast DEF Submits, LogInv
  <1>2. /\ e.at = block /\ e.source = source /\ e.name = "UpdateSubmitted"
        /\ events' = [events EXCEPT ![c] = Append(@, e)] /\ block' = block
    BY DEF Submits
  <1>3. /\ events' \in [Contract -> Seq(Event)] /\ events'[c] = Append(log, e)
        /\ \A d \in Contract \ {c} : events'[d] = events[d]
    BY <1>2, LogAfter
  <1>4. TypeOK'
    BY <1>1, <1>3 DEF Submits, TypeOK
  <1>5. /\ pendingUpdateAddress'[c] = e.source /\ pendingUpdateBlock'[c] = e.at
        /\ \A d \in Contract \ {c} : /\ pendingUpdateAddress'[d] = pendingUpdateAddress[d]
                                     /\ pendingUpdateBlock'[d] = pendingUpdateBlock[d]
    BY <1>1, <1>2 DEF Submits, TypeOK
  <1>6. EventsAreDated'
    BY <1>2, DatedAfter
  <1>7. Alternates(Append(log, e))
    BY <1>1, <1>2, AlternatesExtended DEF LogInv
  <1>8. Tells(Append(log, e), e.source, e.at)
    BY <1>1, TellsExtended
  <1>9. ASSUME NEW d \in Contract
        PROVE  /\ Alternates(events'[d])
               /\ Tells(events'[d], pendingUpdateAddress'[d], pendingUpdateBlock'[d])
    <2>1. CASE d = c
      BY <1>3, <1>5, <1>7, <1>8, <2>1
    <2>2. CASE d # c
      BY <1>3, <1>5, <2>2 DEF LogInv
    <2> QED
      BY <2>1, <2>2
  <1> QED
    BY <1>4, <1>6, <1>9 DEF LogInv

\* The end of an update comes after a log of odd length and names what was submitted.
LEMMA EndKeepsLog ==
    ASSUME LogInv, NEW c \in Contract, NEW e \in Event, Ends(c, e)
    PROVE  LogInv'
  <1> DEFINE log == events[c]
  <1>1. /\ TypeOK /\ log \in Seq(Event) /\ Len(log) \in Nat /\ Len(log) % 2 = 1
        /\ e.source = Last(log).source
    BY PendingIsLast DEF Ends, LogInv
  <1>2. /\ e.at = block /\ e.name # "UpdateSubmitted"
        /\ events' = [events EXCEPT ![c] = Append(@, e)] /\ block' = block
    BY DEF Ends
  <1>3. /\ events' \in [Contract -> Seq(Event)] /\ events'[c] = Append(log, e)
        /\ \A d \in Contract \ {c} : events'[d] = events[d]
    BY <1>2, LogAfter
  <1>4. TypeOK'
    BY <1>1, <1>3 DEF Ends, TypeOK
  <1>5. /\ pendingUpdateAddress'[c] = NoAddress /\ pendingUpdateBlock'[c] = 0
        /\ \A d \in Contract \ {c} : /\ pendingUpdateAddress'[d] = pendingUpdateAddress[d]
                                     /\ pendingUpdateBlock'[d] = pendingUpdateBlock[d]
    BY <1>1 DEF Ends, TypeOK
  <1>6. EventsAreDated'
    BY <1>2, DatedAfter
  <1>7. Alternates(Append(log, e))
    <2>1. Len(log) % 2 # 0
      BY <1>1, NextParity
    <2>2. e.name = "UpdateSubmitted" <=> Len(log) % 2 = 0
      BY <1>2, <2>1
    <2>3. Alternates(log)
      BY DEF LogInv
    <2> QED
      BY <1>1, <2>2, <2>3, AlternatesExtended
  <1>8. Tells(Append(log, e), NoAddress, 0)
    <2>1. Len(log) % 2 # 0
      BY <1>1, NextParity
    <2> QED
      BY <1>1, <2>1, TellsExtended
  <1>9. ASSUME NEW d \in Contract
        PROVE  /\ Alternates(events'[d])
               /\ Tells(events'[d], pendingUpdateAddress'[d], pendingUpdateBlock'[d])
    <2>1. CASE d = c
      BY <1>3, <1>5, <1>7, <1>8, <2>1
    <2>2. CASE d # c
      BY <1>3, <1>5, <2>2 DEF LogInv
    <2> QED
      BY <2>1, <2>2
  <1> QED
    BY <1>4, <1>6, <1>9 DEF LogInv

\* A new block leaves the logs alone and dates no event later.
LEMMA BlockKeepsLog == ASSUME LogInv, NewBlock PROVE LogInv'
  <1>1. /\ TypeOK /\ block \in Nat /\ block' = block + 1
        /\ UNCHANGED <<pendingUpdateAddress, pendingUpdateBlock, events>>
    BY DEF NewBlock, LogInv, TypeOK
  <1>2. TypeOK'
    BY <1>1 DEF NewBlock, TypeOK
  <1>3. EventsAreDated'
    BY <1>1 DEF LogInv, EventsAreDated
  <1> QED
    BY <1>1, <1>2, <1>3 DEF LogInv

\* Every step keeps the logs telling.
LEMMA StepLog == LogInv /\ [Next]_vars => LogInv'
  <1> SUFFICES ASSUME LogInv, [Next]_vars PROVE LogInv'
    OBVIOUS
  <1>1. TypeOK
    BY DEF LogInv
  <1>2. CASE \E c, source \in Contract, e \in Event : Submits(c, source, e)
    BY <1>2, SubmitKeepsLog
  <1>3. CASE \E c \in Contract, e \in Event : Ends(c, e)
    BY <1>3, EndKeepsLog
  <1>4. CASE NewBlock
    BY <1>4, BlockKeepsLog
  <1>5. CASE UNCHANGED vars
    BY <1>5 DEF vars, LogInv, TypeOK, EventsAreDated
  <1> QED
    BY <1>1, <1>2, <1>3, <1>4, <1>5, StepCases

\* The invariant is what the run checks.
LEMMA LogInvTells == LogInv => EventsTellPendingUpdate
  BY DEF LogInv, Alternates, Tells, EventsTellPendingUpdate

\* Submissions and their ends alternate in the events of every contract, each end names
\* what was submitted, and a submission that was not ended is the one in the storage.
THEOREM EventsTell == Spec => []EventsTellPendingUpdate
  BY InitLog, StepLog, LogInvTells, PTL DEF Spec

-----------------------------------------------------------------------------
(* The announced block is honoured. *)

\* The events of a log that was extended, and the one before each end.
LEMMA PairsExtended ==
    ASSUME NEW log \in Seq(Event), NEW e \in Event, Alternates(log)
    PROVE  /\ Len(log) \in Nat /\ DOMAIN log = 1..Len(log)
           /\ DOMAIN Append(log, e) = 1..(Len(log) + 1)
           /\ \A i \in 1..Len(log) : Append(log, e)[i] = log[i]
           /\ Append(log, e)[Len(log) + 1] = e
           /\ \A i \in 1..Len(log) : log[i].name = "UpdateApplied" =>
                 Append(log, e)[i - 1] = log[i - 1]
           /\ Len(log) % 2 = 1 =>
                 /\ Append(log, e)[(Len(log) + 1) - 1] = Last(log)
                 /\ Last(log) = log[Len(log)] /\ Len(log) \in 1..Len(log)
                 /\ Last(log).name = "UpdateSubmitted"
  <1> DEFINE n == Len(log)
  <1>1. /\ n \in Nat /\ DOMAIN log = 1..n
        /\ DOMAIN Append(log, e) = 1..(n + 1)
        /\ \A i \in 1..n : Append(log, e)[i] = log[i]
        /\ Append(log, e)[n + 1] = e
    BY AppendAddsLast
  <1>2. ASSUME NEW i \in 1..n, log[i].name = "UpdateApplied"
        PROVE  Append(log, e)[i - 1] = log[i - 1]
    <2>1. ~(i % 2 = 1)
      BY <1>1, <1>2 DEF Alternates
    <2>2. i # 1
      BY <2>1
    <2>3. i - 1 \in 1..n
      BY <1>1, <2>2
    <2> QED
      BY <1>1, <2>3
  <1>3. ASSUME n % 2 = 1
        PROVE  /\ Append(log, e)[(n + 1) - 1] = Last(log)
               /\ Last(log) = log[n] /\ n \in 1..n
               /\ Last(log).name = "UpdateSubmitted"
    <2>1. n \in 1..n /\ Last(log) = log[n]
      BY <1>1, <1>3, LastIsEvent
    <2>2. (n + 1) - 1 = n
      BY <1>1
    <2>3. log[n].name = "UpdateSubmitted"
      BY <1>1, <1>3, <2>1 DEF Alternates
    <2> QED
      BY <1>1, <2>1, <2>2, <2>3
  <1> QED
    BY <1>1, <1>2, <1>3

\* A log stays honest when a submission announces its block by the delay, and an update is
\* applied no earlier than the submission before it announced.
LEMMA HonestExtended ==
    ASSUME NEW log \in Seq(Event), NEW e \in Event,
           Alternates(log), Announces(log), Honours(log),
           e.name = "UpdateSubmitted" =>
               \A k \in Timelocked : e.effective = Plus(e.at, Delay[k]),
           e.name = "UpdateApplied" => Len(log) % 2 = 1 /\ e.at >= Last(log).effective
    PROVE  Announces(Append(log, e)) /\ Honours(Append(log, e))
  <1> DEFINE n == Len(log)
             longer == Append(log, e)
  <1>1. /\ n \in Nat /\ DOMAIN log = 1..n /\ DOMAIN longer = 1..(n + 1)
        /\ \A i \in 1..n : longer[i] = log[i]
        /\ longer[n + 1] = e
        /\ \A i \in 1..n : log[i].name = "UpdateApplied" => longer[i - 1] = log[i - 1]
        /\ e.name = "UpdateApplied" => longer[(n + 1) - 1] = Last(log)
    BY PairsExtended
  <1> HIDE DEF n, longer
  <1>2. ASSUME NEW i \in DOMAIN longer
        PROVE  /\ \A k \in Timelocked : longer[i].name = "UpdateSubmitted" =>
                     longer[i].effective = Plus(longer[i].at, Delay[k])
               /\ longer[i].name = "UpdateApplied" =>
                     longer[i].at >= longer[i - 1].effective
    <2>1. CASE i \in 1..n
      BY <1>1, <2>1 DEF Announces, Honours
    <2>2. CASE i = n + 1
      BY <1>1, <2>2
    <2> QED
      BY <1>1, <1>2, <2>1, <2>2
  <1> QED
    BY <1>2 DEF Announces, Honours, longer

\* Every step keeps the logs honest, if every bytecode has the same delay.
LEMMA StepDelay == ASSUME SameDelays PROVE DelayInv /\ [Next]_vars => DelayInv'
  <1> SUFFICES ASSUME DelayInv, [Next]_vars PROVE DelayInv'
    OBVIOUS
  <1>1. LogInv /\ LogInv' /\ TypeOK
    BY StepLog DEF DelayInv, LogInv
  <1>2. ASSUME NEW c \in Contract, NEW source \in Contract, NEW e \in Event,
               Submits(c, source, e)
        PROVE  DelayInv'
    <2>1. /\ e.at = block /\ e.effective = Plus(block, Delay[code[c]])
          /\ e.name = "UpdateSubmitted" /\ code[c] \in Timelocked
          /\ events' = [events EXCEPT ![c] = Append(@, e)]
      BY <1>2 DEF Submits
    <2>2. \A k \in Timelocked : e.effective = Plus(e.at, Delay[k])
      BY <2>1 DEF SameDelays
    <2>3. events[c] \in Seq(Event) /\ Alternates(events[c])
      BY <1>1 DEF LogInv, TypeOK
    <2>4. Announces(Append(events[c], e)) /\ Honours(Append(events[c], e))
      BY <2>1, <2>2, <2>3, HonestExtended DEF DelayInv
    <2>5. /\ events'[c] = Append(events[c], e)
          /\ \A d \in Contract \ {c} : events'[d] = events[d]
      BY <1>1, <2>1, LogAfter
    <2> QED
      BY <1>1, <2>4, <2>5 DEF DelayInv
  <1>3. ASSUME NEW c \in Contract, NEW e \in Event, Ends(c, e) PROVE DelayInv'
    <2>1. /\ e.at = block /\ e.name # "UpdateSubmitted" /\ code[c] \in Timelocked
          /\ e.name = "UpdateApplied" =>
                block >= Plus(pendingUpdateBlock[c], Delay[code[c]])
          /\ events' = [events EXCEPT ![c] = Append(@, e)]
      BY <1>3 DEF Ends
    <2>2. events[c] \in Seq(Event) /\ Alternates(events[c])
      BY <1>1 DEF LogInv, TypeOK
    <2>3. Len(events[c]) % 2 = 1 /\ pendingUpdateBlock[c] = Last(events[c]).at
      BY <1>1, <1>3, PendingIsLast DEF Ends
    <2>4. /\ DOMAIN events[c] = 1..Len(events[c])
          /\ Last(events[c]) = events[c][Len(events[c])]
          /\ Len(events[c]) \in 1..Len(events[c])
          /\ Last(events[c]).name = "UpdateSubmitted"
      BY <2>2, <2>3, PairsExtended
    <2>5. Last(events[c]).effective = Plus(Last(events[c]).at, Delay[code[c]])
      BY <2>1, <2>4 DEF DelayInv, Announces
    <2>6. Announces(Append(events[c], e)) /\ Honours(Append(events[c], e))
      BY <2>1, <2>2, <2>3, <2>5, HonestExtended DEF DelayInv
    <2>7. /\ events'[c] = Append(events[c], e)
          /\ \A d \in Contract \ {c} : events'[d] = events[d]
      BY <1>1, <2>1, LogAfter
    <2> QED
      BY <1>1, <2>6, <2>7 DEF DelayInv
  <1>4. CASE NewBlock \/ UNCHANGED vars
    <2>1. events' = events
      BY <1>4 DEF NewBlock, vars
    <2> QED
      BY <1>1, <2>1 DEF DelayInv
  <1> QED
    BY <1>1, <1>2, <1>3, <1>4, StepCases

\* The invariant is what the run checks.
LEMMA DelayInvHonours == DelayInv => EffectiveBlockHonoured
  BY DEF DelayInv, Honours, EffectiveBlockHonoured, Applications, Announced

\* While every bytecode has the same delay, an update is applied no earlier than the block
\* its submission announced, also when that sum of two u64 has wrapped.
THEOREM AnnouncedBlockIsHonoured == ASSUME SameDelays PROVE Spec => []EffectiveBlockHonoured
  <1>1. Init => DelayInv
    <2>1. Init => \A c \in Contract : DOMAIN events[c] = {}
      BY DEF Init
    <2> QED
      BY <2>1, InitLog DEF DelayInv, Announces, Honours
  <1>2. DelayInv /\ [Next]_vars => DelayInv'
    BY StepDelay
  <1> QED
    BY <1>1, <1>2, DelayInvHonours, PTL DEF Spec

-----------------------------------------------------------------------------
(* What was reviewed is installed. *)

\* A log stays faithful when an update installs what was reviewed, if the source was fixed.
LEMMA InstallsExtended ==
    ASSUME NEW c, NEW log \in Seq(Event), NEW e \in Event, Alternates(log), Installs(c, log),
           e.name = "UpdateApplied" =>
               /\ Len(log) % 2 = 1
               /\ FixedSource(c, Last(log)) => e.installed = Last(log).reviewed
    PROVE  Installs(c, Append(log, e))
  <1> DEFINE n == Len(log)
             longer == Append(log, e)
  <1>1. /\ n \in Nat /\ DOMAIN log = 1..n /\ DOMAIN longer = 1..(n + 1)
        /\ \A i \in 1..n : longer[i] = log[i]
        /\ longer[n + 1] = e
        /\ \A i \in 1..n : log[i].name = "UpdateApplied" => longer[i - 1] = log[i - 1]
        /\ e.name = "UpdateApplied" => longer[(n + 1) - 1] = Last(log)
    BY PairsExtended
  <1> HIDE DEF n, longer
  <1>2. ASSUME NEW i \in DOMAIN longer, longer[i].name = "UpdateApplied",
               FixedSource(c, longer[i - 1])
        PROVE  longer[i].installed = longer[i - 1].reviewed
    <2>1. CASE i \in 1..n
      BY <1>1, <1>2, <2>1 DEF Installs
    <2>2. CASE i = n + 1
      BY <1>1, <1>2, <2>2
    <2> QED
      BY <1>1, <1>2, <2>1, <2>2
  <1> QED
    BY <1>2 DEF Installs, longer


\* Every step keeps what was reviewed of a fixed source.
LEMMA StepSource == SourceInv /\ [Next]_vars => SourceInv'
  <1> SUFFICES ASSUME SourceInv, [Next]_vars PROVE SourceInv'
    OBVIOUS
  <1>1. LogInv /\ LogInv' /\ TypeOK
    BY StepLog DEF SourceInv, LogInv
  <1>2. ASSUME NEW c \in Contract, NEW source \in Contract, NEW e \in Event,
               Submits(c, source, e)
        PROVE  SourceInv'
    <2>1. /\ e.source = source /\ e.reviewed = code[source] /\ e.name = "UpdateSubmitted"
          /\ events' = [events EXCEPT ![c] = Append(@, e)]
          /\ code' = code /\ scheduled' = scheduled
      BY <1>2 DEF Submits
    <2>2. events[c] \in Seq(Event) /\ Alternates(events[c])
      BY <1>1 DEF LogInv, TypeOK
    <2>3. /\ events'[c] = Append(events[c], e)
          /\ \A d \in Contract \ {c} : events'[d] = events[d]
      BY <1>1, <2>1, LogAfter
    <2>4. Installs(c, events'[c])
      BY <2>1, <2>2, <2>3, InstallsExtended DEF SourceInv
    <2>5. Last(events'[c]) = e
      BY <2>2, <2>3, AppendAddsLast
    <2>6. \A d \in Contract : Installs(d, events'[d])
      BY <2>3, <2>4 DEF SourceInv
    <2>7. \A d \in Contract : Frozen(d)' => scheduled'[d] = code'[d]
      BY <2>1 DEF SourceInv, Frozen
    <2>8. ASSUME NEW d \in Contract, Len(events'[d]) % 2 = 1
          PROVE  /\ Last(events'[d]).source \in Contract
                 /\ FixedSource(d, Last(events'[d])) =>
                       code'[Last(events'[d]).source] = Last(events'[d]).reviewed
      <3>1. CASE d = c
        BY <2>1, <2>5, <3>1
      <3>2. CASE d # c
        BY <2>1, <2>3, <2>8, <3>2 DEF SourceInv
      <3> QED
        BY <3>1, <3>2
    <2> QED
      BY <1>1, <2>6, <2>7, <2>8 DEF SourceInv
  <1>3. ASSUME NEW c \in Contract, NEW e \in Event, Ends(c, e) PROVE SourceInv'
    <2>1. /\ e.source = pendingUpdateAddress[c]
          /\ e.name = "UpdateApplied" => e.installed = code[e.source]
          /\ events' = [events EXCEPT ![c] = Append(@, e)]
          /\ code' = code /\ \A d \in Contract \ {c} : scheduled'[d] = scheduled[d]
          /\ ~Frozen(c)
      BY <1>3 DEF Ends, Frozen
    <2>2. events[c] \in Seq(Event) /\ Alternates(events[c])
      BY <1>1 DEF LogInv, TypeOK
    <2>3. /\ events'[c] = Append(events[c], e)
          /\ \A d \in Contract \ {c} : events'[d] = events[d]
      BY <1>1, <2>1, LogAfter
    <2>4. Len(events[c]) % 2 = 1 /\ e.source = Last(events[c]).source
      BY <1>1, <1>3, <2>1, PendingIsLast DEF Ends
    <2>5. e.name = "UpdateApplied" /\ FixedSource(c, Last(events[c])) =>
              e.installed = Last(events[c]).reviewed
      BY <2>1, <2>4 DEF SourceInv
    <2>6. Installs(c, events'[c])
      <3>1. Installs(c, events[c])
        BY DEF SourceInv
      <3>2. Installs(c, Append(events[c], e))
        BY <2>2, <2>4, <2>5, <3>1, InstallsExtended
      <3> QED
        BY <2>3, <3>2
    <2>7. Len(events'[c]) % 2 # 1
      <3>1. Len(events[c]) \in Nat /\ Len(events'[c]) = Len(events[c]) + 1
        BY <2>2, <2>3, AppendAddsLast
      <3>2. Len(events[c]) + 1 \in Nat
        BY <3>1
      <3> QED
        BY <2>4, <3>1, <3>2, NextParity
    <2>8. \A d \in Contract : Installs(d, events'[d])
      BY <2>3, <2>6 DEF SourceInv
    <2>9. \A d \in Contract : Frozen(d)' => scheduled'[d] = code'[d]
      BY <2>1 DEF SourceInv, Frozen
    <2>10. ASSUME NEW d \in Contract, Len(events'[d]) % 2 = 1
           PROVE  /\ Last(events'[d]).source \in Contract
                  /\ FixedSource(d, Last(events'[d])) =>
                        code'[Last(events'[d]).source] = Last(events'[d]).reviewed
      <3>1. d # c
        BY <2>7, <2>10
      <3>2. events'[d] = events[d] /\ code' = code
        BY <2>1, <2>3, <3>1
      <3> QED
        BY <2>10, <3>2 DEF SourceInv
    <2> QED
      BY <1>1, <2>8, <2>9, <2>10 DEF SourceInv
  <1>4. CASE NewBlock
    <2>1. code' = scheduled /\ scheduled' = scheduled /\ events' = events
      BY <1>4 DEF NewBlock
    <2>2. ASSUME NEW d \in Contract, Len(events[d]) % 2 = 1,
                 FixedSource(d, Last(events[d]))
          PROVE  code'[Last(events[d]).source] = Last(events[d]).reviewed
      <3> DEFINE source == Last(events[d]).source
      <3>1. source \in Contract /\ code[source] = Last(events[d]).reviewed
        BY <2>2 DEF SourceInv
      <3>2. Frozen(source)
        BY <2>2, <3>1 DEF FixedSource, Frozen
      <3> QED
        BY <2>1, <3>1, <3>2 DEF SourceInv
    <2> QED
      BY <1>1, <2>1, <2>2 DEF SourceInv
  <1>5. CASE UNCHANGED vars
    <2>1. events' = events /\ code' = code /\ scheduled' = scheduled
      BY <1>5 DEF vars
    <2> QED
      BY <1>1, <2>1 DEF SourceInv, Frozen
  <1> QED
    BY <1>1, <1>2, <1>3, <1>4, <1>5, StepCases

\* The invariant is what the run checks.
LEMMA SourceInvInstalls == SourceInv => ReviewedCodeIsInstalled
  BY DEF SourceInv, Installs, FixedSource, ReviewedCodeIsInstalled, Applications, Announced

\* What an update installs is the bytecode its source had when the update was submitted,
\* if the source has no timelock of its own or its deployer is gone.
THEOREM ReviewedIsInstalled == Spec => []ReviewedCodeIsInstalled
  <1>1. Init => SourceInv
    <2>1. Init => \A c \in Contract : /\ Len(events[c]) = 0 /\ DOMAIN events[c] = {}
                                      /\ scheduled[c] = code[c]
      BY DEF Init
    <2>2. 0 % 2 # 1
      OBVIOUS
    <2> QED
      BY <2>1, <2>2, InitLog DEF SourceInv, Installs
  <1> QED
    BY <1>1, StepSource, SourceInvInstalls, PTL DEF Spec
=============================================================================
