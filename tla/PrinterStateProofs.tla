------------------------- MODULE PrinterStateProofs -------------------------
(***************************************************************************)
(* What normalize_probe may say of the printer, whatever the commands of a *)
(* probe told and however many reasons the printer gives.                  *)
(***************************************************************************)
EXTENDS PrinterState, WellFoundedInduction, TLAPS

-----------------------------------------------------------------------------
(* The first named reason.                                                   *)

\* A list that names a condition has a first token that does.
LEMMA FirstExists ==
  ASSUME NEW rs \in Seq(Reasons), Says(rs, NamedReasons)
  PROVE  \E i \in DOMAIN rs :
           rs[i] \in NamedReasons /\ \A k \in DOMAIN rs : k < i => rs[k] \notin NamedReasons
<1> DEFINE Named == {i \in DOMAIN rs : rs[i] \in NamedReasons}
<1>1. Named \subseteq Nat /\ Named # {}
  BY DEF Says
<1>2. PICK i \in Named : \A k \in Named : <<k, i>> \notin OpToRel(<, Nat)
  <2>1. IsWellFoundedOn(OpToRel(<, Nat), Nat)
    BY NatLessThanWellFounded
  <2> HIDE DEF Named
  <2> QED
    BY <1>1, <2>1, WFMin
<1>3. ASSUME NEW k \in DOMAIN rs, k < i
      PROVE  rs[k] \notin NamedReasons
  <2>1. k \in Nat /\ i \in Nat
    OBVIOUS
  <2>2. <<k, i>> \in OpToRel(<, Nat)
    BY <2>1, <1>3 DEF OpToRel
  <2> QED
    BY <1>2, <2>2
<1> QED
  BY <1>2, <1>3

\* The condition named first is one of the named ones.
LEMMA FirstNamedIsNamed ==
  ASSUME NEW rs \in Seq(Reasons), Says(rs, NamedReasons)
  PROVE  FirstNamed(rs) \in NamedReasons
BY FirstExists DEF FirstNamed

\* The reasons say a named condition, an error, or nothing.
LEMMA ReasonsSay ==
  ASSUME NEW rs \in Seq(Reasons)
  PROVE  OperationalFromReasons(rs) \in NamedReasons \cup {"ERROR", NoCondition}
BY FirstNamedIsNamed DEF OperationalFromReasons

-----------------------------------------------------------------------------
(* The snapshot.                                                             *)

\* Every connection state derived is one of the three.
LEMMA ConnectionType ==
  ASSUME NEW p \in Signals
  PROVE  Connection(p) \in ConnectionStates
BY DEF Connection, ConnectionStates

\* The reasons of a probe say something the snapshot can show.
LEMMA NamedType ==
  ASSUME NEW p \in Signals
  PROVE  OperationalFromReasons(p.reasons) \in NamedReasons \cup {"ERROR", NoCondition}
<1>1. p.reasons \in Seq(Reasons)
  BY DEF Signals
<1> QED
  BY <1>1, ReasonsSay

\* Online, the operational state is not UNKNOWN.
LEMMA OnlineType ==
  ASSUME NEW p \in Signals, NEW hint \in BOOLEAN
  PROVE  OnlineState(p, hint) \in OperationalStates \ {"UNKNOWN"}
BY NamedType DEF OnlineState, OperationalStates, NamedReasons, NoCondition

\* Not online, it is a named fault or UNKNOWN: never IDLE, never PRINTING.
LEMMA AbsentType ==
  ASSUME NEW p \in Signals
  PROVE  AbsentState(p) \in OperationalStates \ {"IDLE", "PRINTING"}
BY NamedType DEF AbsentState, OperationalStates, NamedReasons, NoCondition

\* normalize_probe is total: whatever was gathered, it gives a snapshot.
THEOREM NormalizeType ==
  ASSUME NEW p \in Signals, NEW hint \in BOOLEAN
  PROVE  Normalize(p, hint) \in Snapshots
<1> DEFINE c  == Connection(p)
           op == IF c = "ONLINE" THEN OnlineState(p, hint) ELSE AbsentState(p)
<1>1. p.reasons \in Seq(Reasons)
  BY DEF Signals
<1>2. c \in ConnectionStates
  BY ConnectionType
<1>3. op \in OperationalStates
  BY OnlineType, AbsentType
<1>4. DisplayState(c, op) \in DisplayStates
  BY <1>2, <1>3 DEF DisplayState, OperationalStates, DisplayStates, NamedReasons
<1>5. Normalize(p, hint) =
        [connection |-> c, operational |-> op, display |-> DisplayState(c, op),
         reasons |-> p.reasons]
  BY DEF Normalize
<1> HIDE DEF c, op
<1> QED
  BY <1>1, <1>2, <1>3, <1>4, <1>5 DEF Snapshots

\* READY is earned: the scheduler runs, the queue exists, is enabled and accepts
\* jobs; nothing prints, and no job is said to; the printer was heard of and not
\* found absent; and no reason it gives names a condition, an error or an outage.
THEOREM ReadyIsEarned ==
  ASSUME NEW p \in Signals, NEW hint \in BOOLEAN,
         Normalize(p, hint).display = "READY"
  PROVE  /\ p.scheduler /\ p.exists /\ p.enabled /\ p.accepting
         /\ ~p.printing /\ ~hint /\ p.state \notin {4, 5}
         /\ ConnectivityEvidence(p) /\ p.usb # "absent"
         /\ ~Says(p.reasons, NamedReasons \cup {"ERROR", "OFFLINE"})
<1> DEFINE c  == Connection(p)
           op == IF c = "ONLINE" THEN OnlineState(p, hint) ELSE AbsentState(p)
<1>1. DisplayState(c, op) = "READY"
  BY DEF Normalize
<1>2. op \in OperationalStates
  BY OnlineType, AbsentType
<1>3. c = "ONLINE" /\ op = "IDLE"
  <2> HIDE DEF c, op
  <2> QED
    BY <1>1, <1>2 DEF DisplayState, OperationalStates, NamedReasons
<1>4. OnlineState(p, hint) = "IDLE"
  BY <1>3
<1>5. /\ p.scheduler /\ p.exists /\ ConnectivityEvidence(p) /\ p.usb # "absent"
      /\ ~Says(p.reasons, {"OFFLINE"})
  BY <1>3 DEF Connection
<1>6. /\ p.enabled /\ ~p.printing /\ ~hint /\ p.state # 5 /\ p.state # 4
      /\ OperationalFromReasons(p.reasons) = NoCondition /\ p.accepting
  <2>1. OperationalFromReasons(p.reasons) # "IDLE"
    BY NamedType DEF NamedReasons, NoCondition
  <2> QED
    BY <1>4, <2>1 DEF OnlineState
<1>7. ~Says(p.reasons, NamedReasons) /\ ~Says(p.reasons, {"ERROR"})
  <2>1. p.reasons \in Seq(Reasons)
    BY DEF Signals
  <2> QED
    BY <1>6, <2>1, FirstNamedIsNamed DEF OperationalFromReasons, NamedReasons, NoCondition
<1> QED
  BY <1>5, <1>6, <1>7 DEF Says

\* PRINTING is shown only if CUPS prints or a job is said to.
THEOREM PrintingIsMeant ==
  ASSUME NEW p \in Signals, NEW hint \in BOOLEAN,
         Normalize(p, hint).display = "PRINTING"
  PROVE  p.state = 4 \/ p.printing \/ hint
<1> DEFINE c  == Connection(p)
           op == IF c = "ONLINE" THEN OnlineState(p, hint) ELSE AbsentState(p)
<1>1. DisplayState(c, op) = "PRINTING"
  BY DEF Normalize
<1>2. op = "PRINTING"
  <2> HIDE DEF c, op
  <2> QED
    BY <1>1 DEF DisplayState
<1>3. OnlineState(p, hint) = "PRINTING"
  BY <1>2, AbsentType
<1>4. OperationalFromReasons(p.reasons) # "PRINTING"
  BY NamedType DEF NamedReasons, NoCondition
<1> QED
  BY <1>3, <1>4 DEF OnlineState

\* A fault is shown: of a printer that is online, enabled and not printing, the
\* display is the condition that is named first.
THEOREM FaultIsShown ==
  ASSUME NEW p \in Signals, Connection(p) = "ONLINE",
         p.enabled, p.state \notin {4, 5}, ~p.printing, Says(p.reasons, NamedReasons)
  PROVE  Normalize(p, FALSE).display = FirstNamed(p.reasons)
<1>1. p.reasons \in Seq(Reasons)
  BY DEF Signals
<1>2. FirstNamed(p.reasons) \in NamedReasons
  BY <1>1, FirstNamedIsNamed
<1>3. OnlineState(p, FALSE) = FirstNamed(p.reasons)
  BY <1>2 DEF OnlineState, OperationalFromReasons, NamedReasons, NoCondition
<1> QED
  BY <1>2, <1>3 DEF Normalize, DisplayState, NamedReasons

\* OFFLINE is shown exactly of a printer that is known to be gone: the scheduler
\* and the queue are there, and hp-probe or a reason says that the device is not.
THEOREM OfflineIsKnown ==
  ASSUME NEW p \in Signals, NEW hint \in BOOLEAN
  PROVE  Normalize(p, hint).display = "OFFLINE" <=>
           /\ p.scheduler /\ p.exists
           /\ p.usb = "absent" \/ Says(p.reasons, {"OFFLINE"})
<1> DEFINE c  == Connection(p)
           op == IF c = "ONLINE" THEN OnlineState(p, hint) ELSE AbsentState(p)
<1>1. op \in OperationalStates
  BY OnlineType, AbsentType
<1>2. DisplayState(c, op) = "OFFLINE" <=> c = "OFFLINE"
  <2> HIDE DEF c, op
  <2> QED
    BY <1>1 DEF DisplayState, OperationalStates, NamedReasons
<1>3. c = "OFFLINE" <=>
        /\ p.scheduler /\ p.exists
        /\ p.usb = "absent" \/ Says(p.reasons, {"OFFLINE"})
  BY DEF Connection
<1> QED
  BY <1>2, <1>3 DEF Normalize

\* The health snapshot calls the printer good only if it was heard of, is enabled,
\* and is free of named faults or prints: a job, or one said to print, hides them.
THEOREM HealthIsEarned ==
  ASSUME NEW p \in Signals, NEW hint \in BOOLEAN, PrinterOk(Normalize(p, hint))
  PROVE  /\ p.scheduler /\ p.exists /\ p.enabled /\ p.state # 5
         /\ ConnectivityEvidence(p) /\ p.usb # "absent"
         /\ Says(p.reasons, NamedReasons) => p.state = 4 \/ p.printing \/ hint
<1> DEFINE op == OnlineState(p, hint)
<1>1. Connection(p) = "ONLINE" /\ DisplayState("ONLINE", op) \in {"READY", "PRINTING"}
  BY DEF PrinterOk, Normalize
<1>2. op \in {"IDLE", "PRINTING"}
  <2>1. op \in OperationalStates
    BY OnlineType
  <2> HIDE DEF op
  <2> QED
    BY <1>1, <2>1 DEF DisplayState, OperationalStates, NamedReasons
<1>3. p.scheduler /\ p.exists /\ ConnectivityEvidence(p) /\ p.usb # "absent"
  BY <1>1 DEF Connection
<1>4. p.enabled /\ p.state # 5
  BY <1>2 DEF OnlineState
<1>5. ASSUME Says(p.reasons, NamedReasons), p.state # 4, ~p.printing, ~hint
      PROVE  FALSE
  <2>1. p.reasons \in Seq(Reasons)
    BY DEF Signals
  <2>2. FirstNamed(p.reasons) \in NamedReasons
    BY <1>5, <2>1, FirstNamedIsNamed
  <2>3. op = FirstNamed(p.reasons)
    BY <1>4, <1>5, <2>2 DEF OnlineState, OperationalFromReasons, NamedReasons, NoCondition
  <2> HIDE DEF op
  <2> QED
    BY <1>2, <2>2, <2>3 DEF NamedReasons
<1> QED
  BY <1>3, <1>4, <1>5

\* "no devices found" is heard only if the output nowhere says "printer": the
\* question for "found", which it answers too, comes first.
THEOREM AbsenceNeedsSilence ==
  ASSUME NEW o \in HpOutputs, UsbPresence(o) = "absent"
  PROVE  o.none /\ ~o.printer
BY DEF HpOutputs, UsbPresence

=============================================================================
