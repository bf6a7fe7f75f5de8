----------------------- MODULE ExtendedProtocolProofs -----------------------
(***************************************************************************)
(* Proofs about ExtendedProtocol, for any Burrows, statements, portals,    *)
(* routes and bounds, and for the clients and faults of Ordinary.          *)
(***************************************************************************)
EXTENDS ExtendedProtocol, TLAPS

(* Sequences.                                                              *)

\* Appending nothing.
LEMMA ConcatEmptySeq ==
    ASSUME NEW S, NEW s \in Seq(S)
    PROVE  s \o <<>> = s /\ <<>> \o s = s
    OBVIOUS

\* Appending one element.
LEMMA AppendIsConcat ==
    ASSUME NEW S, NEW s \in Seq(S), NEW x \in S
    PROVE  Append(s, x) = s \o <<x>>
    OBVIOUS

\* What is appended leaves a prefix.
LEMMA PrefixConcat ==
    ASSUME NEW S, NEW s \in Seq(S), NEW u \in Seq(S)
    PROVE  IsPrefix(s, s \o u)
    BY DEF IsPrefix

\* A prefix stays one when more is appended.
LEMMA PrefixJoin ==
    ASSUME NEW S, NEW s \in Seq(S), NEW t \in Seq(S), NEW u \in Seq(S), IsPrefix(s, t)
    PROVE  IsPrefix(s, t \o u)
<1>1. \A i \in 1 .. Len(s) : s[i] = t[i] /\ i \in 1 .. Len(t)
    BY DEF IsPrefix
<1>2. Len(s) <= Len(t \o u)
    BY DEF IsPrefix
<1>3. SubSeq(s, 1, Len(s)) = SubSeq(t \o u, 1, Len(s))
    BY <1>1, <1>2
<1> QED BY <1>2, <1>3, Zenon DEF IsPrefix

\* An answer has been given when it is in either part.
LEMMA Ranges ==
    ASSUME NEW S, NEW s \in Seq(S), NEW u \in Seq(S), NEW x
    PROVE  /\ x \in Range(s \o u) <=> x \in Range(s) \/ x \in Range(u)
           /\ \A y \in S : x \in Range(<<y>>) <=> x = y
           /\ x \notin Range(<<>>)
<1>1. ASSUME x \in Range(s) PROVE x \in Range(s \o u)
  <2>1. PICK i \in 1 .. Len(s) : x = s[i]
    BY <1>1 DEF Range
  <2>2. i \in 1 .. Len(s \o u) /\ (s \o u)[i] = s[i]
    OBVIOUS
  <2> QED BY <2>1, <2>2 DEF Range
<1>2. ASSUME x \in Range(u) PROVE x \in Range(s \o u)
  <2>1. PICK i \in 1 .. Len(u) : x = u[i]
    BY <1>2 DEF Range
  <2>2. Len(s) + i \in 1 .. Len(s \o u) /\ (s \o u)[Len(s) + i] = u[i]
    OBVIOUS
  <2> QED BY <2>1, <2>2 DEF Range
<1>3. ASSUME x \in Range(s \o u) PROVE x \in Range(s) \/ x \in Range(u)
  <2>1. PICK i \in 1 .. Len(s \o u) : x = (s \o u)[i]
    BY <1>3 DEF Range
  <2>2. CASE i <= Len(s)
    BY <2>1, <2>2 DEF Range
  <2>3. CASE i > Len(s)
    <3>1. i - Len(s) \in 1 .. Len(u) /\ (s \o u)[i] = u[i - Len(s)]
      BY <2>1, <2>3
    <3> QED BY <2>1, <3>1 DEF Range
  <2> QED BY <2>1, <2>2, <2>3
<1>4. \A y \in S : x \in Range(<<y>>) <=> x = y
    BY DEF Range
<1>5. x \notin Range(<<>>)
    BY DEF Range
<1> QED BY <1>1, <1>2, <1>3, <1>4, <1>5, Zenon

-----------------------------------------------------------------------------
(* The parts of a state.                                                   *)

\* The initial values are of their types.
LEMMA Constituents ==
    /\ Unbound \in BoundPortals /\ Unbound.bind = 0
    /\ NoPending \in Requests /\ NoPending.portal = "none" /\ ~NoPending.execute
    /\ NoMessage \in Messages /\ NoMessage.type = "none" /\ ~NoMessage.flushed
    /\ FreshTunnel \in TunnelStates
    /\ ~FreshTunnel.skipping /\ ~FreshTunnel.unread /\ ~FreshTunnel.broken
    /\ Error \in Answers
<1>1. Unbound \in BoundPortals /\ Unbound.bind = 0
    BY ProtocolAssumption, Zenon DEF Unbound, BoundPortals
<1>2. NoPending \in Requests /\ NoPending.portal = "none" /\ ~NoPending.execute
    BY Zenon DEF NoPending, Requests
<1>3. NoMessage \in Messages /\ NoMessage.type = "none" /\ ~NoMessage.flushed
    BY Zenon DEF NoMessage, Message, Messages, OfPortal, OfStatement
<1>4. /\ FreshTunnel \in TunnelStates
      /\ ~FreshTunnel.skipping /\ ~FreshTunnel.unread /\ ~FreshTunnel.broken
  <2>1. "no" \in Endings
    BY DEF Endings
  <2> QED BY <2>1, Zenon DEF FreshTunnel, TunnelStates
<1>5. Error \in Answers
    BY Zenon DEF Error, Answer, Answers
<1> QED BY <1>1, <1>2, <1>3, <1>4, <1>5, Zenon

\* The fields of a message.
LEMMA MessageFields ==
    ASSUME NEW t, NEW n
    PROVE  /\ Message(t, n).type = t /\ Message(t, n).name = n
           /\ Message(t, n).flushed = FALSE
    BY DEF Message

\* A message that names a portal, and one that names a statement.
LEMMA PortalMessage ==
    ASSUME NEW t \in OfPortal \ {"Bind"}, NEW n \in Portals
    PROVE  Message(t, n) \in Messages
    BY DEF Message, Messages, OfPortal, OfStatement
LEMMA StatementMessage ==
    ASSUME NEW t \in OfStatement, NEW n \in Statements
    PROVE  Message(t, n) \in Messages
    BY DEF Message, Messages, OfPortal, OfStatement

\* The answers PostgreSQL gives are answers, and none but its errors is an error.
LEMMA AnswerKinds ==
    ASSUME NEW n \in Nat, NEW k \in {"parse", "bind", "describe", "result", "close"}
    PROVE  /\ Answer(k, n) \in Answers /\ Answer(k, n) # Error
           /\ <<Answer(k, n)>> \in Seq(Answers)
           /\ Error \notin Range(<<Answer(k, n)>>)
<1>1. Answer(k, n) \in Answers /\ Answer(k, n) # Error
    BY Zenon DEF Answer, Error, Answers
<1>2. <<Answer(k, n)>> \in Seq(Answers)
    BY <1>1
<1>3. Error \notin Range(<<Answer(k, n)>>)
    BY <1>1 DEF Range
<1> QED BY <1>1, <1>2, <1>3, Zenon

\* Answers follow each other, and each has been given that was given in a part.
LEMMA Joined ==
    ASSUME NEW s \in Seq(Answers), NEW u \in Seq(Answers)
    PROVE  /\ s \o u \in Seq(Answers)
           /\ \A x : x \in Range(s \o u) <=> x \in Range(s) \/ x \in Range(u)
<1>1. s \o u \in Seq(Answers)
    OBVIOUS
<1>2. \A x : x \in Range(s \o u) <=> x \in Range(s) \/ x \in Range(u)
    BY Ranges
<1> QED BY <1>1, <1>2, Zenon

\* Joining answers is associative.
LEMMA AnswersAssociate ==
    \A s, u, v \in Seq(Answers) : (s \o u) \o v = s \o (u \o v)
<1> TAKE s, u, v \in Seq(Answers)
<1> QED OBVIOUS

\* Joining runs is associative.
LEMMA RunsAssociate ==
    \A s, u, v \in Seq(Nat) : (s \o u) \o v = s \o (u \o v)
<1> TAKE s, u, v \in Seq(Nat)
<1> QED OBVIOUS

\* What is due is of its type.
LEMMA DueTypes ==
    TypeOK
    => /\ HeldAnswers \in Seq(Answers) /\ DueAnswers \in Seq(Answers)
       /\ Error \notin Range(HeldAnswers)
       /\ \A b \in Burrows : HeldRuns(b) \in Seq(Nat) /\ DueRuns(b) \in Seq(Nat)
<1> SUFFICES ASSUME TypeOK
             PROVE  /\ HeldAnswers \in Seq(Answers) /\ DueAnswers \in Seq(Answers)
                    /\ Error \notin Range(HeldAnswers)
                    /\ \A b \in Burrows : HeldRuns(b) \in Seq(Nat) /\ DueRuns(b) \in Seq(Nat)
    BY Zenon
<1>1. pending.bind \in Nat /\ binds \in Nat
    BY Zenon DEF TypeOK, Requests
<1>2. message.type \in OfPortal => bound[message.name].bind \in Nat
    BY Zenon DEF TypeOK, Messages, BoundPortals
<1>3. <<>> \in Seq(Answers) /\ Error \notin Range(<<>>) /\ <<>> \in Seq(Nat)
    BY DEF Range
<1>4. HeldAnswers \in Seq(Answers) /\ Error \notin Range(HeldAnswers)
  <2> DEFINE B == <<Answer("bind", pending.bind)>>
             D == IF pending.describe THEN <<Answer("describe", pending.bind)>> ELSE <<>>
             X == IF pending.execute THEN <<Answer("result", pending.bind)>> ELSE <<>>
  <2>1. /\ B \in Seq(Answers) /\ Error \notin Range(B)
        /\ D \in Seq(Answers) /\ Error \notin Range(D)
        /\ X \in Seq(Answers) /\ Error \notin Range(X)
    BY <1>1, <1>3, AnswerKinds, Zenon
  <2>2. HeldAnswers = IF pending = NoPending THEN <<>> ELSE (B \o D) \o X
    BY Zenon DEF HeldAnswers
  <2> HIDE DEF B, D, X
  <2>3. B \o D \in Seq(Answers) /\ Error \notin Range(B \o D)
    BY <2>1, Joined, Zenon
  <2>4. (B \o D) \o X \in Seq(Answers) /\ Error \notin Range((B \o D) \o X)
    BY <2>1, <2>3, Joined, Zenon
  <2> QED BY <1>3, <2>2, <2>4, Zenon
<1>5. DueAnswers \in Seq(Answers)
  <2>1. 0 \in Nat
    BY Zenon
  <2>2. /\ <<Answer("parse", 0)>> \in Seq(Answers)
        /\ <<Answer("bind", binds)>> \in Seq(Answers)
        /\ <<Answer("describe", 0)>> \in Seq(Answers)
        /\ <<Answer("close", 0)>> \in Seq(Answers)
    BY <1>1, <2>1, AnswerKinds, Zenon
  <2>3. message.type \in OfPortal
        => /\ <<Answer("describe", bound[message.name].bind)>> \in Seq(Answers)
           /\ <<Answer("result", bound[message.name].bind)>> \in Seq(Answers)
    BY <1>2, AnswerKinds, Zenon
  <2> QED BY <1>3, <2>2, <2>3, Zenon DEF DueAnswers, OfPortal
<1>6. ASSUME NEW b \in Burrows
      PROVE  HeldRuns(b) \in Seq(Nat) /\ DueRuns(b) \in Seq(Nat)
    BY <1>1, <1>2, <1>3 DEF HeldRuns, DueRuns, OfPortal
<1> QED BY <1>4, <1>5, <1>6, Zenon

\* Nothing is due without a message, and nothing is held back without a request.
LEMMA NothingDue ==
    /\ message.type \in {"Flush", "Sync", "none"} => DueAnswers = <<>>
    /\ message.type # "Execute" => \A b : DueRuns(b) = <<>>
    /\ pending = NoPending => HeldAnswers = <<>> /\ \A b : HeldRuns(b) = <<>>
<1>1. message.type \in {"Flush", "Sync", "none"} => DueAnswers = <<>>
    BY Zenon DEF DueAnswers
<1>2. message.type # "Execute" => \A b : DueRuns(b) = <<>>
    BY Zenon DEF DueRuns
<1>3. pending = NoPending => HeldAnswers = <<>> /\ \A b : HeldRuns(b) = <<>>
    BY Constituents, Zenon DEF HeldAnswers, HeldRuns
<1> QED BY <1>1, <1>2, <1>3, Zenon

\* The initial state.
LEMMA InitIInv == ASSUME Init PROVE IInv
<1>1. TypeOK
  <2>1. <<>> \in Seq(Answers) /\ <<>> \in Seq(Nat) /\ 0 \in Nat
    OBVIOUS
  <2>2. /\ portals \in [Portals -> BoundPortals] /\ bound \in [Portals -> BoundPortals]
        /\ tunnel \in [Burrows -> TunnelStates]
        /\ wanted \in [Burrows -> Seq(Nat)] /\ ran \in [Burrows -> Seq(Nat)]
    BY <2>1, Constituents, Zenon DEF Init
  <2> QED BY <2>1, <2>2, Constituents, Zenon DEF Init, TypeOK
<1>2. Succeeded /\ TunnelsInStep /\ ~Over
    BY ProtocolAssumption, Constituents DEF Init, Succeeded, TunnelsInStep, Over, Range
<1>3. Steady
    BY Constituents, Zenon DEF Init, Steady, Astray
<1>4. Failing /\ Holding /\ Known
    BY <1>2, Zenon DEF Init, Failing, Holding, Known
<1>5. InFlight
    BY Constituents, Zenon DEF Init, InFlight
<1>6. Accounted
  <2>1. message.type = "none" /\ pending = NoPending
    BY Constituents, Zenon DEF Init
  <2>2. DueAnswers = <<>> /\ HeldAnswers = <<>>
    BY <2>1, NothingDue, Zenon
  <2>3. \A b \in Burrows : DueRuns(b) = <<>> /\ HeldRuns(b) = <<>>
    BY <2>1, NothingDue, Zenon
  <2>4. \A b \in Burrows : ran[b] = <<>> /\ wanted[b] = <<>>
    BY Zenon DEF Init
  <2>5. expected = <<>> /\ answers = <<>>
    BY Zenon DEF Init
  <2>6. <<>> \o <<>> = <<>> /\ IsPrefix(<<>>, <<>>)
    BY DEF IsPrefix
  <2> QED BY <2>2, <2>3, <2>4, <2>5, <2>6, Zenon DEF Accounted
<1> QED BY <1>1, <1>2, <1>3, <1>4, <1>5, <1>6, Zenon DEF IInv

\* A message is handled before the end of its cycle, and unless an earlier one
\* failed every Tunnel is in step.
LEMMA Handled ==
    ASSUME IInv, message.type # "none"
    PROVE  /\ ~ready /\ ~hung /\ (~failed <=> Succeeded)
           /\ failed => pending = NoPending
           /\ ~failed \/ message.flushed => \A b \in Burrows : ~Astray(b)
<1>1. ~Over /\ message # NoMessage
    BY Constituents, Zenon DEF Over
<1> QED BY <1>1, Zenon DEF IInv, Failing, Steady, InFlight

-----------------------------------------------------------------------------
(* The client.                                                             *)

\* Whatever it sends, it sends before the end of its cycle, and the Proxy's and
\* the Tunnels' part of the invariant stays.
LEMMA Sending ==
    ASSUME IInv, NEW m \in Messages, m.type # "none", m.flushed = FALSE,
           NEW due \in Seq(Answers),
           message = NoMessage, ~ready, messages <= MaxMessages,
           message' = m, expected' = expected \o due, messages' \in Nat,
           UNCHANGED <<state, session, connected, tunnel, hung, ready, answers, ran, released, cycles>>
    PROVE  /\ Steady' /\ Failing' /\ TunnelsInStep'
           /\ ~failed <=> Succeeded
           /\ Succeeded' <=> Succeeded
           /\ HeldAnswers' = HeldAnswers /\ HeldAnswers \in Seq(Answers)
           /\ \A b \in Burrows : /\ HeldRuns(b)' = HeldRuns(b) /\ HeldRuns(b) \in Seq(Nat)
                                 /\ ran[b] \in Seq(Nat) /\ wanted[b] \in Seq(Nat)
                                 /\ IsPrefix(ran[b], wanted[b])
           /\ Succeeded => expected = answers \o HeldAnswers
           /\ Succeeded => expected' = (answers \o HeldAnswers) \o due
           /\ Succeeded => \A b \in Burrows : wanted[b] = ran[b] \o HeldRuns(b)
           /\ (bound' \in [Portals -> BoundPortals] /\ binds' \in Nat /\ wanted' \in [Burrows -> Seq(Nat)]
               => TypeOK')
<1> USE DEF state
<1>0. TypeOK /\ ~Over /\ message.type = "none"
  <2>1. TypeOK /\ message.type = "none" /\ messages \in Nat
    BY Constituents, Zenon DEF IInv, TypeOK
  <2> QED BY <2>1, ProtocolAssumption DEF Over
<1>1. Steady' /\ TunnelsInStep'
    BY Zenon DEF IInv, Steady, Astray, TunnelsInStep
<1>2. (~failed <=> Succeeded) /\ (Succeeded' <=> Succeeded)
    BY <1>0, Zenon DEF IInv, Failing, Succeeded
<1>3. Failing'
    BY <1>2, Zenon DEF IInv, Failing
<1>4. HeldAnswers' = HeldAnswers /\ \A b \in Burrows : HeldRuns(b)' = HeldRuns(b)
    BY Zenon DEF HeldAnswers, HeldRuns
<1>5. /\ HeldAnswers \in Seq(Answers) /\ answers \in Seq(Answers)
      /\ \A b \in Burrows : HeldRuns(b) \in Seq(Nat)
    BY <1>0, DueTypes, Zenon DEF TypeOK
<1>6. \A b \in Burrows : ran[b] \in Seq(Nat) /\ wanted[b] \in Seq(Nat)
    BY <1>0, Zenon DEF TypeOK
<1>7. \A b \in Burrows : IsPrefix(ran[b], wanted[b])
    BY Zenon DEF IInv, Accounted
<1>8. Succeeded => expected = answers \o HeldAnswers
  <2>1. DueAnswers = <<>>
    BY <1>0, NothingDue, Zenon
  <2>2. answers \o HeldAnswers \in Seq(Answers)
    BY <1>5, Joined, Zenon
  <2>3. (answers \o HeldAnswers) \o <<>> = answers \o HeldAnswers
    BY <2>2, ConcatEmptySeq, Zenon
  <2> QED BY <2>1, <2>3, Zenon DEF IInv, Accounted
<1>9. ASSUME NEW b \in Burrows, Succeeded PROVE wanted[b] = ran[b] \o HeldRuns(b)
  <2>1. DueRuns(b) = <<>>
    BY <1>0, NothingDue, Zenon
  <2>2. ran[b] \o HeldRuns(b) \in Seq(Nat)
    BY <1>5, <1>6
  <2>3. (ran[b] \o HeldRuns(b)) \o <<>> = ran[b] \o HeldRuns(b)
    BY <2>2, ConcatEmptySeq, Zenon
  <2> QED BY <1>9, <2>1, <2>3, Zenon DEF IInv, Accounted
<1>10. expected' \in Seq(Answers)
    BY <1>0, Joined, Zenon DEF TypeOK
<1>11. bound' \in [Portals -> BoundPortals] /\ binds' \in Nat /\ wanted' \in [Burrows -> Seq(Nat)]
       => TypeOK'
    BY <1>0, <1>10, Zenon DEF TypeOK
<1> QED BY <1>1, <1>2, <1>3, <1>4, <1>5, <1>6, <1>7, <1>8, <1>9, <1>11, Zenon

\* A message about no portal.
LEMMA SendingPlain ==
    ASSUME IInv, NEW m \in Messages, m.type \in OfStatement \cup {"Flush", "Sync"}, m.flushed = FALSE,
           m.type = "Parse" => pending = NoPending,
           m.type = "Sync" => messages' > MaxMessages,
           NEW due \in Seq(Answers),
           message = NoMessage, ~ready, messages <= MaxMessages,
           message' = m, expected' = expected \o due, messages' \in Nat,
           UNCHANGED <<state, session, connected, tunnel, hung, ready, answers, ran, released, cycles>>,
           UNCHANGED <<bound, binds, wanted>>, DueAnswers' = due
    PROVE  IInv'
<1>0. m.type \notin OfPortal /\ m.type # "none"
    BY Zenon DEF OfPortal, OfStatement
<1>1. /\ Steady' /\ Failing' /\ TunnelsInStep'
      /\ Succeeded' <=> Succeeded
      /\ HeldAnswers' = HeldAnswers
      /\ \A b \in Burrows : /\ HeldRuns(b)' = HeldRuns(b) /\ HeldRuns(b) \in Seq(Nat)
                            /\ ran[b] \in Seq(Nat) /\ wanted[b] \in Seq(Nat)
                            /\ IsPrefix(ran[b], wanted[b])
      /\ Succeeded => expected' = (answers \o HeldAnswers) \o due
      /\ Succeeded => \A b \in Burrows : wanted[b] = ran[b] \o HeldRuns(b)
      /\ (bound' \in [Portals -> BoundPortals] /\ binds' \in Nat /\ wanted' \in [Burrows -> Seq(Nat)]
          => TypeOK')
    BY <1>0, Sending, Zenon
<1>2. TypeOK /\ TypeOK'
    BY <1>1, Zenon DEF IInv, TypeOK
<1>3. message.type = "none"
    BY Constituents, Zenon
<1>4. Holding'
    BY <1>3, Zenon DEF IInv, Holding, state
<1>5. InFlight'
    BY <1>0, Zenon DEF IInv, InFlight, state, OfPortal
<1>6. Known'
    BY <1>3, Zenon DEF IInv, Known, state
<1>7. Accounted'
  <2>1. \A b \in Burrows : DueRuns(b)' = <<>>
    BY <1>0, Zenon DEF DueRuns, OfPortal
  <2>2. \A b \in Burrows : (ran[b] \o HeldRuns(b)) \o <<>> = ran[b] \o HeldRuns(b)
    BY <1>1
  <2> QED BY <1>1, <2>1, <2>2, Zenon DEF Accounted
<1> QED BY <1>1, <1>2, <1>4, <1>5, <1>6, <1>7, Zenon DEF IInv

\* Parse.
LEMMA SendParseIInv ==
    ASSUME IInv, Ordinary, NEW q \in Statements, SendParse(q)
    PROVE  IInv'
<1> DEFINE m == Message("Parse", q)
           due == <<Answer("parse", 0)>>
<1>1. /\ pending = NoPending
      /\ message = NoMessage /\ ~ready /\ messages < MaxMessages
      /\ message' = m /\ expected' = expected \o due /\ messages' = messages + 1
      /\ UNCHANGED <<state, session, connected, tunnel, hung, ready, answers, ran, released, cycles>>
      /\ UNCHANGED <<bound, binds, wanted>>
    BY Zenon DEF SendParse, Send, InOrder, Ordinary
<1>2. /\ m \in Messages /\ m.type = "Parse" /\ m.flushed = FALSE
  <2>1. "Parse" \in OfStatement
    BY DEF OfStatement
  <2> QED BY <2>1, MessageFields, StatementMessage, Zenon
<1>3. messages <= MaxMessages /\ messages' \in Nat /\ 0 \in Nat
    BY <1>1, ProtocolAssumption DEF IInv, TypeOK
<1>4. due \in Seq(Answers)
    BY <1>3, AnswerKinds, Zenon
<1>5. DueAnswers' = due
    BY <1>1, <1>2, Zenon DEF DueAnswers
<1> HIDE DEF m, due
<1> QED BY <1>1, <1>2, <1>3, <1>4, <1>5, SendingPlain, Zenon DEF OfStatement

\* Describe of a statement.
LEMMA SendDescribeSIInv ==
    ASSUME IInv, NEW q \in Statements, SendDescribeS(q)
    PROVE  IInv'
<1> DEFINE m == Message("DescribeS", q)
           due == <<Answer("describe", 0)>>
<1>1. /\ message = NoMessage /\ ~ready /\ messages < MaxMessages
      /\ message' = m /\ expected' = expected \o due /\ messages' = messages + 1
      /\ UNCHANGED <<state, session, connected, tunnel, hung, ready, answers, ran, released, cycles>>
      /\ UNCHANGED <<bound, binds, wanted>>
    BY Zenon DEF SendDescribeS, Send
<1>2. /\ m \in Messages /\ m.type = "DescribeS" /\ m.flushed = FALSE
  <2>1. "DescribeS" \in OfStatement
    BY DEF OfStatement
  <2> QED BY <2>1, MessageFields, StatementMessage, Zenon
<1>3. messages <= MaxMessages /\ messages' \in Nat /\ 0 \in Nat
    BY <1>1, ProtocolAssumption DEF IInv, TypeOK
<1>4. due \in Seq(Answers)
    BY <1>3, AnswerKinds, Zenon
<1>5. DueAnswers' = due
    BY <1>1, <1>2, Zenon DEF DueAnswers
<1> HIDE DEF m, due
<1> QED BY <1>1, <1>2, <1>3, <1>4, <1>5, SendingPlain, Zenon DEF OfStatement

\* Close of a statement.
LEMMA SendCloseSIInv ==
    ASSUME IInv, NEW q \in Statements, SendCloseS(q)
    PROVE  IInv'
<1> DEFINE m == Message("CloseS", q)
           due == <<Answer("close", 0)>>
<1>1. /\ message = NoMessage /\ ~ready /\ messages < MaxMessages
      /\ message' = m /\ expected' = expected \o due /\ messages' = messages + 1
      /\ UNCHANGED <<state, session, connected, tunnel, hung, ready, answers, ran, released, cycles>>
      /\ UNCHANGED <<bound, binds, wanted>>
    BY Zenon DEF SendCloseS, Send
<1>2. /\ m \in Messages /\ m.type = "CloseS" /\ m.flushed = FALSE
  <2>1. "CloseS" \in OfStatement
    BY DEF OfStatement
  <2> QED BY <2>1, MessageFields, StatementMessage, Zenon
<1>3. messages <= MaxMessages /\ messages' \in Nat /\ 0 \in Nat
    BY <1>1, ProtocolAssumption DEF IInv, TypeOK
<1>4. due \in Seq(Answers)
    BY <1>3, AnswerKinds, Zenon
<1>5. DueAnswers' = due
    BY <1>1, <1>2, Zenon DEF DueAnswers
<1> HIDE DEF m, due
<1> QED BY <1>1, <1>2, <1>3, <1>4, <1>5, SendingPlain, Zenon DEF OfStatement

\* Flush, which PostgreSQL does not answer.
LEMMA SendFlushIInv == ASSUME IInv, SendFlush PROVE IInv'
<1> DEFINE m == Message("Flush", "none")
<1>1. /\ message = NoMessage /\ ~ready /\ messages < MaxMessages
      /\ message' = m /\ expected' = expected \o <<>> /\ messages' = messages + 1
      /\ UNCHANGED <<state, session, connected, tunnel, hung, ready, answers, ran, released, cycles>>
      /\ UNCHANGED <<bound, binds, wanted>>
    BY Zenon DEF SendFlush, Send
<1>2. /\ m \in Messages /\ m.type = "Flush" /\ m.flushed = FALSE
    BY Zenon DEF Message, Messages, OfPortal, OfStatement
<1>3. messages <= MaxMessages /\ messages' \in Nat /\ <<>> \in Seq(Answers)
    BY <1>1, ProtocolAssumption DEF IInv, TypeOK
<1>4. DueAnswers' = <<>>
    BY <1>1, <1>2, Zenon DEF DueAnswers
<1> HIDE DEF m
<1> QED BY <1>1, <1>2, <1>3, <1>4, SendingPlain, Zenon

\* Sync, which ends the cycle.
LEMMA SendSyncIInv == ASSUME IInv, SendSync PROVE IInv'
<1> DEFINE m == Message("Sync", "none")
<1>1. /\ message = NoMessage /\ ~ready /\ messages <= MaxMessages
      /\ message' = m /\ messages' = MaxMessages + 1
      /\ UNCHANGED <<state, session, connected, tunnel, hung, ready, answers, ran, released, cycles>>
      /\ UNCHANGED <<bound, binds, wanted>> /\ expected' = expected
    BY Zenon DEF SendSync, client
<1>2. /\ m \in Messages /\ m.type = "Sync" /\ m.flushed = FALSE
    BY Zenon DEF Message, Messages, OfPortal, OfStatement
<1>3. messages' \in Nat /\ messages' > MaxMessages /\ <<>> \in Seq(Answers)
    BY <1>1, ProtocolAssumption
<1>4. DueAnswers' = <<>>
    BY <1>1, <1>2, Zenon DEF DueAnswers
<1>5. expected' = expected \o <<>>
    BY <1>1 DEF IInv, TypeOK
<1> HIDE DEF m
<1> QED BY <1>1, <1>2, <1>3, <1>4, <1>5, SendingPlain, Zenon

\* Bind, with the next number of the cycle.
LEMMA SendBindIInv ==
    ASSUME IInv, Ordinary, NEW p \in Portals, NEW q \in Statements, SendBind(p, q)
    PROVE  IInv'
<1> DEFINE m == [Message("Bind", p) EXCEPT !.statement = q]
           due == <<Answer("bind", binds + 1)>>
           made == [bind |-> binds + 1, on |-> Route[q]]
<1>1. /\ pending = NoPending
      /\ message = NoMessage /\ ~ready /\ messages < MaxMessages
      /\ message' = m /\ expected' = expected \o due /\ messages' = messages + 1
      /\ UNCHANGED <<state, session, connected, tunnel, hung, ready, answers, ran, released, cycles>>
      /\ binds' = binds + 1 /\ bound' = [bound EXCEPT ![p] = made] /\ wanted' = wanted
    BY Zenon DEF SendBind, Send, InOrder, Ordinary
<1>2. /\ m \in Messages /\ m.type = "Bind" /\ m.flushed = FALSE /\ m.name = p /\ m.statement = q
    BY Zenon DEF Message, Messages, OfPortal, OfStatement
<1>3. /\ messages <= MaxMessages /\ messages' \in Nat
      /\ binds' \in Nat /\ binds' # 0 /\ TypeOK /\ message.type = "none"
  <2>1. TypeOK /\ messages \in Nat /\ binds \in Nat /\ message.type = "none"
    BY <1>1, Constituents, Zenon DEF IInv, TypeOK
  <2>2. messages < MaxMessages /\ messages' = messages + 1 /\ binds' = binds + 1 /\ MaxMessages \in Nat
    BY <1>1, ProtocolAssumption
  <2> QED BY <2>1, <2>2
<1>4. due \in Seq(Answers) /\ DueAnswers' = due
  <2>1. due \in Seq(Answers)
    BY <1>1, <1>3, AnswerKinds, Zenon
  <2>2. DueAnswers' = due
    BY <1>1, <1>2, Zenon DEF DueAnswers
  <2> QED BY <2>1, <2>2, Zenon
<1>5. made \in BoundPortals /\ made = [bind |-> binds', on |-> Route[q]]
    BY <1>1, <1>3, ProtocolAssumption, Zenon DEF BoundPortals
<1> HIDE DEF m, due, made
<1>6. /\ bound' \in [Portals -> BoundPortals] /\ bound'[p] = made
      /\ \A r \in Portals \ {p} : bound'[r] = bound[r]
    BY <1>1, <1>3, <1>5, Zenon DEF TypeOK
<1>7. /\ Steady' /\ Failing' /\ TunnelsInStep'
      /\ Succeeded' <=> Succeeded
      /\ HeldAnswers' = HeldAnswers
      /\ \A b \in Burrows : /\ HeldRuns(b)' = HeldRuns(b) /\ HeldRuns(b) \in Seq(Nat)
                            /\ ran[b] \in Seq(Nat) /\ wanted[b] \in Seq(Nat)
                            /\ IsPrefix(ran[b], wanted[b])
      /\ Succeeded => expected' = (answers \o HeldAnswers) \o due
      /\ Succeeded => \A b \in Burrows : wanted[b] = ran[b] \o HeldRuns(b)
      /\ (bound' \in [Portals -> BoundPortals] /\ binds' \in Nat /\ wanted' \in [Burrows -> Seq(Nat)]
          => TypeOK')
    BY <1>1, <1>2, <1>3, <1>4, Sending, Zenon
<1>8. TypeOK'
    BY <1>1, <1>3, <1>6, <1>7, Zenon DEF TypeOK
<1>9. Holding'
    BY <1>1, Zenon DEF Holding, state
<1>10. InFlight'
    BY <1>1, <1>2, <1>3, <1>5, <1>6, Zenon DEF InFlight, state
<1>11. Known'
    BY <1>1, <1>2, <1>3, <1>6, Zenon DEF IInv, Known, state
<1>12. Accounted'
  <2>1. \A b \in Burrows : DueRuns(b)' = <<>>
    BY <1>1, <1>2, Zenon DEF DueRuns
  <2>2. \A b \in Burrows : (ran[b] \o HeldRuns(b)) \o <<>> = ran[b] \o HeldRuns(b)
    BY <1>7
  <2> QED BY <1>1, <1>4, <1>7, <2>1, <2>2, Zenon DEF Accounted
<1> QED BY <1>7, <1>8, <1>9, <1>10, <1>11, <1>12, Zenon DEF IInv

\* Close of a portal.
LEMMA SendClosePIInv ==
    ASSUME IInv, NEW p \in Portals, SendCloseP(p)
    PROVE  IInv'
<1> DEFINE m == Message("CloseP", p)
           due == <<Answer("close", 0)>>
<1>1. /\ message = NoMessage /\ ~ready /\ messages < MaxMessages
      /\ message' = m /\ expected' = expected \o due /\ messages' = messages + 1
      /\ UNCHANGED <<state, session, connected, tunnel, hung, ready, answers, ran, released, cycles>>
      /\ binds' = binds /\ bound' = [bound EXCEPT ![p] = Unbound] /\ wanted' = wanted
    BY Zenon DEF SendCloseP, Send
<1>2. /\ m \in Messages /\ m.type = "CloseP" /\ m.flushed = FALSE /\ m.name = p
  <2>1. "CloseP" \in OfPortal \ {"Bind"}
    BY DEF OfPortal
  <2> QED BY <2>1, MessageFields, PortalMessage, Zenon
<1>3. /\ messages <= MaxMessages /\ messages' \in Nat /\ 0 \in Nat
      /\ TypeOK /\ message.type = "none"
  <2>1. TypeOK /\ messages \in Nat /\ message.type = "none"
    BY <1>1, Constituents, Zenon DEF IInv, TypeOK
  <2>2. messages < MaxMessages /\ messages' = messages + 1 /\ MaxMessages \in Nat
    BY <1>1, ProtocolAssumption
  <2> QED BY <2>1, <2>2
<1>4. due \in Seq(Answers) /\ DueAnswers' = due
  <2>1. due \in Seq(Answers)
    BY <1>3, AnswerKinds, Zenon
  <2>2. DueAnswers' = due
    BY <1>1, <1>2, Zenon DEF DueAnswers
  <2> QED BY <2>1, <2>2, Zenon
<1> HIDE DEF m, due
<1>6. /\ bound' \in [Portals -> BoundPortals] /\ bound'[p] = Unbound
      /\ \A r \in Portals \ {p} : bound'[r] = bound[r]
    BY <1>1, <1>3, Constituents, Zenon DEF TypeOK
<1>7. /\ Steady' /\ Failing' /\ TunnelsInStep'
      /\ Succeeded' <=> Succeeded
      /\ HeldAnswers' = HeldAnswers
      /\ \A b \in Burrows : /\ HeldRuns(b)' = HeldRuns(b) /\ HeldRuns(b) \in Seq(Nat)
                            /\ ran[b] \in Seq(Nat) /\ wanted[b] \in Seq(Nat)
                            /\ IsPrefix(ran[b], wanted[b])
      /\ Succeeded => expected' = (answers \o HeldAnswers) \o due
      /\ Succeeded => \A b \in Burrows : wanted[b] = ran[b] \o HeldRuns(b)
      /\ (bound' \in [Portals -> BoundPortals] /\ binds' \in Nat /\ wanted' \in [Burrows -> Seq(Nat)]
          => TypeOK')
    BY <1>1, <1>2, <1>3, <1>4, Sending, Zenon
<1>8. TypeOK'
    BY <1>1, <1>3, <1>6, <1>7, Zenon DEF TypeOK
<1>9. Holding'
    BY <1>1, <1>2, <1>3, <1>6, Zenon DEF IInv, Holding, state
<1>10. InFlight'
    BY <1>1, <1>2, <1>6, Zenon DEF InFlight, state
<1>11. Known'
    BY <1>1, <1>2, <1>3, <1>6, Zenon DEF IInv, Known, state
<1>12. Accounted'
  <2>1. \A b \in Burrows : DueRuns(b)' = <<>>
    BY <1>1, <1>2, Zenon DEF DueRuns
  <2>2. \A b \in Burrows : (ran[b] \o HeldRuns(b)) \o <<>> = ran[b] \o HeldRuns(b)
    BY <1>7
  <2> QED BY <1>1, <1>4, <1>7, <2>1, <2>2, Zenon DEF Accounted
<1> QED BY <1>7, <1>8, <1>9, <1>10, <1>11, <1>12, Zenon DEF IInv

\* Describe or Execute of a portal the client may use.
LEMMA SendingPortal ==
    ASSUME IInv, Ordinary, NEW p \in Portals, NEW t \in {"DescribeP", "Execute"}, NEW k,
           k = IF t = "Execute" THEN "result" ELSE "describe", SendPortal(t, p, k),
           wanted' \in [Burrows -> Seq(Nat)],
           \A b \in Burrows : wanted'[b] = wanted[b] \o DueRuns(b)'
    PROVE  IInv'
<1> DEFINE m == Message(t, p)
           n == bound[p].bind
           due == <<Answer(k, n)>>
<1>1. /\ message = NoMessage /\ ~ready /\ messages < MaxMessages
      /\ message' = m /\ expected' = expected \o due /\ messages' = messages + 1
      /\ UNCHANGED <<state, session, connected, tunnel, hung, ready, answers, ran, released, cycles>>
      /\ binds' = binds /\ bound' = bound
      /\ bound[p] # Unbound /\ Usable(p) /\ Answer(k, n) \notin Range(expected)
    BY Zenon DEF SendPortal, Send
<1>2. /\ m \in Messages /\ m.type = t /\ m.flushed = FALSE /\ m.name = p
  <2>1. t \in OfPortal \ {"Bind"}
    BY DEF OfPortal
  <2> QED BY <2>1, MessageFields, PortalMessage, Zenon
<1>3. /\ messages <= MaxMessages /\ messages' \in Nat
      /\ TypeOK /\ message.type = "none"
  <2>1. TypeOK /\ messages \in Nat /\ message.type = "none"
    BY <1>1, Constituents, Zenon DEF IInv, TypeOK
  <2>2. messages < MaxMessages /\ messages' = messages + 1 /\ MaxMessages \in Nat
    BY <1>1, ProtocolAssumption
  <2> QED BY <2>1, <2>2
<1>4. n \in Nat
    BY <1>3, Zenon DEF TypeOK, BoundPortals
<1>5. due \in Seq(Answers) /\ DueAnswers' = due
  <2>1. due \in Seq(Answers)
    BY <1>4, AnswerKinds, Zenon
  <2>2. DueAnswers' = due
    BY <1>1, <1>2, Zenon DEF DueAnswers
  <2> QED BY <2>1, <2>2, Zenon
<1> HIDE DEF m, due
<1>7. /\ Steady' /\ Failing' /\ TunnelsInStep'
      /\ ~failed <=> Succeeded
      /\ Succeeded' <=> Succeeded
      /\ HeldAnswers' = HeldAnswers /\ HeldAnswers \in Seq(Answers)
      /\ \A b \in Burrows : /\ HeldRuns(b)' = HeldRuns(b) /\ HeldRuns(b) \in Seq(Nat)
                            /\ ran[b] \in Seq(Nat) /\ wanted[b] \in Seq(Nat)
                            /\ IsPrefix(ran[b], wanted[b])
      /\ Succeeded => expected = answers \o HeldAnswers
      /\ Succeeded => expected' = (answers \o HeldAnswers) \o due
      /\ Succeeded => \A b \in Burrows : wanted[b] = ran[b] \o HeldRuns(b)
      /\ (bound' \in [Portals -> BoundPortals] /\ binds' \in Nat /\ wanted' \in [Burrows -> Seq(Nat)]
          => TypeOK')
    BY <1>1, <1>2, <1>3, <1>5, Sending, Zenon
<1>8. TypeOK'
    BY <1>1, <1>3, <1>7, Zenon DEF TypeOK
<1>9. Holding'
    BY <1>1, <1>2, <1>3, Zenon DEF IInv, Holding, state
<1>10. Known'
    BY <1>1, <1>2, <1>3, Zenon DEF IInv, Known, state
<1>11. InFlight'
  <2>1. ASSUME ~failed, pending.portal = p, t = "DescribeP" PROVE ~pending.describe
    <3>1. SUFFICES ASSUME pending.describe PROVE FALSE
      BY Zenon
    <3>2. pending # NoPending
      BY <2>1, ProtocolAssumption, Constituents, Zenon
    <3>3. bound[p] = [bind |-> pending.bind, on |-> pending.on]
      BY <1>3, <2>1, <3>2, Zenon DEF IInv, Holding
    <3>4. n = pending.bind
      BY <3>3
    <3> DEFINE B == <<Answer("bind", pending.bind)>>
               D == <<Answer("describe", pending.bind)>>
               X == IF pending.execute THEN <<Answer("result", pending.bind)>> ELSE <<>>
    <3>5. HeldAnswers = (B \o D) \o X
      BY <3>1, <3>2, Zenon DEF HeldAnswers
    <3>6. B \in Seq(Answers) /\ D \in Seq(Answers) /\ X \in Seq(Answers)
      <4>1. <<>> \in Seq(Answers)
        OBVIOUS
      <4> QED BY <1>4, <3>4, <4>1, AnswerKinds, Zenon
    <3>7. Answer(k, n) \in Range(D)
      <4>1. Answer(k, n) = Answer("describe", pending.bind)
        BY <2>1, <3>4, Zenon
      <4>2. 1 \in DOMAIN D /\ D[1] = Answer("describe", pending.bind)
        OBVIOUS
      <4> QED BY <4>1, <4>2, Zenon DEF Range
    <3> HIDE DEF B, D, X
    <3>8. Answer(k, n) \in Range(B \o D) /\ B \o D \in Seq(Answers)
      BY <3>6, <3>7, Joined, Zenon
    <3>9. Answer(k, n) \in Range(HeldAnswers)
      BY <3>5, <3>6, <3>8, Joined, Zenon
    <3>10. Answer(k, n) \in Range(answers \o HeldAnswers)
      BY <1>3, <1>7, <3>9, Joined, Zenon DEF TypeOK
    <3> QED BY <1>1, <1>7, <2>1, <3>10, Zenon
  <2>2. ~failed => n # 0
    BY <1>1, <1>3, Zenon DEF IInv, Known
  <2>3. ~failed => \/ pending.portal = p /\ ~pending.execute
                   \/ pending = NoPending /\ \A b \in bound[p].on : tunnel[b].portals[p] = bound[p].bind
    BY <1>1, Zenon DEF Usable, Ordinary
  <2>4. message'.type = t /\ message'.name = p /\ message'.flushed = FALSE
    BY <1>1, <1>2, Zenon
  <2>5. /\ bound' = bound /\ pending' = pending /\ failed' = failed /\ tunnel' = tunnel
    BY <1>1, Zenon DEF state
  <2> QED BY <2>1, <2>2, <2>3, <2>4, <2>5, Zenon DEF InFlight
<1>12. Accounted'
  <2>1. ASSUME NEW b \in Burrows PROVE DueRuns(b)' \in Seq(Nat)
    BY <1>8, DueTypes, <1>1, <1>2, <1>4 DEF DueRuns
  <2>2. \A b \in Burrows : IsPrefix(ran[b], wanted'[b])
    BY <1>7, <2>1, PrefixJoin, Zenon
  <2> QED BY <1>1, <1>5, <1>7, <2>2, Zenon DEF Accounted
<1> QED BY <1>7, <1>8, <1>9, <1>10, <1>11, <1>12, Zenon DEF IInv

\* Describe of a portal.
LEMMA SendDescribePIInv ==
    ASSUME IInv, Ordinary, NEW p \in Portals, SendDescribeP(p)
    PROVE  IInv'
<1>1. SendPortal("DescribeP", p, "describe") /\ wanted' = wanted
    BY Zenon DEF SendDescribeP
<1>2. message'.type = "DescribeP"
    BY <1>1, MessageFields, Zenon DEF SendPortal, Send
<1>3. \A b \in Burrows : DueRuns(b)' = <<>>
    BY <1>2, Zenon DEF DueRuns
<1>4. wanted \in [Burrows -> Seq(Nat)]
    BY Zenon DEF IInv, TypeOK
<1>5. \A b \in Burrows : wanted[b] \o <<>> = wanted[b]
    BY <1>4
<1> QED BY <1>1, <1>3, <1>4, <1>5, SendingPortal, Zenon

\* Execute.
LEMMA SendExecuteIInv ==
    ASSUME IInv, Ordinary, NEW p \in Portals, SendExecute(p)
    PROVE  IInv'
<1>1. /\ SendPortal("Execute", p, "result")
      /\ wanted' = [b \in Burrows |-> IF b \in bound[p].on THEN Append(wanted[b], bound[p].bind) ELSE wanted[b]]
    BY Zenon DEF SendExecute
<1>2. message'.type = "Execute" /\ message'.name = p /\ bound' = bound
    BY <1>1, MessageFields, Zenon DEF SendPortal, Send
<1>3. \A b \in Burrows : DueRuns(b)' = IF b \in bound[p].on THEN <<bound[p].bind>> ELSE <<>>
    BY <1>2, Zenon DEF DueRuns
<1>4. wanted \in [Burrows -> Seq(Nat)] /\ bound[p].bind \in Nat
    BY Zenon DEF IInv, TypeOK, BoundPortals
<1>5. ASSUME NEW b \in Burrows PROVE wanted'[b] = wanted[b] \o DueRuns(b)'
  <2>1. /\ wanted[b] \in Seq(Nat) /\ DueRuns(b)' = IF b \in bound[p].on THEN <<bound[p].bind>> ELSE <<>>
        /\ wanted'[b] = IF b \in bound[p].on THEN Append(wanted[b], bound[p].bind) ELSE wanted[b]
    BY <1>1, <1>3, <1>4, Zenon
  <2>2. wanted[b] \o <<>> = wanted[b]
    BY <2>1, ConcatEmptySeq, Zenon
  <2>3. Append(wanted[b], bound[p].bind) = wanted[b] \o <<bound[p].bind>>
    BY <1>4, <2>1, AppendIsConcat, Zenon
  <2> QED BY <2>1, <2>2, <2>3, Zenon
<1>6. wanted' \in [Burrows -> Seq(Nat)]
    BY <1>1, <1>4
<1> QED BY <1>1, <1>5, <1>6, SendingPortal, Zenon

\* The next cycle starts with nothing due.
LEMMA NextCycleIInv == ASSUME IInv, NextCycle PROVE IInv'
<1>1. /\ ready /\ ready' = FALSE
      /\ bound' = [p \in Portals |-> Unbound] /\ binds' = 0
      /\ expected' = <<>> /\ answers' = <<>>
      /\ ran' = [b \in Burrows |-> <<>>] /\ wanted' = ran'
      /\ messages' = 0 /\ cycles' = cycles + 1
      /\ released' = {}
      /\ UNCHANGED <<state, session, connected, tunnel, message, hung>>
    BY Zenon DEF NextCycle
<1>2. message = NoMessage /\ ~failed /\ pending = NoPending /\ TypeOK
    BY <1>1, Zenon DEF IInv, Failing
<1>3. /\ message'.type = "none" /\ ~message'.flushed /\ pending' = NoPending /\ ~failed'
    BY <1>1, <1>2, Constituents, Zenon DEF state
<1>4. TypeOK'
  <2>1. <<>> \in Seq(Answers) /\ <<>> \in Seq(Nat) /\ 0 \in Nat /\ cycles' \in Nat
    BY <1>1, <1>2 DEF TypeOK
  <2>2. /\ bound' \in [Portals -> BoundPortals]
        /\ wanted' \in [Burrows -> Seq(Nat)] /\ ran' \in [Burrows -> Seq(Nat)]
    BY <1>1, <2>1, Constituents, Zenon
  <2> QED BY <1>1, <1>2, <2>1, <2>2, Zenon DEF TypeOK, state
<1>5. Succeeded' /\ TunnelsInStep'
    BY <1>1 DEF Succeeded, Range, TunnelsInStep
<1>6. Steady'
    BY <1>1, Zenon DEF IInv, Steady, Astray, state
<1>7. Failing' /\ Holding' /\ Known'
    BY <1>1, <1>3, <1>5, Zenon DEF Failing, Holding, Known
<1>8. InFlight'
    BY <1>3, Zenon DEF InFlight
<1>9. Accounted'
  <2>1. DueAnswers' = <<>> /\ HeldAnswers' = <<>>
    BY <1>3, Constituents, Zenon DEF DueAnswers, HeldAnswers
  <2>2. \A b \in Burrows : DueRuns(b)' = <<>> /\ HeldRuns(b)' = <<>>
    BY <1>3, Constituents, Zenon DEF DueRuns, HeldRuns
  <2>3. \A b \in Burrows : ran'[b] = <<>> /\ wanted'[b] = <<>>
    BY <1>1, Zenon
  <2>4. <<>> \o <<>> = <<>> /\ IsPrefix(<<>>, <<>>)
    BY DEF IsPrefix
  <2> QED BY <1>1, <2>1, <2>2, <2>3, <2>4, Zenon DEF Accounted
<1> QED BY <1>4, <1>5, <1>6, <1>7, <1>8, <1>9, Zenon DEF IInv

-----------------------------------------------------------------------------
(* Handlers that answer without the Tunnels.                               *)

\* Once the handler is done there is no message.
LEMMA NoneInFlight ==
    ASSUME message' = NoMessage
    PROVE  /\ message'.type = "none" /\ ~message'.flushed /\ InFlight'
           /\ DueAnswers' = <<>> /\ \A b \in Burrows : DueRuns(b)' = <<>>
<1>1. message'.type = "none" /\ ~message'.flushed
    BY Constituents, Zenon
<1>2. InFlight'
    BY <1>1, Zenon DEF InFlight
<1>3. DueAnswers' = <<>> /\ \A b \in Burrows : DueRuns(b)' = <<>>
    BY <1>1, Zenon DEF DueAnswers, DueRuns
<1> QED BY <1>1, <1>2, <1>3, Zenon

\* A handler that fails, or that drops its message after a failure.
LEMMA AnsweringFails ==
    ASSUME IInv, message.type # "none", NEW as \in Seq(Answers), Answered(as),
           statements' \in SUBSET Statements, portals' = portals, pending' = NoPending,
           syncConsumed' = syncConsumed, failed' = TRUE,
           session' \in BOOLEAN, session => session', Error \in Range(as) \/ failed
    PROVE  IInv'
<1>1. /\ answers' = answers \o as /\ message' = NoMessage
      /\ UNCHANGED <<connected, tunnel, hung, ready, client, ran, released, messages, cycles>>
      /\ UNCHANGED <<bound, binds, expected, wanted>>
    BY Zenon DEF Answered, client
<1>2. TypeOK /\ ~ready /\ (~failed <=> Succeeded)
    BY Handled, Zenon DEF IInv
<1>3. InFlight'
    BY <1>1, NoneInFlight, Zenon
<1>4. answers' \in Seq(Answers) /\ ~Succeeded'
    BY <1>1, <1>2, Joined, Zenon DEF TypeOK, Succeeded
<1>5. TypeOK'
    BY <1>1, <1>2, <1>4, Constituents, Zenon DEF TypeOK
<1>6. Steady'
    BY <1>1, Zenon DEF IInv, Steady, Astray
<1>7. Failing' /\ Holding' /\ Known'
    BY <1>1, <1>2, <1>4, Zenon DEF Failing, Holding, Known
<1>8. Accounted' /\ TunnelsInStep'
    BY <1>1, <1>4, Zenon DEF IInv, Accounted, TunnelsInStep
<1> QED BY <1>3, <1>5, <1>6, <1>7, <1>8, Zenon DEF IInv

\* A handler that succeeds: it answers what is due, or adds it to what is held.
LEMMA Answering ==
    ASSUME IInv, message.type # "none", NEW as \in Seq(Answers), Answered(as),
           statements' \in SUBSET Statements, portals' \in [Portals -> BoundPortals],
           pending' \in Requests, syncConsumed' = syncConsumed, ~failed, failed' = failed,
           session' \in BOOLEAN, session => session', Error \notin Range(as),
           Holding', Known',
           as \o HeldAnswers' = HeldAnswers \o DueAnswers,
           \A b \in Burrows : HeldRuns(b)' = HeldRuns(b) \o DueRuns(b)
    PROVE  IInv'
<1>1. /\ answers' = answers \o as /\ message' = NoMessage
      /\ UNCHANGED <<connected, tunnel, hung, ready, client, ran, released, messages, cycles>>
      /\ UNCHANGED <<bound, binds, expected, wanted>>
    BY Zenon DEF Answered, client
<1>2. /\ TypeOK /\ ~ready /\ Succeeded /\ answers \in Seq(Answers)
      /\ HeldAnswers \in Seq(Answers) /\ DueAnswers \in Seq(Answers)
      /\ \A b \in Burrows : HeldRuns(b) \in Seq(Nat) /\ DueRuns(b) \in Seq(Nat) /\ ran[b] \in Seq(Nat)
    BY Handled, DueTypes, Zenon DEF IInv, TypeOK
<1>3. /\ InFlight' /\ DueAnswers' = <<>> /\ \A b \in Burrows : DueRuns(b)' = <<>>
    BY <1>1, NoneInFlight, Zenon
<1>4. answers' \in Seq(Answers) /\ Succeeded'
    BY <1>1, <1>2, Joined, Zenon DEF Succeeded
<1>5. TypeOK'
    BY <1>1, <1>2, <1>4, Constituents, Zenon DEF TypeOK
<1>6. Steady'
    BY <1>1, Zenon DEF IInv, Steady, Astray
<1>7. Failing'
    BY <1>1, <1>2, <1>4, Zenon DEF Failing
<1>8. HeldAnswers' \in Seq(Answers) /\ \A b \in Burrows : HeldRuns(b)' \in Seq(Nat)
  <2>1. (TypeOK
         => /\ HeldAnswers \in Seq(Answers) /\ DueAnswers \in Seq(Answers)
            /\ Error \notin Range(HeldAnswers)
            /\ \A b \in Burrows : HeldRuns(b) \in Seq(Nat) /\ DueRuns(b) \in Seq(Nat))'
    BY DueTypes, PTL
  <2> QED BY <1>5, <2>1, Zenon
<1>9. expected' = (answers' \o HeldAnswers') \o DueAnswers'
  <2>1. expected = (answers \o HeldAnswers) \o DueAnswers
    BY <1>2, Zenon DEF IInv, Accounted
  <2>2. (answers \o HeldAnswers) \o DueAnswers = answers \o (HeldAnswers \o DueAnswers)
    BY <1>2, AnswersAssociate, Zenon
  <2>3. (answers \o as) \o HeldAnswers' = answers \o (as \o HeldAnswers')
    BY <1>2, <1>8, AnswersAssociate, Zenon
  <2>4. answers' \o HeldAnswers' \in Seq(Answers)
    BY <1>4, <1>8, Joined, Zenon
  <2>5. (answers' \o HeldAnswers') \o <<>> = answers' \o HeldAnswers'
    BY <2>4, ConcatEmptySeq, Zenon
  <2> QED BY <1>1, <1>3, <2>1, <2>2, <2>3, <2>5, Zenon
<1>10. ASSUME NEW b \in Burrows PROVE wanted'[b] = (ran'[b] \o HeldRuns(b)') \o DueRuns(b)'
  <2>1. wanted[b] = (ran[b] \o HeldRuns(b)) \o DueRuns(b)
    BY <1>2, Zenon DEF IInv, Accounted
  <2>2. (ran[b] \o HeldRuns(b)) \o DueRuns(b) = ran[b] \o (HeldRuns(b) \o DueRuns(b))
    BY <1>2, RunsAssociate, Zenon
  <2>3. ran[b] \o HeldRuns(b)' \in Seq(Nat)
    BY <1>2, <1>8
  <2>4. (ran[b] \o HeldRuns(b)') \o <<>> = ran[b] \o HeldRuns(b)'
    BY <2>3, ConcatEmptySeq, Zenon
  <2> QED BY <1>1, <1>3, <2>1, <2>2, <2>4, Zenon
<1>11. Accounted' /\ TunnelsInStep'
    BY <1>1, <1>9, <1>10, Zenon DEF IInv, Accounted, TunnelsInStep
<1> QED BY <1>3, <1>5, <1>6, <1>7, <1>11, Zenon DEF IInv

\* After a failure messages are dropped.
LEMMA DroppedIInv == ASSUME IInv, Dropped PROVE IInv'
<1>1. /\ message.type # "none" /\ failed
      /\ session' = (session \/ message.type # "Parse") /\ Answered(<<>>) /\ UNCHANGED state
    BY Zenon DEF Dropped, Handling
<1>2. pending = NoPending /\ TypeOK
    BY <1>1, Handled, Zenon DEF IInv
<1>3. <<>> \in Seq(Answers)
    OBVIOUS
<1>4. session' \in BOOLEAN /\ (session => session')
    BY <1>1, <1>2, Zenon
<1>5. statements' \in SUBSET Statements /\ failed' = TRUE
    BY <1>1, <1>2, Zenon DEF state, TypeOK
<1>6. portals' = portals /\ pending' = NoPending /\ syncConsumed' = syncConsumed
    BY <1>1, <1>2, Zenon DEF state
<1> QED BY <1>1, <1>3, <1>4, <1>5, <1>6, AnsweringFails, Zenon

\* An error of the Proxy's own.
LEMMA ErrorAlone == <<Error>> \in Seq(Answers) /\ Error \in Range(<<Error>>)
<1>1. <<Error>> \in Seq(Answers)
    BY Constituents
<1>2. 1 \in DOMAIN <<Error>> /\ <<Error>>[1] = Error
    OBVIOUS
<1> QED BY <1>1, <1>2, Zenon DEF Range

\* Parse, answered by the Proxy.
LEMMA HandleParseIInv == ASSUME IInv, HandleParse PROVE IInv'
<1>1. /\ message.type = "Parse" /\ ~failed
      /\ UNCHANGED <<session, portals, pending, syncConsumed>>
      /\ \/ /\ statements' = statements \cup {message.name} /\ failed' = failed
            /\ Answered(<<Answer("parse", 0)>>)
         \/ failed' = TRUE /\ Answered(<<Error>>) /\ statements' = statements
    BY Zenon DEF HandleParse, Handling
<1>2. /\ TypeOK /\ pending = NoPending /\ pending' = NoPending /\ message.type # "none"
      /\ session' \in BOOLEAN /\ (session => session') /\ statements \in SUBSET Statements
      /\ message.name \in Statements /\ portals \in [Portals -> BoundPortals]
    BY <1>1, Zenon DEF IInv, InFlight, TypeOK, Messages, OfStatement
<1>3. CASE failed' = TRUE /\ Answered(<<Error>>) /\ statements' = statements
    BY <1>1, <1>2, <1>3, ErrorAlone, AnsweringFails, Zenon
<1>4. CASE statements' = statements \cup {message.name} /\ failed' = failed /\ Answered(<<Answer("parse", 0)>>)
  <2>0. 0 \in Nat
    BY Zenon
  <2>1. <<Answer("parse", 0)>> \in Seq(Answers) /\ Error \notin Range(<<Answer("parse", 0)>>)
    BY <2>0, AnswerKinds, Zenon
  <2>2. HeldAnswers = <<>> /\ HeldAnswers' = <<>> /\ DueAnswers = <<Answer("parse", 0)>>
    BY <1>1, <1>2, Zenon DEF HeldAnswers, DueAnswers
  <2>3. \A b \in Burrows : HeldRuns(b) = <<>> /\ HeldRuns(b)' = <<>> /\ DueRuns(b) = <<>>
    BY <1>1, <1>2, Constituents, Zenon DEF HeldRuns, DueRuns
  <2>4. /\ <<Answer("parse", 0)>> \o <<>> = <<>> \o <<Answer("parse", 0)>>
        /\ <<>> = <<>> \o <<>>
    BY <2>1, ConcatEmptySeq
  <2>5. Holding'
    BY <1>2, Zenon DEF Holding
  <2>6. message'.type = "none" /\ UNCHANGED <<bound, ready>>
    BY <1>4, Constituents, Zenon DEF Answered, client
  <2>7. Known'
    BY <1>1, <1>4, <2>6, Zenon DEF IInv, Known
  <2>8. statements' \in SUBSET Statements
    BY <1>2, <1>4, Zenon
  <2>9. /\ <<Answer("parse", 0)>> \o HeldAnswers' = HeldAnswers \o DueAnswers
        /\ \A b \in Burrows : HeldRuns(b)' = HeldRuns(b) \o DueRuns(b)
    BY <2>2, <2>3, <2>4, Zenon
  <2>10. portals' \in [Portals -> BoundPortals] /\ pending' \in Requests /\ syncConsumed' = syncConsumed
    BY <1>1, <1>2, Constituents, Zenon
  <2> QED BY <1>1, <1>2, <1>4, <2>1, <2>5, <2>7, <2>8, <2>9, <2>10, Answering, Zenon
<1> QED BY <1>1, <1>3, <1>4, Zenon

\* Bind, refused by the Proxy.
LEMMA RefuseBindIInv == ASSUME IInv, RefuseBind PROVE IInv'
<1>1. /\ message.type = "Bind" /\ ~failed /\ session' = TRUE /\ failed' = TRUE
      /\ Answered(<<Error>>) /\ UNCHANGED <<statements, portals, pending, syncConsumed>>
    BY Zenon DEF RefuseBind, Handling
<1>2. pending' = NoPending /\ message.type # "none" /\ statements' \in SUBSET Statements
    BY <1>1, Zenon DEF IInv, InFlight, TypeOK
<1> QED BY <1>1, <1>2, ErrorAlone, AnsweringFails, Zenon

\* A request with its Execute.
LEMMA WithExecute ==
    ASSUME NEW r \in Requests, NEW x, x = [r EXCEPT !.execute = TRUE]
    PROVE  /\ x \in Requests /\ x.portal = r.portal /\ x.bind = r.bind /\ x.on = r.on
           /\ x.execute = TRUE /\ x.describe = r.describe
<1>1. x \in Requests
    BY Zenon DEF Requests
<1>2. x.portal = r.portal /\ x.bind = r.bind /\ x.on = r.on
    BY Zenon DEF Requests
<1>3. x.execute = TRUE /\ x.describe = r.describe
    BY Zenon DEF Requests
<1> QED BY <1>1, <1>2, <1>3, Zenon

\* A request with its Describe.
LEMMA WithDescribe ==
    ASSUME NEW r \in Requests, NEW x, x = [r EXCEPT !.describe = TRUE]
    PROVE  /\ x \in Requests /\ x.portal = r.portal /\ x.bind = r.bind /\ x.on = r.on
           /\ x.execute = r.execute /\ x.describe = TRUE
<1>1. x \in Requests
    BY Zenon DEF Requests
<1>2. x.portal = r.portal /\ x.bind = r.bind /\ x.on = r.on
    BY Zenon DEF Requests
<1>3. x.execute = r.execute /\ x.describe = TRUE
    BY Zenon DEF Requests
<1> QED BY <1>1, <1>2, <1>3, Zenon

\* Describe and Execute of the portal held back.
LEMMA HandleHeldBackIInv == ASSUME IInv, HandleHeldBack PROVE IInv'
<1> DEFINE p == message.name
           n == pending.bind
<1>1. /\ message.type \in {"DescribeP", "Execute"} /\ ~failed
      /\ pending # NoPending /\ pending.portal = p
      /\ pending' = IF message.type = "Execute" THEN [pending EXCEPT !.execute = TRUE]
                                                ELSE [pending EXCEPT !.describe = TRUE]
      /\ session' = TRUE /\ Answered(<<>>)
      /\ UNCHANGED <<statements, portals, failed, syncConsumed>>
    BY Zenon DEF HandleHeldBack, Handling
<1>2. /\ TypeOK /\ pending \in Requests /\ message.type # "none"
      /\ statements \in SUBSET Statements /\ portals \in [Portals -> BoundPortals]
    BY <1>1, Zenon DEF IInv, TypeOK
<1>3. /\ pending.portal \in Portals /\ n # 0 /\ pending.on # {}
      /\ bound[p] = [bind |-> n, on |-> pending.on]
    BY <1>1, Zenon DEF IInv, Holding
<1>4. ~pending.execute /\ (message.type = "DescribeP" => ~pending.describe)
    BY <1>1, Zenon DEF IInv, InFlight
<1>5. /\ pending' \in Requests /\ pending'.portal = p /\ pending'.bind = n /\ pending'.on = pending.on
      /\ pending'.execute <=> message.type = "Execute"
      /\ pending'.describe <=> pending.describe \/ message.type = "DescribeP"
  <2>1. CASE message.type = "Execute"
    <3>1. pending' = [pending EXCEPT !.execute = TRUE]
      BY <1>1, <2>1, Zenon
    <3>2. /\ pending' \in Requests /\ pending'.portal = p /\ pending'.bind = n /\ pending'.on = pending.on
          /\ pending'.execute = TRUE /\ pending'.describe = pending.describe
      BY <1>1, <1>2, <3>1, WithExecute, Zenon
    <3> QED BY <2>1, <3>2, Zenon
  <2>2. CASE message.type = "DescribeP"
    <3>1. pending' = [pending EXCEPT !.describe = TRUE]
      BY <1>1, <2>2, Zenon
    <3>2. /\ pending' \in Requests /\ pending'.portal = p /\ pending'.bind = n /\ pending'.on = pending.on
          /\ pending'.execute = pending.execute /\ pending'.describe = TRUE
      BY <1>1, <1>2, <3>1, WithDescribe, Zenon
    <3> QED BY <1>4, <2>2, <3>2, Zenon
  <2> QED BY <1>1, <2>1, <2>2, Zenon
<1>6. n \in Nat /\ bound[p].bind = n /\ bound[p].on = pending.on /\ pending' # NoPending
  <2>1. n \in Nat /\ bound[p].bind = n /\ bound[p].on = pending.on
    BY <1>2, <1>3 DEF Requests
  <2>2. pending' # NoPending
    BY <1>1, <1>3, <1>5, ProtocolAssumption, Constituents, Zenon
  <2> QED BY <2>1, <2>2, Zenon
<1>7. /\ UNCHANGED <<bound, ready>> /\ message'.type = "none"
    BY <1>1, Constituents, Zenon DEF Answered, client
<1>8. Holding'
    BY <1>1, <1>3, <1>5, <1>6, <1>7, Zenon DEF Holding
<1>9. Known'
    BY <1>1, <1>7, Zenon DEF IInv, Known
<1>10. <<>> \o HeldAnswers' = HeldAnswers \o DueAnswers
  <2> DEFINE B == <<Answer("bind", n)>>
             D == <<Answer("describe", n)>>
             X == <<Answer("result", n)>>
  <2>1. HeldAnswers = (B \o (IF pending.describe THEN D ELSE <<>>)) \o <<>>
    BY <1>1, <1>4, Zenon DEF HeldAnswers
  <2>2. HeldAnswers' = (B \o (IF pending'.describe THEN D ELSE <<>>))
                       \o (IF message.type = "Execute" THEN X ELSE <<>>)
    BY <1>5, <1>6, Zenon DEF HeldAnswers
  <2>3. DueAnswers = IF message.type = "Execute" THEN X ELSE D
    BY <1>1, <1>6, Zenon DEF DueAnswers
  <2>4. B \in Seq(Answers) /\ D \in Seq(Answers) /\ X \in Seq(Answers)
    BY <1>6, AnswerKinds, Zenon
  <2> HIDE DEF B, D, X
  <2>5. /\ B \o <<>> = B /\ B \o D \in Seq(Answers)
    BY <2>4
  <2>6. /\ (B \o D) \o <<>> = B \o D /\ <<>> \o (B \o D) = B \o D
        /\ <<>> \o ((B \o D) \o X) = (B \o D) \o X
        /\ <<>> \o (B \o X) = B \o X
    BY <2>4, <2>5
  <2>7. CASE message.type = "Execute"
    BY <1>5, <2>1, <2>2, <2>3, <2>5, <2>6, <2>7, Zenon
  <2>8. CASE message.type = "DescribeP"
    <3>1. HeldAnswers = B /\ HeldAnswers' = (B \o D) \o <<>> /\ DueAnswers = D
      BY <1>4, <1>5, <2>1, <2>2, <2>3, <2>5, <2>8, Zenon
    <3> QED BY <2>6, <3>1, Zenon
  <2> QED BY <1>1, <2>7, <2>8, Zenon
<1>11. ASSUME NEW b \in Burrows PROVE HeldRuns(b)' = HeldRuns(b) \o DueRuns(b)
  <2>1. HeldRuns(b) = <<>>
    BY <1>4, Zenon DEF HeldRuns
  <2>2. HeldRuns(b)' = IF message.type = "Execute" /\ b \in pending.on THEN <<n>> ELSE <<>>
    BY <1>5, Zenon DEF HeldRuns
  <2>3. DueRuns(b) = IF message.type = "Execute" /\ b \in pending.on THEN <<n>> ELSE <<>>
    BY <1>6, Zenon DEF DueRuns
  <2> QED BY <1>6, <2>1, <2>2, <2>3
<1>12. <<>> \in Seq(Answers) /\ Error \notin Range(<<>>)
    BY DEF Range
<1> HIDE DEF p, n
<1>13. /\ statements' \in SUBSET Statements /\ portals' \in [Portals -> BoundPortals]
       /\ session' \in BOOLEAN /\ (session => session') /\ failed' = failed /\ syncConsumed' = syncConsumed
    BY <1>1, <1>2, Zenon
<1> QED BY <1>1, <1>2, <1>5, <1>8, <1>9, <1>10, <1>11, <1>12, <1>13, Answering, Zenon

\* With nothing held back, a handler that answers what is due.
LEMMA AnsweringAtOnce ==
    ASSUME IInv, message.type \in {"CloseS", "Flush"}, NEW as \in Seq(Answers), Answered(as),
           as = DueAnswers, Error \notin Range(as), pending = NoPending, ~failed,
           UNCHANGED <<portals, pending, failed, syncConsumed>>,
           statements' \in SUBSET Statements, session' \in BOOLEAN, session => session'
    PROVE  IInv'
<1>1. message.type # "none" /\ message.type # "Bind" /\ message.type # "Execute"
    BY Zenon
<1>2. HeldAnswers = <<>> /\ HeldAnswers' = <<>>
    BY Zenon DEF HeldAnswers
<1>3. \A b \in Burrows : HeldRuns(b) = <<>> /\ HeldRuns(b)' = <<>> /\ DueRuns(b) = <<>>
    BY <1>1, Constituents, Zenon DEF HeldRuns, DueRuns
<1>4. as \o <<>> = as /\ <<>> \o as = as /\ <<>> \o <<>> = <<>>
    BY ConcatEmptySeq
<1>5. Holding'
    BY Zenon DEF Holding
<1>6. message'.type = "none" /\ UNCHANGED <<bound, ready>>
    BY Constituents, Zenon DEF Answered, client
<1>7. Known'
    BY <1>1, <1>6, Zenon DEF IInv, Known
<1>8. /\ as \o HeldAnswers' = HeldAnswers \o DueAnswers
      /\ \A b \in Burrows : HeldRuns(b)' = HeldRuns(b) \o DueRuns(b)
    BY <1>2, <1>3, <1>4, Zenon
<1>9. portals' \in [Portals -> BoundPortals] /\ pending' \in Requests
    BY Constituents, Zenon DEF IInv, TypeOK
<1> QED BY <1>1, <1>5, <1>7, <1>8, <1>9, Answering, Zenon

\* Close of a statement, answered by the Proxy.
LEMMA HandleCloseSIInv == ASSUME IInv, HandleCloseS PROVE IInv'
<1> DEFINE as == <<Answer("close", 0)>>
<1>1. /\ message.type = "CloseS" /\ pending = NoPending
      /\ session' = TRUE /\ statements' = statements \ {message.name} /\ Answered(as)
      /\ UNCHANGED <<portals, pending, failed, syncConsumed>>
    BY Zenon DEF HandleCloseS, Handling, Direct
<1>2. /\ message.type \in {"CloseS", "Flush"} /\ message.type # "none" /\ 0 \in Nat
      /\ statements' \in SUBSET Statements /\ failed \in BOOLEAN
    BY <1>1, Zenon DEF IInv, TypeOK
<1>3. as \in Seq(Answers) /\ Error \notin Range(as)
    BY <1>2, AnswerKinds, Zenon
<1>4. as = DueAnswers
    BY <1>1, Zenon DEF DueAnswers
<1> HIDE DEF as
<1>5. CASE failed
    BY <1>1, <1>2, <1>3, <1>5, AnsweringFails, Zenon
<1>6. CASE ~failed
    BY <1>1, <1>2, <1>3, <1>4, <1>6, AnsweringAtOnce, Zenon
<1> QED BY <1>5, <1>6, Zenon

\* Flush with nothing held back.
LEMMA FlushNothing ==
    ASSUME IInv, message.type = "Flush", ~(session /\ pending # NoPending),
           Answered(<<>>), UNCHANGED state, UNCHANGED session
    PROVE  IInv'
<1>1. pending = NoPending
    BY Zenon DEF IInv, Holding
<1>2. /\ message.type \in {"CloseS", "Flush"} /\ message.type # "none"
      /\ <<>> \in Seq(Answers) /\ Error \notin Range(<<>>) /\ <<>> = DueAnswers
    BY DEF Range, DueAnswers
<1>3. /\ UNCHANGED <<portals, pending, failed, syncConsumed>> /\ statements' \in SUBSET Statements
      /\ failed \in BOOLEAN /\ session' \in BOOLEAN
    BY Zenon DEF state, IInv, TypeOK
<1>4. CASE failed
    BY <1>1, <1>2, <1>3, <1>4, AnsweringFails, Zenon
<1>5. CASE ~failed
    BY <1>1, <1>2, <1>3, <1>5, AnsweringAtOnce, Zenon
<1> QED BY <1>4, <1>5, Zenon

\* A Bind that is held back.
LEMMA HoldingBack ==
    ASSUME IInv, message.type = "Bind", ~failed, session' = TRUE, pending = NoPending,
           portals' = [portals EXCEPT ![message.name] = [bind |-> binds, on |-> Route[message.statement]]],
           pending' = [NoPending EXCEPT !.portal = message.name, !.bind = binds, !.on = Route[message.statement]],
           Answered(<<>>), UNCHANGED <<failed, statements, syncConsumed>>
    PROVE  IInv'
<1> DEFINE p == message.name
           on == Route[message.statement]
<1>1. /\ TypeOK /\ p \in Portals /\ on \in SUBSET Burrows /\ on # {} /\ binds \in Nat
      /\ portals \in [Portals -> BoundPortals] /\ message.type # "none"
      /\ statements' \in SUBSET Statements /\ session' \in BOOLEAN
    BY ProtocolAssumption, Zenon DEF IInv, TypeOK, Messages, OfPortal
<1>2. bound[p] = [bind |-> binds, on |-> on] /\ binds # 0
    BY Zenon DEF IInv, InFlight
<1>3. pending' \in Requests
    BY <1>1, Zenon DEF NoPending, Requests
<1>4. /\ pending'.portal = p /\ pending'.bind = binds /\ pending'.on = on
      /\ pending'.describe = FALSE /\ pending'.execute = FALSE /\ pending' \in Requests
    BY <1>3, Zenon DEF NoPending
<1>5. [bind |-> binds, on |-> on] \in BoundPortals /\ [bind |-> binds, on |-> on] # Unbound
    BY <1>1, <1>2, Zenon DEF BoundPortals, Unbound
<1>6. /\ portals' \in [Portals -> BoundPortals] /\ portals'[p] = bound[p]
      /\ \A r \in Portals \ {p} : portals'[r] = portals[r]
    BY <1>1, <1>2, <1>5, Zenon
<1>7. pending' # NoPending
    BY <1>1, <1>4, ProtocolAssumption, Constituents, Zenon
<1>8. message'.type = "none" /\ UNCHANGED <<bound, ready>>
    BY Constituents, Zenon DEF Answered, client
<1>9. bound[p].bind = binds
    BY <1>2
<1> HIDE DEF p, on
<1>10. Holding'
    BY <1>1, <1>2, <1>4, <1>7, <1>8, Zenon DEF Holding
<1>11. Known'
    BY <1>1, <1>2, <1>6, <1>8, <1>9, Zenon DEF IInv, Known, p
<1>12. <<>> \o HeldAnswers' = HeldAnswers \o DueAnswers
  <2>1. <<Answer("bind", binds)>> \in Seq(Answers)
    BY <1>1, AnswerKinds, Zenon
  <2>2. HeldAnswers' = (<<Answer("bind", binds)>> \o <<>>) \o <<>>
    BY <1>4, <1>7, Zenon DEF HeldAnswers
  <2>3. HeldAnswers = <<>> /\ DueAnswers = <<Answer("bind", binds)>>
    BY Zenon DEF HeldAnswers, DueAnswers
  <2> QED BY <2>1, <2>2, <2>3
<1>13. \A b \in Burrows : HeldRuns(b)' = HeldRuns(b) \o DueRuns(b)
  <2>1. \A b \in Burrows : HeldRuns(b) = <<>> /\ HeldRuns(b)' = <<>> /\ DueRuns(b) = <<>>
    BY <1>4, Constituents, Zenon DEF HeldRuns, DueRuns
  <2>2. <<>> \o <<>> = <<>>
    OBVIOUS
  <2> QED BY <2>1, <2>2, Zenon
<1>14. <<>> \in Seq(Answers) /\ Error \notin Range(<<>>)
    BY DEF Range
<1> QED BY <1>1, <1>4, <1>6, <1>10, <1>11, <1>12, <1>13, <1>14, Answering, Zenon

-----------------------------------------------------------------------------
(* Handlers that exchange one message with the Tunnels.                    *)

\* A Tunnel that breaks.
LEMMA Breaking ==
    ASSUME NEW t \in TunnelStates
    PROVE  /\ [t EXCEPT !.broken = TRUE] \in TunnelStates
           /\ [t EXCEPT !.broken = TRUE].broken = TRUE
<1>1. [t EXCEPT !.broken = TRUE] \in TunnelStates
    BY Zenon DEF TunnelStates
<1>2. [t EXCEPT !.broken = TRUE].broken = TRUE
    BY Zenon DEF TunnelStates
<1> QED BY <1>1, <1>2, Zenon

\* A Tunnel whose answers are read, or left unread.
LEMMA Reading ==
    \A t \in TunnelStates, v \in BOOLEAN : \A x :
      x = [t EXCEPT !.unread = v]
      => x \in TunnelStates /\ x.skipping = t.skipping /\ x.broken = t.broken /\ x.unread = v
<1> SUFFICES ASSUME NEW t \in TunnelStates, NEW v \in BOOLEAN, NEW x, x = [t EXCEPT !.unread = v]
             PROVE  x \in TunnelStates /\ x.skipping = t.skipping /\ x.broken = t.broken /\ x.unread = v
    BY Zenon
<1>1. x \in TunnelStates
    BY Zenon DEF TunnelStates
<1>2. x.skipping = t.skipping /\ x.broken = t.broken /\ x.unread = v
    BY Zenon DEF TunnelStates
<1> QED BY <1>1, <1>2, Zenon

\* A Tunnel after Sync.
LEMMA Syncing ==
    ASSUME NEW t \in TunnelStates
    PROVE  /\ Synced(t) \in TunnelStates
           /\ Synced(t).skipping = FALSE /\ Synced(t).broken = t.broken /\ Synced(t).unread = t.unread
<1>1. [p \in Portals |-> 0] \in [Portals -> Nat]
    BY Zenon
<1>2. Synced(t) \in TunnelStates
    BY <1>1, Zenon DEF TunnelStates, Synced
<1>3. Synced(t).skipping = FALSE /\ Synced(t).broken = t.broken /\ Synced(t).unread = t.unread
    BY Zenon DEF TunnelStates, Synced
<1> QED BY <1>2, <1>3, Zenon

\* Every Tunnel of an exchange is sent it when each can be opened.
LEMMA AllAreSent ==
    ASSUME NEW on, NEW outs, "unsent" \notin outs, NEW o \in Ends(on, outs)
    PROVE  o \in [on -> outs] /\ Sent(on, o) = on
    BY Zenon DEF Ends, Sent

\* Ordinary Tunnels can be opened.
LEMMA Opens == ASSUME Ordinary PROVE "unsent" \notin Outcomes
    BY Zenon DEF Ordinary, Outcomes

\* How an exchange ends: either all answer alike, or the handler fails; a Tunnel then
\* breaks, or PostgreSQL has refused the message.
RelayOutcome(on, reply, runs) ==
    /\ hung' = hung /\ connected' = connected \cup on
    /\ tunnel' \in [Burrows -> TunnelStates] /\ ran' \in [Burrows -> Seq(Nat)]
    /\ \A b \in Burrows : tunnel'[b].broken => b \in on
    /\ (\A b \in Burrows : ~tunnel'[b].broken)
       => \A b \in Burrows : ~tunnel'[b].unread /\ (tunnel'[b].skipping => ~syncConsumed)
    /\ \/ /\ failed' = failed /\ answers' = Append(answers, reply)
          /\ \A b \in Burrows : ran'[b] = IF b \in on THEN ran[b] \o runs ELSE ran[b]
          /\ \A b \in Burrows : ~tunnel'[b].skipping /\ ~tunnel'[b].unread /\ ~tunnel'[b].broken
       \/ /\ failed' = TRUE /\ answers' = Append(answers, Error)
          /\ \A b \in Burrows : ran'[b] = ran[b] \/ (b \in on /\ ran'[b] = ran[b] \o runs)

\* exchange and relayUniform end so, with every Tunnel in step.
LEMMA RelayEffect ==
    ASSUME IInv, Ordinary, message.type # "none", ~failed \/ message.flushed,
           NEW on \in SUBSET Burrows, NEW outs \in SUBSET Outcomes,
           NEW valid, on \subseteq valid, NEW after \in [Burrows -> TunnelStates],
           \A b \in on : after[b].skipping = tunnel[b].skipping /\ after[b].broken = tunnel[b].broken,
           NEW reply \in Answers, NEW runs \in Seq(Nat),
           Relay(on, outs, valid, after, reply, runs)
    PROVE  RelayOutcome(on, reply, runs)
<1>0. /\ TypeOK /\ tunnel \in [Burrows -> TunnelStates] /\ ran \in [Burrows -> Seq(Nat)]
      /\ failed \in BOOLEAN /\ syncConsumed \in BOOLEAN
    BY Zenon DEF IInv, TypeOK
<1>1. \A b \in Burrows : ~tunnel[b].skipping /\ ~tunnel[b].unread /\ ~tunnel[b].broken
    BY Handled, Zenon DEF Astray
<1>2. ~ \E b \in on : tunnel[b].skipping
    BY <1>1, Zenon
<1> DEFINE lost(o) == {b \in Sent(on, o) : o[b] = "lost"}
           fine(o) == {b \in Sent(on, o) : o[b] = "ok" /\ b \in valid}
           unread(o, b) == Sent(on, o) # on \/ Behind(b, lost(o))
<1>3. PICK o \in Ends(on, outs) :
        /\ connected' = connected \cup Sent(on, o)
        /\ hung' = (Sent(on, o) = on /\ \E b \in on : tunnel[b].skipping)
        /\ ~hung'
           => /\ tunnel' = [b \in Burrows |->
                   IF b \notin Sent(on, o) THEN tunnel[b]
                   ELSE IF b \in lost(o) THEN [tunnel[b] EXCEPT !.broken = TRUE]
                   ELSE IF b \in fine(o) THEN [after[b] EXCEPT !.unread = unread(o, b)]
                   ELSE [tunnel[b] EXCEPT !.skipping = TRUE, !.unread = unread(o, b)]]
              /\ ran' = [b \in Burrows |-> IF b \in fine(o) THEN ran[b] \o runs ELSE ran[b]]
              /\ answers' = Append(answers, IF fine(o) = on THEN reply ELSE Error)
              /\ failed' = (failed \/ fine(o) # on)
    BY Zenon DEF Relay
<1>4. o \in [on -> outs] /\ Sent(on, o) = on
    BY AllAreSent, Opens, Zenon
<1> DEFINE L == lost(o)
           F == fine(o)
           U(b) == unread(o, b)
<1>41. ~hung' /\ hung' = hung /\ connected' = connected \cup on
  <2>1. hung = FALSE
    BY Handled, Zenon DEF IInv, TypeOK
  <2>2. hung' = FALSE
    BY <1>2, <1>3, <1>4, Zenon
  <2>3. connected' = connected \cup on
    BY <1>3, <1>4, Zenon
  <2> QED BY <2>1, <2>2, <2>3, Zenon
<1>5. /\ \A b \in Burrows : b \notin on => tunnel'[b] = tunnel[b]
      /\ \A b \in L : tunnel'[b] = [tunnel[b] EXCEPT !.broken = TRUE]
      /\ \A b \in F \ L : tunnel'[b] = [after[b] EXCEPT !.unread = U(b)]
      /\ \A b \in on \ (L \cup F) : tunnel'[b] = [tunnel[b] EXCEPT !.skipping = TRUE, !.unread = U(b)]
    BY <1>3, <1>4, <1>41, Zenon
<1>6. /\ ran' = [b \in Burrows |-> IF b \in F THEN ran[b] \o runs ELSE ran[b]]
      /\ answers' = Append(answers, IF F = on THEN reply ELSE Error)
      /\ failed' = (failed \/ F # on)
      /\ DOMAIN tunnel' = Burrows /\ tunnel' = [b \in Burrows |-> tunnel'[b]]
    BY <1>3, <1>41, Zenon
<1>7. /\ L \subseteq on /\ F \subseteq on /\ L \cap F = {}
      /\ \A b \in on \ (L \cup F) : ~syncConsumed
  <2>1. L \subseteq on /\ F \subseteq on /\ L \cap F = {}
    BY <1>4, Zenon
  <2>2. ASSUME NEW b \in on, b \notin L, b \notin F PROVE ~syncConsumed
    <3>1. o[b] \in Outcomes /\ o[b] # "ok" /\ o[b] # "lost"
      BY <1>4, <2>2, Zenon
    <3> QED BY <1>0, <3>1, Opens, Zenon DEF Outcomes, Ordinary
  <2> QED BY <2>1, <2>2, Zenon
<1>8. \A b : U(b) \in BOOLEAN /\ (U(b) => L # {})
    BY <1>4, Zenon DEF Behind
<1> HIDE DEF lost, fine, unread, L, F, U
<1>9. ASSUME NEW b \in Burrows
      PROVE  /\ tunnel'[b] \in TunnelStates
             /\ tunnel'[b].broken <=> b \in L
             /\ tunnel'[b].unread => L # {}
             /\ b \notin L /\ tunnel'[b].skipping => b \in on \ (L \cup F)
  <2>0. tunnel[b] \in TunnelStates /\ after[b] \in TunnelStates
    BY <1>0, Zenon
  <2>1. CASE b \notin on
    BY <1>1, <1>5, <1>7, <2>0, <2>1, Zenon
  <2>2. CASE b \in L
    BY <1>5, <2>0, <2>2, Breaking, Zenon
  <2>3. CASE b \in F
    <3>1. /\ tunnel'[b] = [after[b] EXCEPT !.unread = U(b)] /\ b \notin L
          /\ b \in on /\ ~after[b].skipping /\ ~after[b].broken
      BY <1>1, <1>5, <1>7, <2>3, Zenon
    <3>2. PICK v \in BOOLEAN : v = U(b) /\ (v => L # {})
      BY <1>8, Zenon
    <3>3. tunnel'[b] = [after[b] EXCEPT !.unread = v]
      BY <3>1, <3>2, Zenon
    <3>4. /\ tunnel'[b] \in TunnelStates /\ tunnel'[b].skipping = after[b].skipping
          /\ tunnel'[b].broken = after[b].broken /\ tunnel'[b].unread = v
      BY <2>0, <3>3, Reading
    <3> QED BY <3>1, <3>2, <3>4, Zenon
  <2>4. CASE b \in on \ (L \cup F)
    <3>1. tunnel'[b] = [tunnel[b] EXCEPT !.skipping = TRUE, !.unread = U(b)]
      BY <1>5, <2>4, Zenon
    <3>2. PICK v \in BOOLEAN : v = U(b) /\ (v => L # {})
      BY <1>8, Zenon
    <3>3. tunnel'[b] = [tunnel[b] EXCEPT !.skipping = TRUE, !.unread = v]
      BY <3>1, <3>2, Zenon
    <3>4. /\ tunnel'[b] \in TunnelStates
          /\ tunnel'[b].broken = tunnel[b].broken /\ tunnel'[b].unread = v
      <4>1. tunnel'[b] \in TunnelStates
        BY <2>0, <3>3, Zenon DEF TunnelStates
      <4>2. tunnel'[b].broken = tunnel[b].broken /\ tunnel'[b].unread = v
        BY <2>0, <3>3, Zenon DEF TunnelStates
      <4> QED BY <4>1, <4>2, Zenon
    <3> QED BY <1>1, <2>4, <3>2, <3>4, Zenon
  <2> QED BY <2>1, <2>2, <2>3, <2>4, Zenon
<1>10. tunnel' \in [Burrows -> TunnelStates]
    BY <1>6, <1>9, Zenon
<1>11. ASSUME NEW b \in Burrows
       PROVE  /\ ran[b] \o runs \in Seq(Nat) /\ ran[b] \in Seq(Nat)
              /\ ran'[b] = IF b \in F THEN ran[b] \o runs ELSE ran[b]
  <2>1. ran[b] \in Seq(Nat) /\ ran'[b] = IF b \in F THEN ran[b] \o runs ELSE ran[b]
    BY <1>0, <1>6, Zenon
  <2>2. ran[b] \o runs \in Seq(Nat)
    BY <2>1
  <2> QED BY <2>1, <2>2, Zenon
<1>12. ran' \in [Burrows -> Seq(Nat)]
    BY <1>6, <1>11, Zenon
<1>13. /\ \A b \in Burrows : tunnel'[b].broken => b \in on
       /\ (\A b \in Burrows : ~tunnel'[b].broken)
          => \A b \in Burrows : ~tunnel'[b].unread /\ (tunnel'[b].skipping => ~syncConsumed)
  <2>1. \A b \in Burrows : tunnel'[b].broken => b \in on
    BY <1>7, <1>9, Zenon
  <2>2. ASSUME \A b \in Burrows : ~tunnel'[b].broken, NEW b \in Burrows
        PROVE  ~tunnel'[b].unread /\ (tunnel'[b].skipping => ~syncConsumed)
    <3>1. L = {}
      BY <1>7, <1>9, <2>2, Zenon
    <3> QED BY <1>7, <1>9, <3>1, Zenon
  <2> QED BY <2>1, <2>2, Zenon
<1>14. CASE F = on
  <2>1. L = {}
    BY <1>7, <1>14, Zenon
  <2>2. failed' = failed /\ answers' = Append(answers, reply)
    BY <1>0, <1>6, <1>14, Zenon
  <2>3. \A b \in Burrows : ran'[b] = IF b \in on THEN ran[b] \o runs ELSE ran[b]
    BY <1>11, <1>14, Zenon
  <2>4. \A b \in Burrows : ~tunnel'[b].skipping /\ ~tunnel'[b].unread /\ ~tunnel'[b].broken
    BY <1>9, <1>14, <2>1, Zenon
  <2> QED BY <1>41, <1>10, <1>12, <1>13, <2>2, <2>3, <2>4, Zenon DEF RelayOutcome
<1>15. CASE F # on
  <2>1. failed' = TRUE /\ answers' = Append(answers, Error)
    BY <1>6, <1>15, Zenon
  <2>2. ASSUME NEW b \in Burrows PROVE ran'[b] = ran[b] \/ (b \in on /\ ran'[b] = ran[b] \o runs)
    <3>1. ran'[b] = IF b \in F THEN ran[b] \o runs ELSE ran[b]
      BY <1>11, Zenon
    <3> QED BY <1>7, <3>1, Zenon
  <2> QED BY <1>41, <1>10, <1>12, <1>13, <2>1, <2>2, Zenon DEF RelayOutcome
<1> QED BY <1>14, <1>15, Zenon

\* One more answer.
LEMMA Appended ==
    ASSUME NEW s \in Seq(Answers), NEW x \in Answers
    PROVE  /\ Append(s, x) \in Seq(Answers) /\ Append(s, x) = s \o <<x>> /\ Last(Append(s, x)) = x
           /\ Error \in Range(Append(s, x)) <=> Error \in Range(s) \/ x = Error
<1>1. Append(s, x) \in Seq(Answers) /\ <<x>> \in Seq(Answers) /\ Last(Append(s, x)) = x
    BY DEF Last
<1>2. Append(s, x) = s \o <<x>>
    BY AppendIsConcat, Zenon
<1>3. Error \in Range(<<x>>) <=> x = Error
    BY DEF Range
<1>4. Error \in Range(s \o <<x>>) <=> Error \in Range(s) \/ x = Error
    BY <1>1, <1>3, Joined, Zenon
<1> QED BY <1>1, <1>2, <1>4, Zenon

\* An exchange that PostgreSQL has no reason to refuse, for the answer that is due.
DueExchange(on, outs, valid, after, reply, runs) ==
    /\ on \in SUBSET Burrows /\ outs \in SUBSET Outcomes /\ on \subseteq valid
    /\ after \in [Burrows -> TunnelStates]
    /\ \A b \in on : after[b].skipping = tunnel[b].skipping /\ after[b].broken = tunnel[b].broken
    /\ reply \in Answers /\ reply # Error /\ runs \in Seq(Nat)
    /\ DueAnswers = <<reply>>
    /\ \A b \in Burrows : DueRuns(b) = IF b \in on THEN runs ELSE <<>>
    /\ failed => runs = <<>>

\* A handler that ends with an exchange, and with it gives the answer that is due.
LEMMA Relaying ==
    ASSUME IInv, Ordinary, message.type # "none", ~failed \/ message.flushed, pending = NoPending,
           NEW on, NEW outs, NEW valid, NEW after, NEW reply, NEW runs,
           DueExchange(on, outs, valid, after, reply, runs), Relay(on, outs, valid, after, reply, runs), Exchanged,
           session' = TRUE, UNCHANGED <<statements, pending, syncConsumed>>,
           portals' \in [Portals -> BoundPortals],
           ~failed /\ ~hung' /\ Last(answers') # Error
           => \A p \in Portals : bound[p] # Unbound => portals'[p] = bound[p] /\ bound[p].bind # 0
    PROVE  IInv'
<1>00. /\ on \in SUBSET Burrows /\ outs \in SUBSET Outcomes /\ on \subseteq valid
       /\ after \in [Burrows -> TunnelStates]
       /\ \A b \in on : after[b].skipping = tunnel[b].skipping /\ after[b].broken = tunnel[b].broken
       /\ reply \in Answers /\ reply # Error /\ runs \in Seq(Nat)
       /\ DueAnswers = <<reply>>
       /\ \A b \in Burrows : DueRuns(b) = IF b \in on THEN runs ELSE <<>>
       /\ failed => runs = <<>>
    BY Zenon DEF DueExchange
<1>0. RelayOutcome(on, reply, runs)
    BY <1>00, RelayEffect, Zenon
<1>1. /\ hung' = hung /\ connected' = connected \cup on
      /\ tunnel' \in [Burrows -> TunnelStates] /\ ran' \in [Burrows -> Seq(Nat)]
      /\ \A b \in Burrows : tunnel'[b].broken => b \in on
      /\ (\A b \in Burrows : ~tunnel'[b].broken)
         => \A b \in Burrows : ~tunnel'[b].unread /\ (tunnel'[b].skipping => ~syncConsumed)
      /\ \/ /\ failed' = failed /\ answers' = Append(answers, reply)
            /\ \A b \in Burrows : ran'[b] = IF b \in on THEN ran[b] \o runs ELSE ran[b]
            /\ \A b \in Burrows : ~tunnel'[b].skipping /\ ~tunnel'[b].unread /\ ~tunnel'[b].broken
         \/ /\ failed' = TRUE /\ answers' = Append(answers, Error)
            /\ \A b \in Burrows : ran'[b] = ran[b] \/ (b \in on /\ ran'[b] = ran[b] \o runs)
    BY <1>0, Zenon DEF RelayOutcome
<1>2. /\ message' = NoMessage /\ UNCHANGED <<ready, released, messages, cycles>>
      /\ UNCHANGED <<bound, binds, expected, wanted>>
    BY Zenon DEF Exchanged, client
<1>3. /\ TypeOK /\ ~ready /\ ~hung /\ (~failed <=> Succeeded)
      /\ answers \in Seq(Answers) /\ connected \in SUBSET Burrows /\ failed \in BOOLEAN
      /\ \A b \in Burrows : ran[b] \in Seq(Nat) /\ wanted[b] \in Seq(Nat) /\ IsPrefix(ran[b], wanted[b])
    BY Handled, Zenon DEF IInv, TypeOK, Accounted
<1>4. InFlight' /\ message'.type = "none" /\ DueAnswers' = <<>> /\ \A b \in Burrows : DueRuns(b)' = <<>>
    BY <1>2, NoneInFlight, Zenon
<1>5. /\ HeldAnswers = <<>> /\ HeldAnswers' = <<>>
      /\ \A b \in Burrows : HeldRuns(b) = <<>> /\ HeldRuns(b)' = <<>>
    BY Constituents, Zenon DEF HeldAnswers, HeldRuns
<1>6. /\ answers' \in Seq(Answers) /\ failed' \in BOOLEAN
      /\ Succeeded'
         => /\ ~failed /\ failed' = failed /\ answers' = Append(answers, reply)
            /\ \A b \in Burrows : ran'[b] = IF b \in on THEN ran[b] \o runs ELSE ran[b]
      /\ failed' => ~Succeeded'
      /\ ~failed' => Succeeded' /\ Last(answers') # Error
  <2>1. /\ Append(answers, reply) \in Seq(Answers) /\ Last(Append(answers, reply)) = reply
        /\ Error \in Range(Append(answers, reply)) <=> Error \in Range(answers)
    BY <1>00, <1>3, Appended, Zenon
  <2>2. Append(answers, Error) \in Seq(Answers) /\ Error \in Range(Append(answers, Error))
    BY <1>3, Constituents, Appended, Zenon
  <2>3. CASE /\ failed' = failed /\ answers' = Append(answers, reply)
             /\ \A b \in Burrows : ran'[b] = IF b \in on THEN ran[b] \o runs ELSE ran[b]
    BY <1>00, <1>3, <2>1, <2>3, Zenon DEF Succeeded
  <2>4. CASE failed' = TRUE /\ answers' = Append(answers, Error)
    BY <2>2, <2>4, Zenon DEF Succeeded
  <2> QED BY <1>1, <2>3, <2>4, Zenon
<1>7. TypeOK'
  <2>1. connected' \in SUBSET Burrows
    BY <1>00, <1>1, <1>3, Zenon
  <2>2. message' \in Messages
    BY <1>2, Constituents, Zenon
  <2> QED BY <1>1, <1>2, <1>3, <1>6, <2>1, <2>2, Zenon DEF TypeOK
<1>8. Steady'
  <2>1. \A b \in Burrows : tunnel'[b].broken => b \in connected'
    BY <1>00, <1>1, Zenon
  <2>2. \A b \in Burrows : Astray(b)' => session' /\ failed'
    BY <1>1, Zenon DEF Astray
  <2> QED BY <1>1, <1>3, <2>1, <2>2, Zenon DEF Steady
<1>9. Failing'
    BY <1>2, <1>3, <1>6, Zenon DEF Failing
<1>10. Holding' /\ TunnelsInStep'
    BY <1>2, Zenon DEF Holding, IInv, TunnelsInStep
<1>11. Known'
    BY <1>1, <1>2, <1>3, <1>4, <1>6, Zenon DEF Known
<1>12. ASSUME NEW b \in Burrows, ~failed
       PROVE  wanted[b] = ran[b] \o (IF b \in on THEN runs ELSE <<>>)
  <2>1. wanted[b] = (ran[b] \o <<>>) \o DueRuns(b)
    BY <1>00, <1>3, <1>5, <1>12, Zenon DEF IInv, Accounted
  <2>2. ran[b] \o <<>> = ran[b]
    BY <1>3, ConcatEmptySeq, Zenon
  <2> QED BY <1>00, <2>1, <2>2, Zenon
<1>13. ASSUME NEW b \in Burrows PROVE IsPrefix(ran'[b], wanted[b])
  <2>1. ran[b] \o <<>> = ran[b] /\ ran[b] \in Seq(Nat) /\ wanted[b] \in Seq(Nat)
    BY <1>3, ConcatEmptySeq, Zenon
  <2>2. ran'[b] = ran[b] \/ (b \in on /\ ran'[b] = ran[b] \o runs)
    BY <1>1, Zenon
  <2>3. CASE ran'[b] = ran[b]
    BY <1>3, <2>3, Zenon
  <2>4. CASE b \in on /\ ran'[b] = ran[b] \o runs /\ ~failed
    <3>1. ran'[b] = wanted[b]
      BY <1>12, <2>4, Zenon
    <3> QED BY <2>1, <3>1 DEF IsPrefix
  <2>5. CASE ran'[b] = ran[b] \o runs /\ failed
    BY <1>00, <1>3, <2>1, <2>5, Zenon
  <2> QED BY <2>2, <2>3, <2>4, <2>5, Zenon
<1>14. ASSUME Succeeded' PROVE expected' = (answers' \o HeldAnswers') \o DueAnswers'
  <2>1. expected = (answers \o <<>>) \o <<reply>>
    BY <1>00, <1>3, <1>5, <1>6, <1>14, Zenon DEF IInv, Accounted
  <2>2. answers \o <<>> = answers /\ Append(answers, reply) = answers \o <<reply>>
    BY <1>00, <1>3, ConcatEmptySeq, Appended, Zenon
  <2>3. answers' \o <<>> = answers'
    BY <1>6, ConcatEmptySeq, Zenon
  <2> QED BY <1>2, <1>4, <1>5, <1>6, <1>14, <2>1, <2>2, <2>3, Zenon
<1>15. ASSUME Succeeded', NEW b \in Burrows
       PROVE  wanted'[b] = (ran'[b] \o HeldRuns(b)') \o DueRuns(b)'
  <2>1. ran'[b] \in Seq(Nat) /\ ran[b] \in Seq(Nat)
    BY <1>1, <1>3, Zenon
  <2>2. ran'[b] \o <<>> = ran'[b] /\ ran[b] \o <<>> = ran[b]
    BY <2>1, ConcatEmptySeq, Zenon
  <2>3. ran'[b] = ran[b] \o (IF b \in on THEN runs ELSE <<>>)
    BY <1>6, <1>15, <2>2, Zenon
  <2> QED BY <1>2, <1>4, <1>5, <1>6, <1>12, <1>15, <2>2, <2>3, Zenon
<1>16. Accounted'
    BY <1>2, <1>13, <1>14, <1>15, Zenon DEF Accounted
<1> QED BY <1>4, <1>7, <1>8, <1>9, <1>10, <1>11, <1>16, Zenon DEF IInv

\* A Tunnel with a portal opened or closed.
LEMMA PortalSet ==
    \A t \in TunnelStates, y \in [Portals -> Nat] : \A x :
      x = [t EXCEPT !.portals = y] => x \in TunnelStates /\ x.skipping = t.skipping /\ x.broken = t.broken
<1> SUFFICES ASSUME NEW t \in TunnelStates, NEW y \in [Portals -> Nat], NEW x, x = [t EXCEPT !.portals = y]
             PROVE  x \in TunnelStates /\ x.skipping = t.skipping /\ x.broken = t.broken
    BY Zenon
<1>1. x \in TunnelStates
    BY Zenon DEF TunnelStates
<1>2. x.skipping = t.skipping /\ x.broken = t.broken
    BY Zenon DEF TunnelStates
<1> QED BY <1>1, <1>2, Zenon

\* What the Proxy knows while it handles a message that binds nothing.
LEMMA Knows ==
    ASSUME IInv, message.type # "none", message.type # "Bind", ~failed
    PROVE  \A p \in Portals : bound[p] # Unbound => portals[p] = bound[p] /\ bound[p].bind # 0
    BY Handled, Zenon DEF IInv, Known

\* Close of a portal.
LEMMA HandleClosePIInv == ASSUME IInv, Ordinary, HandleCloseP PROVE IInv'
<1> DEFINE p == message.name
           on == portals[p].on
           outs == Outcomes \ {"bindError", "executeError"}
           reply == Answer("close", 0)
           closed == [b \in Burrows |-> [tunnel[b] EXCEPT !.portals[p] = 0]]
<1>1. /\ message.type = "CloseP" /\ pending = NoPending /\ (message.flushed \/ ~failed)
      /\ session' = TRUE /\ Relay(on, outs, Burrows, closed, reply, <<>>)
      /\ portals' = IF hung' \/ Last(answers') = Error THEN portals ELSE WithoutPortal(p)
      /\ Exchanged /\ UNCHANGED <<statements, pending, syncConsumed>>
    BY Zenon DEF HandleCloseP, Handling, Direct
<1>2. /\ message.type # "none" /\ message.type # "Bind" /\ message.type # "Execute" /\ 0 \in Nat
      /\ TypeOK /\ p \in Portals /\ portals \in [Portals -> BoundPortals] /\ bound[p] = Unbound
    BY <1>1 DEF IInv, TypeOK, InFlight, Messages, OfPortal
<1>3. on \in SUBSET Burrows
    BY <1>2, Zenon DEF BoundPortals
<1>4. reply \in Answers /\ reply # Error
    BY <1>2, AnswerKinds, Zenon
<1>5. DueAnswers = <<reply>>
    BY <1>1, Zenon DEF DueAnswers
<1>7. outs \in SUBSET Outcomes /\ <<>> \in Seq(Nat)
    OBVIOUS
<1>0. closed = [b \in Burrows |-> [tunnel[b] EXCEPT !.portals[p] = 0]]
    BY Zenon
<1> HIDE DEF on, outs, reply, closed
<1>6. /\ closed \in [Burrows -> TunnelStates]
      /\ \A b \in Burrows : closed[b].skipping = tunnel[b].skipping /\ closed[b].broken = tunnel[b].broken
  <2>1. ASSUME NEW b \in Burrows
        PROVE  /\ closed[b] \in TunnelStates
               /\ closed[b].skipping = tunnel[b].skipping /\ closed[b].broken = tunnel[b].broken
    <3>1. /\ closed[b] = [tunnel[b] EXCEPT !.portals = [tunnel[b].portals EXCEPT ![p] = 0]]
          /\ tunnel[b] \in TunnelStates
      BY <1>0, <1>2, Zenon DEF TypeOK
    <3>2. [tunnel[b].portals EXCEPT ![p] = 0] \in [Portals -> Nat]
      BY <1>2, <3>1, Zenon DEF TunnelStates
    <3>3. PICK y \in [Portals -> Nat] : closed[b] = [tunnel[b] EXCEPT !.portals = y]
      BY <3>1, <3>2, Zenon
    <3> QED BY <3>1, <3>3, PortalSet
  <2> QED BY <1>0, <2>1, Zenon
<1>8. \A b \in Burrows : DueRuns(b) = IF b \in on THEN <<>> ELSE <<>>
    BY <1>2, Zenon DEF DueRuns
<1>9. portals' \in [Portals -> BoundPortals]
    BY <1>1, <1>2, Constituents, Zenon DEF WithoutPortal
<1>10. ~failed /\ ~hung' /\ Last(answers') # Error
       => \A r \in Portals : bound[r] # Unbound => portals'[r] = bound[r] /\ bound[r].bind # 0
    BY <1>1, <1>2, Knows, Zenon DEF WithoutPortal
<1>11. DueExchange(on, outs, Burrows, closed, reply, <<>>)
    BY <1>3, <1>4, <1>5, <1>6, <1>7, <1>8, Zenon DEF DueExchange
<1> QED BY <1>1, <1>2, <1>9, <1>10, <1>11, Relaying, Zenon

\* Bind, held back or at once.
LEMMA HandleBindIInv == ASSUME IInv, Ordinary, HandleBind PROVE IInv'
<1> DEFINE p == message.name
           q == message.statement
           portal == [bind |-> binds, on |-> Route[q]]
           opened == [b \in Burrows |-> [tunnel[b] EXCEPT !.portals[p] = binds]]
           reply == Answer("bind", binds)
<1>1. /\ message.type = "Bind" /\ ~failed /\ session' = TRUE /\ UNCHANGED <<statements, syncConsumed>>
      /\ \/ /\ HoldsBack(q)
            /\ portals' = [portals EXCEPT ![p] = portal]
            /\ pending' = [NoPending EXCEPT !.portal = p, !.bind = binds, !.on = Route[q]]
            /\ Answered(<<>>)
            /\ UNCHANGED failed
         \/ /\ Relay(Route[q], Outcomes, Burrows, opened, reply, <<>>)
            /\ portals' = IF hung' \/ Last(answers') = Error THEN portals ELSE [portals EXCEPT ![p] = portal]
            /\ Exchanged
            /\ UNCHANGED pending
    BY Zenon DEF HandleBind, Handling
<1>2. /\ message.type # "none" /\ message.type # "Execute" /\ TypeOK
      /\ p \in Portals /\ q \in Statements /\ portals \in [Portals -> BoundPortals] /\ binds \in Nat
    BY <1>1, Zenon DEF IInv, TypeOK, Messages, OfPortal
<1>3. pending = NoPending /\ bound[p] = portal /\ binds # 0
    BY <1>1, Zenon DEF IInv, InFlight
<1>4. CASE /\ portals' = [portals EXCEPT ![p] = portal]
           /\ pending' = [NoPending EXCEPT !.portal = p, !.bind = binds, !.on = Route[q]]
           /\ Answered(<<>>)
           /\ UNCHANGED failed
    BY <1>1, <1>3, <1>4, HoldingBack, Zenon
<1>5. CASE /\ Relay(Route[q], Outcomes, Burrows, opened, reply, <<>>)
           /\ portals' = IF hung' \/ Last(answers') = Error THEN portals ELSE [portals EXCEPT ![p] = portal]
           /\ Exchanged
           /\ UNCHANGED pending
  <2>1. Route[q] \in SUBSET Burrows /\ portal \in BoundPortals /\ portal.bind = binds
    BY <1>2, ProtocolAssumption, Zenon DEF BoundPortals
  <2>2. reply \in Answers /\ reply # Error
    BY <1>2, AnswerKinds, Zenon
  <2>3. DueAnswers = <<reply>>
    BY <1>1, Zenon DEF DueAnswers
  <2>5. Outcomes \in SUBSET Outcomes /\ <<>> \in Seq(Nat)
    OBVIOUS
  <2>0. opened = [b \in Burrows |-> [tunnel[b] EXCEPT !.portals[p] = binds]]
    BY Zenon
  <2> HIDE DEF portal, opened, reply
  <2>4. /\ opened \in [Burrows -> TunnelStates]
        /\ \A b \in Burrows : opened[b].skipping = tunnel[b].skipping /\ opened[b].broken = tunnel[b].broken
    <3>1. ASSUME NEW b \in Burrows
          PROVE  /\ opened[b] \in TunnelStates
                 /\ opened[b].skipping = tunnel[b].skipping /\ opened[b].broken = tunnel[b].broken
      <4>1. /\ opened[b] = [tunnel[b] EXCEPT !.portals = [tunnel[b].portals EXCEPT ![p] = binds]]
            /\ tunnel[b] \in TunnelStates
        BY <1>2, <2>0, Zenon DEF TypeOK
      <4>2. [tunnel[b].portals EXCEPT ![p] = binds] \in [Portals -> Nat]
        BY <1>2, <4>1, Zenon DEF TunnelStates
      <4>3. PICK y \in [Portals -> Nat] : opened[b] = [tunnel[b] EXCEPT !.portals = y]
        BY <4>1, <4>2, Zenon
      <4> QED BY <4>1, <4>3, PortalSet
    <3> QED BY <2>0, <3>1, Zenon
  <2>6. \A b \in Burrows : DueRuns(b) = IF b \in Route[q] THEN <<>> ELSE <<>>
    BY <1>2, Zenon DEF DueRuns
  <2>7. portals' \in [Portals -> BoundPortals]
    BY <1>2, <1>5, <2>1, Zenon
  <2>8. ASSUME ~hung', Last(answers') # Error, NEW r \in Portals, bound[r] # Unbound
        PROVE  portals'[r] = bound[r] /\ bound[r].bind # 0
    <3>1. portals' = [portals EXCEPT ![p] = portal]
      BY <1>5, <2>8, Zenon
    <3>2. CASE r = p
      BY <1>2, <1>3, <2>1, <3>1, <3>2, Zenon
    <3>3. CASE r # p
      <4>1. portals[r] = bound[r] /\ bound[r].bind # 0
        BY <1>1, <1>2, <2>8, <3>3, Handled, Zenon DEF IInv, Known
      <4> QED BY <1>2, <3>1, <3>3, <4>1, Zenon
    <3> QED BY <3>2, <3>3, Zenon
  <2>9. DueExchange(Route[q], Outcomes, Burrows, opened, reply, <<>>)
    BY <2>1, <2>2, <2>3, <2>4, <2>5, <2>6, Zenon DEF DueExchange
  <2> QED BY <1>1, <1>2, <1>3, <1>5, <2>7, <2>8, <2>9, Relaying, Zenon
<1> QED BY <1>1, <1>4, <1>5, Zenon


-----------------------------------------------------------------------------
(* Batches.                                                                *)

\* A request is held back only while all is well.
LEMMA Held ==
    ASSUME IInv, pending # NoPending
    PROVE  /\ ~failed /\ Succeeded /\ ~hung /\ ~ready /\ session
           /\ pending.on \in SUBSET Burrows /\ pending.on # {} /\ pending.bind \in Nat
           /\ \A b \in Burrows : ~tunnel[b].skipping /\ ~tunnel[b].unread /\ ~tunnel[b].broken
<1>1. ~failed /\ Succeeded /\ ~ready
    BY Zenon DEF IInv, Failing
<1>2. session /\ pending.on # {}
    BY Zenon DEF IInv, Holding
<1>3. pending.on \in SUBSET Burrows /\ pending.bind \in Nat
    BY Zenon DEF IInv, TypeOK, Requests
<1>4. ~hung /\ \A b \in Burrows : ~tunnel[b].skipping /\ ~tunnel[b].unread /\ ~tunnel[b].broken
    BY <1>1, Zenon DEF IInv, Steady, Astray
<1> QED BY <1>1, <1>2, <1>3, <1>4, Zenon

\* All of a batch is sent.
LEMMA BatchSent ==
    ASSUME Ordinary, NEW o \in Ends(pending.on, Outcomes)
    PROVE  o \in [pending.on -> Outcomes] /\ Sent(pending.on, o) = pending.on /\ AllSent(o)
    BY AllAreSent, Opens, Zenon DEF AllSent

\* A Tunnel whose answers to a batch are read, or left unread.
LEMMA Resting ==
    \A t \in TunnelStates, v \in BOOLEAN : \A x :
      x = [t EXCEPT !.unread = v, !.stale = "no"]
      => x \in TunnelStates /\ x.skipping = t.skipping /\ x.broken = t.broken /\ x.unread = v
<1> SUFFICES ASSUME NEW t \in TunnelStates, NEW v \in BOOLEAN, NEW x,
                    x = [t EXCEPT !.unread = v, !.stale = "no"]
             PROVE  x \in TunnelStates /\ x.skipping = t.skipping /\ x.broken = t.broken /\ x.unread = v
    BY Zenon
<1>1. "no" \in Endings
    BY DEF Endings
<1>2. x \in TunnelStates
    BY <1>1, Zenon DEF TunnelStates
<1>3. x.skipping = t.skipping /\ x.broken = t.broken /\ x.unread = v
    BY Zenon DEF TunnelStates
<1> QED BY <1>2, <1>3, Zenon

\* A batch breaks only Tunnels it uses; if it breaks none, its Sync leaves all in step.
LEMMA BatchTunnelsEnd ==
    ASSUME IInv, Ordinary, pending # NoPending, NEW o \in Ends(pending.on, Outcomes)
    PROVE  /\ BatchTunnels(o) \in [Burrows -> TunnelStates]
           /\ \A b \in Burrows : BatchTunnels(o)[b].broken => b \in pending.on
           /\ ~BatchLost(o) => \A b \in Burrows : /\ ~BatchTunnels(o)[b].skipping /\ ~BatchTunnels(o)[b].unread
                                                  /\ ~BatchTunnels(o)[b].broken
           /\ BatchLost(o) => BatchFails(o) /\ \E b \in pending.on : BatchTunnels(o)[b].broken
<1> DEFINE on == pending.on
           L == {b \in on : ~tunnel[b].skipping /\ o[b] = "lost"}
           T == BatchTunnels(o)
           U(b) == ~AllSent(o) \/ Behind(b, L)
<1>1. /\ on \in SUBSET Burrows /\ tunnel \in [Burrows -> TunnelStates]
      /\ \A b \in Burrows : ~tunnel[b].skipping /\ ~tunnel[b].unread /\ ~tunnel[b].broken
    BY Held, Zenon DEF IInv, TypeOK
<1>2. T = [b \in Burrows |->
             IF b \notin on THEN tunnel[b]
             ELSE IF b \in L THEN [tunnel[b] EXCEPT !.broken = TRUE]
             ELSE [Synced(tunnel[b]) EXCEPT !.unread = U(b), !.stale = "no"]]
    BY BatchSent, Zenon DEF BatchTunnels
<1>3. /\ \A b \in Burrows : b \notin on => T[b] = tunnel[b]
      /\ \A b \in Burrows : b \in on /\ b \in L => T[b] = [tunnel[b] EXCEPT !.broken = TRUE]
      /\ \A b \in Burrows : b \in on /\ b \notin L => T[b] = [Synced(tunnel[b]) EXCEPT !.unread = U(b), !.stale = "no"]
      /\ DOMAIN T = Burrows /\ T = [b \in Burrows |-> T[b]]
    BY <1>2, Zenon
<1>4. /\ L \subseteq on /\ (BatchLost(o) <=> L # {}) /\ (L # {} => BatchFails(o))
    BY BatchSent, Zenon DEF BatchLost, BatchFails
<1>5. \A b : U(b) \in BOOLEAN /\ (U(b) => L # {})
    BY BatchSent, Zenon DEF Behind
<1> HIDE DEF on, L, T, U
<1>6. ASSUME NEW b \in Burrows
      PROVE  /\ T[b] \in TunnelStates
             /\ T[b].broken <=> b \in L
             /\ T[b].unread => L # {}
             /\ b \notin L => ~T[b].skipping
  <2>0. tunnel[b] \in TunnelStates
    BY <1>1, Zenon
  <2>1. CASE b \notin on
    BY <1>1, <1>3, <1>4, <2>0, <2>1, Zenon
  <2>2. CASE b \in L
    <3>1. b \in on
      BY <1>4, <2>2, Zenon
    <3> QED BY <1>3, <2>0, <2>2, <3>1, Breaking, Zenon
  <2>3. CASE b \in on /\ b \notin L
    <3>1. T[b] = [Synced(tunnel[b]) EXCEPT !.unread = U(b), !.stale = "no"]
      BY <1>3, <2>3, Zenon
    <3>2. PICK v \in BOOLEAN : v = U(b) /\ (v => L # {})
      BY <1>5, Zenon
    <3>3. PICK t \in TunnelStates : t = Synced(tunnel[b]) /\ t.skipping = FALSE /\ t.broken = tunnel[b].broken
      BY <2>0, Syncing, Zenon
    <3>4. T[b] = [t EXCEPT !.unread = v, !.stale = "no"]
      BY <3>1, <3>2, <3>3, Zenon
    <3>5. T[b] \in TunnelStates /\ T[b].skipping = t.skipping /\ T[b].broken = t.broken /\ T[b].unread = v
      <4>1. \A x : x = [t EXCEPT !.unread = v, !.stale = "no"]
                  => x \in TunnelStates /\ x.skipping = t.skipping /\ x.broken = t.broken /\ x.unread = v
        BY <3>2, <3>3, Resting, Zenon
      <4> QED BY <3>4, <4>1, Zenon
    <3> QED BY <1>1, <2>3, <3>2, <3>3, <3>5, Zenon
  <2> QED BY <2>1, <2>2, <2>3, Zenon
<1>7. T \in [Burrows -> TunnelStates]
    BY <1>3, <1>6, Zenon
<1>8. \A b \in Burrows : T[b].broken => b \in on
    BY <1>4, <1>6, Zenon
<1>9. ~BatchLost(o) => \A b \in Burrows : ~T[b].skipping /\ ~T[b].unread /\ ~T[b].broken
    BY <1>4, <1>6, Zenon
<1>10. BatchLost(o) => BatchFails(o) /\ \E b \in on : T[b].broken
    BY <1>1, <1>4, <1>6, Zenon
<1> QED BY <1>7, <1>8, <1>9, <1>10, Zenon DEF on, T

\* A batch is answered with what is held back, or with an error.
LEMMA BatchAnswersEnd ==
    ASSUME IInv, Ordinary, pending # NoPending, NEW o \in Ends(pending.on, Outcomes)
    PROVE  /\ BatchAnswers(o) \in Seq(Answers)
           /\ BatchFails(o) => Error \in Range(BatchAnswers(o))
           /\ ~BatchFails(o) => BatchAnswers(o) = HeldAnswers
<1> DEFINE n == pending.bind
           served == {b \in pending.on : ~tunnel[b].skipping}
           bad == {b \in served : o[b] # "ok"}
           lost == {b \in served : o[b] = "lost"}
           first == IF bad = {} THEN {} ELSE {Min(bad)}
           complete == \/ \E b \in served : \A c \in bad : b < c
                       \/ \E b \in first : o[b] = "executeError"
           E == IF bad = {} THEN <<>>
                ELSE IF lost = {} \/ Min(lost) = Min(bad) THEN <<Error>> ELSE <<Error, Error>>
           B == IF complete THEN <<Answer("bind", n)>> ELSE <<>>
           D == IF complete /\ pending.describe THEN <<Answer("describe", n)>> ELSE <<>>
           X == IF pending.execute /\ bad = {} /\ served # {} THEN <<Answer("result", n)>> ELSE E
<1>1. BatchAnswers(o) = (B \o D) \o X
    BY BatchSent, Zenon DEF BatchAnswers
<1>2. /\ n \in Nat /\ pending.on \in SUBSET Burrows /\ pending.on # {}
      /\ \A b \in Burrows : ~tunnel[b].skipping
    BY Held, Zenon
<1>3. served = pending.on /\ (BatchFails(o) <=> bad # {}) /\ lost \subseteq bad
    BY <1>2, BatchSent, Zenon DEF BatchFails
<1>4. /\ <<Answer("bind", n)>> \in Seq(Answers) /\ <<Answer("describe", n)>> \in Seq(Answers)
      /\ <<Answer("result", n)>> \in Seq(Answers) /\ <<>> \in Seq(Answers)
  <2>1. <<>> \in Seq(Answers)
    OBVIOUS
  <2> QED BY <1>2, <2>1, AnswerKinds, Zenon
<1>5. B \in Seq(Answers) /\ D \in Seq(Answers)
    BY <1>4, Zenon
<1>6. (bad = {} => E = <<>>) /\ (bad # {} => E = <<Error>> \/ E = <<Error, Error>>)
    BY Zenon
<1>9. bad = {} => /\ B = <<Answer("bind", n)>>
                  /\ D = IF pending.describe THEN <<Answer("describe", n)>> ELSE <<>>
                  /\ X = IF pending.execute THEN <<Answer("result", n)>> ELSE E
  <2>1. ASSUME bad = {} PROVE complete
    BY <1>2, <1>3, <2>1, Zenon
  <2> QED BY <1>2, <1>3, <2>1, Zenon
<1>10. X = E \/ X = <<Answer("result", n)>>
    BY Zenon
<1>11. bad # {} => X = E
    BY Zenon
<1> HIDE DEF served, bad, lost, first, complete, E, B, D, X
<1>12. E \in Seq(Answers) /\ (bad = {} => E = <<>>) /\ (bad # {} => Error \in Range(E))
  <2>1. <<Error, Error>> \in Seq(Answers) /\ <<>> \in Seq(Answers)
    BY Constituents
  <2>2. 1 \in DOMAIN <<Error, Error>> /\ <<Error, Error>>[1] = Error
    OBVIOUS
  <2>3. Error \in Range(<<Error, Error>>)
    BY <2>2, Zenon DEF Range
  <2> QED BY <1>6, <2>1, <2>3, ErrorAlone, Zenon
<1>13. X \in Seq(Answers)
    BY <1>4, <1>10, <1>12, Zenon
<1>14. B \o D \in Seq(Answers)
    BY <1>5, Joined, Zenon
<1>15. BatchAnswers(o) \in Seq(Answers)
    BY <1>1, <1>13, <1>14, Joined, Zenon
<1>16. BatchFails(o) => Error \in Range(BatchAnswers(o))
    BY <1>1, <1>3, <1>11, <1>12, <1>13, <1>14, Joined, Zenon
<1>17. ASSUME ~BatchFails(o) PROVE BatchAnswers(o) = HeldAnswers
  <2>1. bad = {}
    BY <1>3, <1>17, Zenon
  <2>2. /\ B = <<Answer("bind", n)>>
        /\ D = IF pending.describe THEN <<Answer("describe", n)>> ELSE <<>>
        /\ X = IF pending.execute THEN <<Answer("result", n)>> ELSE <<>>
    BY <1>9, <1>12, <2>1, Zenon
  <2> QED BY <1>1, <2>2, Zenon DEF HeldAnswers
<1> QED BY <1>15, <1>16, <1>17, Zenon

\* A batch runs what is held back, or on some of its Burrows nothing.
LEMMA BatchRanEnd ==
    ASSUME IInv, Ordinary, pending # NoPending, NEW o \in Ends(pending.on, Outcomes)
    PROVE  /\ BatchRan(o) \in [Burrows -> Seq(Nat)]
           /\ \A b \in Burrows : BatchRan(o)[b] = ran[b] \/ BatchRan(o)[b] = ran[b] \o HeldRuns(b)
           /\ ~BatchFails(o) => \A b \in Burrows : BatchRan(o)[b] = ran[b] \o HeldRuns(b)
<1> DEFINE n == pending.bind
           done(b) == b \in pending.on /\ ~tunnel[b].skipping /\ o[b] = "ok" /\ pending.execute
<1>1. n \in Nat /\ \A b \in pending.on : ~tunnel[b].skipping
    BY Held, Zenon
<1>2. ran \in [Burrows -> Seq(Nat)] /\ TypeOK
    BY Zenon DEF IInv, TypeOK
<1>3. ASSUME NEW b \in Burrows
      PROVE  /\ BatchRan(o)[b] \in Seq(Nat)
             /\ BatchRan(o)[b] = ran[b] \/ BatchRan(o)[b] = ran[b] \o HeldRuns(b)
             /\ ~BatchFails(o) => BatchRan(o)[b] = ran[b] \o HeldRuns(b)
  <2>1. BatchRan(o)[b] = IF done(b) THEN Append(ran[b], n) ELSE ran[b]
    BY BatchSent, Zenon DEF BatchRan
  <2>2. done(b) => HeldRuns(b) = <<n>>
    BY Zenon DEF HeldRuns
  <2>3. ~BatchFails(o) /\ ~done(b) => HeldRuns(b) = <<>>
    BY <1>1, BatchSent, Zenon DEF HeldRuns, BatchFails
  <2> HIDE DEF done
  <2>4. ran[b] \in Seq(Nat)
    BY <1>2, Zenon
  <2>5. ran[b] \o <<>> = ran[b]
    BY <2>4, ConcatEmptySeq, Zenon
  <2>6. Append(ran[b], n) \in Seq(Nat)
    BY <1>1, <2>4
  <2>7. Append(ran[b], n) = ran[b] \o <<n>>
    BY <1>1, <2>4, AppendIsConcat, Zenon
  <2> QED BY <2>1, <2>2, <2>3, <2>4, <2>5, <2>6, <2>7, Zenon
<1>4. BatchRan(o) = [b \in Burrows |-> IF done(b) THEN Append(ran[b], n) ELSE ran[b]]
    BY BatchSent, Zenon DEF BatchRan
<1>5. BatchRan(o) \in [Burrows -> Seq(Nat)]
  <2>1. ASSUME NEW b \in Burrows PROVE (IF done(b) THEN Append(ran[b], n) ELSE ran[b]) \in Seq(Nat)
    BY <1>3, <1>4, Zenon
  <2> QED BY <1>4, <2>1, Zenon
<1> QED BY <1>3, <1>5, Zenon

\* A request that is sent leaves what is due to the message alone: either all that was
\* held back has been answered and run, or the answers hold an error.
LEMMA BatchAccounts ==
    ASSUME IInv, Ordinary, pending # NoPending, NEW o \in Ends(pending.on, Outcomes),
           answers' = answers \o BatchAnswers(o), ran' = BatchRan(o), pending' = NoPending,
           UNCHANGED <<expected, wanted>>,
           ~BatchFails(o)
           => DueAnswers' = DueAnswers /\ \A b \in Burrows : DueRuns(b)' = DueRuns(b)
    PROVE  /\ answers' \in Seq(Answers) /\ ran' \in [Burrows -> Seq(Nat)]
           /\ Succeeded' <=> ~BatchFails(o)
           /\ Accounted'
<1>1. /\ TypeOK /\ answers \in Seq(Answers) /\ Succeeded
      /\ \A b \in Burrows : ran[b] \in Seq(Nat) /\ wanted[b] \in Seq(Nat) /\ IsPrefix(ran[b], wanted[b])
    BY Held, Zenon DEF IInv, TypeOK, Accounted
<1>2. /\ BatchAnswers(o) \in Seq(Answers)
      /\ BatchFails(o) => Error \in Range(BatchAnswers(o))
      /\ ~BatchFails(o) => BatchAnswers(o) = HeldAnswers
    BY BatchAnswersEnd, Zenon
<1>3. /\ ran' \in [Burrows -> Seq(Nat)]
      /\ \A b \in Burrows : ran'[b] = ran[b] \/ ran'[b] = ran[b] \o HeldRuns(b)
      /\ ~BatchFails(o) => \A b \in Burrows : ran'[b] = ran[b] \o HeldRuns(b)
    BY BatchRanEnd, Zenon
<1>4. /\ HeldAnswers \in Seq(Answers) /\ DueAnswers \in Seq(Answers) /\ Error \notin Range(HeldAnswers)
      /\ \A b \in Burrows : HeldRuns(b) \in Seq(Nat) /\ DueRuns(b) \in Seq(Nat)
    BY <1>1, DueTypes, Zenon
<1>5. /\ answers' \in Seq(Answers) /\ (Succeeded' <=> ~BatchFails(o))
    BY <1>1, <1>2, <1>4, Joined, Zenon DEF Succeeded
<1>6. HeldAnswers' = <<>> /\ \A b \in Burrows : HeldRuns(b)' = <<>>
    BY Constituents, Zenon DEF HeldAnswers, HeldRuns
<1>7. ASSUME Succeeded' PROVE expected' = (answers' \o HeldAnswers') \o DueAnswers'
  <2>1. expected = (answers \o HeldAnswers) \o DueAnswers
    BY <1>1, Zenon DEF IInv, Accounted
  <2>2. answers' = answers \o HeldAnswers /\ DueAnswers' = DueAnswers
    BY <1>2, <1>5, <1>7, Zenon
  <2>3. answers' \o <<>> = answers'
    BY <1>5, ConcatEmptySeq, Zenon
  <2> QED BY <1>6, <2>1, <2>2, <2>3, Zenon
<1>8. ASSUME Succeeded', NEW b \in Burrows
      PROVE  wanted'[b] = (ran'[b] \o HeldRuns(b)') \o DueRuns(b)'
  <2>1. wanted[b] = (ran[b] \o HeldRuns(b)) \o DueRuns(b)
    BY <1>1, Zenon DEF IInv, Accounted
  <2>2. ran'[b] = ran[b] \o HeldRuns(b) /\ DueRuns(b)' = DueRuns(b) /\ ran'[b] \in Seq(Nat)
    BY <1>3, <1>5, <1>8, Zenon
  <2>3. ran'[b] \o <<>> = ran'[b]
    BY <2>2, ConcatEmptySeq, Zenon
  <2> QED BY <1>6, <2>1, <2>2, <2>3, Zenon
<1>9. ASSUME NEW b \in Burrows PROVE IsPrefix(ran'[b], wanted'[b])
  <2>1. CASE ran'[b] = ran[b]
    BY <1>1, <2>1, Zenon
  <2>2. CASE ran'[b] = ran[b] \o HeldRuns(b)
    <3>1. wanted[b] = ran'[b] \o DueRuns(b) /\ ran'[b] \in Seq(Nat) /\ DueRuns(b) \in Seq(Nat)
      BY <1>1, <1>3, <1>4, <2>2, Zenon DEF IInv, Accounted
    <3> QED BY <3>1, PrefixConcat, Zenon
  <2> QED BY <1>3, <2>1, <2>2, Zenon
<1>10. Accounted'
    BY <1>7, <1>8, <1>9, Zenon DEF Accounted
<1> QED BY <1>3, <1>5, <1>10, Zenon

\* flushPendingExtended without ReadyForQuery.
LEMMA Flushing ==
    ASSUME IInv, Ordinary, pending # NoPending, NEW o \in Ends(pending.on, Outcomes), FlushPending(o),
           message' \in Messages, InFlight', message'.type # "Bind",
           BatchLost(o) => message' = NoMessage,
           message.type # "none", message.type # "Bind", session' = TRUE,
           ~BatchFails(o) => DueAnswers' = DueAnswers /\ \A b \in Burrows : DueRuns(b)' = DueRuns(b),
           UNCHANGED <<statements, portals, ready, client, released, messages, cycles>>
    PROVE  IInv'
<1>1. /\ tunnel' = BatchTunnels(o) /\ ran' = BatchRan(o) /\ answers' = answers \o BatchAnswers(o)
      /\ connected' = connected \cup pending.on /\ pending' = NoPending /\ failed' = BatchFails(o)
      /\ syncConsumed' = (syncConsumed \/ ~BatchLost(o)) /\ hung' = hung
      /\ UNCHANGED <<bound, binds, expected, wanted>>
    BY BatchSent, Zenon DEF FlushPending, client
<1>2. /\ TypeOK /\ ~failed /\ ~hung /\ ~ready /\ pending.on \in SUBSET Burrows
    BY Held, Zenon DEF IInv
<1>3. /\ answers' \in Seq(Answers) /\ ran' \in [Burrows -> Seq(Nat)]
      /\ (Succeeded' <=> ~BatchFails(o)) /\ Accounted'
    BY <1>1, BatchAccounts, Zenon
<1>4. /\ tunnel' \in [Burrows -> TunnelStates]
      /\ \A b \in Burrows : tunnel'[b].broken => b \in pending.on
      /\ ~BatchLost(o) => \A b \in Burrows : ~tunnel'[b].skipping /\ ~tunnel'[b].unread /\ ~tunnel'[b].broken
      /\ BatchLost(o) => BatchFails(o) /\ \E b \in pending.on : tunnel'[b].broken
    BY <1>1, BatchTunnelsEnd, Zenon
<1>5. TypeOK'
  <2>1. connected' \in SUBSET Burrows
    BY <1>1, <1>2, Zenon DEF TypeOK
  <2>2. failed' \in BOOLEAN /\ syncConsumed' \in BOOLEAN
    BY <1>1, Zenon DEF BatchFails
  <2> QED BY <1>1, <1>2, <1>3, <1>4, <2>1, <2>2, Constituents, Zenon DEF TypeOK
<1>6. Steady'
  <2>1. \A b \in Burrows : tunnel'[b].broken => b \in connected'
    BY <1>1, <1>4, Zenon
  <2>2. \A b \in Burrows : Astray(b)' => session' /\ failed'
    BY <1>1, <1>4, Zenon DEF Astray
  <2>3. (\A b \in Burrows : ~tunnel'[b].broken) => ~BatchLost(o)
    BY <1>2, <1>4, Zenon
  <2> QED BY <1>1, <1>2, <1>4, <2>1, <2>2, <2>3, Zenon DEF Steady
<1>7. Failing'
    BY <1>1, <1>2, <1>3, Zenon DEF Failing
<1>8. Holding' /\ TunnelsInStep'
    BY <1>1, Zenon DEF Holding, IInv, TunnelsInStep
<1>9. Known'
    BY <1>1, <1>2, Knows, Zenon DEF Known
<1> QED BY <1>3, <1>5, <1>6, <1>7, <1>8, <1>9, Zenon DEF IInv

\* A Describe or Close that first sends what is held back.
LEMMA FlushFirstIInv == ASSUME IInv, Ordinary, FlushFirst PROVE IInv'
<1>1. /\ message.type \in {"DescribeS", "DescribeP", "CloseS", "CloseP"} /\ ~failed /\ pending # NoPending
      /\ ~(message.type = "DescribeP" /\ pending.portal = message.name)
      /\ session' = TRUE
      /\ UNCHANGED <<statements, portals, ready, client, released, messages, cycles>>
    BY Zenon DEF FlushFirst, Handling
<1>2. PICK o \in Ends(pending.on, Outcomes) :
        /\ FlushPending(o)
        /\ message' = IF BatchLost(o) THEN NoMessage ELSE [message EXCEPT !.flushed = TRUE]
    BY Zenon DEF FlushFirst
<1>3. message.type \in {"DescribeS", "CloseS", "CloseP"}
    BY <1>1 DEF IInv, InFlight
<1>4. /\ message.type # "none" /\ message.type # "Bind" /\ message.type # "Execute"
      /\ message \in Messages /\ UNCHANGED <<bound, binds>>
    BY <1>1, <1>3 DEF IInv, TypeOK, client
<1>5. CASE BatchLost(o)
  <2>1. message' = NoMessage
    BY <1>2, <1>5, Zenon
  <2>2. message' \in Messages /\ message'.type = "none" /\ InFlight'
    BY <2>1, NoneInFlight, Constituents, Zenon
  <2>3. BatchFails(o) /\ message'.type # "Bind"
    BY <1>1, <1>5, <2>2, BatchTunnelsEnd, Zenon
  <2> QED BY <1>1, <1>2, <1>4, <2>1, <2>2, <2>3, Flushing, Zenon
<1>6. CASE ~BatchLost(o)
  <2>1. message' = [message EXCEPT !.flushed = TRUE]
    BY <1>2, <1>6, Zenon
  <2>2. /\ message' \in Messages /\ message'.type = message.type /\ message'.name = message.name
        /\ message'.flushed = TRUE
    <3>2. message'.type = message.type /\ message'.name = message.name /\ message'.statement = message.statement
      BY <1>4, <2>1, Zenon DEF Messages
    <3>1. message' \in Messages
      BY <1>4, <2>1, <3>2, Zenon DEF Messages
    <3>3. message'.flushed = TRUE
      BY <1>4, <2>1, Zenon DEF Messages
    <3> QED BY <3>1, <3>2, <3>3, Zenon
  <2>3. DueAnswers' = DueAnswers
    BY <1>3, <2>2, Zenon DEF DueAnswers
  <2>4. \A b \in Burrows : DueRuns(b)' = DueRuns(b)
    BY <1>4, <2>2, Zenon DEF DueRuns
  <2>5. InFlight'
    <3>1. pending' = NoPending /\ syncConsumed' /\ \A b \in Burrows : ~Astray(b)'
      <4>1. tunnel' = BatchTunnels(o) /\ pending' = NoPending /\ syncConsumed' = (syncConsumed \/ ~BatchLost(o))
        BY <1>2, Zenon DEF FlushPending
      <4>2. \A b \in Burrows : ~tunnel'[b].skipping /\ ~tunnel'[b].unread /\ ~tunnel'[b].broken
        BY <1>1, <1>6, <4>1, BatchTunnelsEnd, Zenon
      <4> QED BY <1>6, <4>1, <4>2, Zenon DEF Astray
    <3>2. message'.type = "CloseP" => bound'[message'.name] = Unbound
      BY <1>4, <2>2, Zenon DEF IInv, InFlight
    <3> QED BY <1>3, <2>2, <3>1, <3>2, Zenon DEF InFlight
  <2>6. message'.type # "Bind"
    BY <1>4, <2>2, Zenon
  <2> QED BY <1>1, <1>2, <1>4, <1>6, <2>2, <2>3, <2>4, <2>5, <2>6, Flushing, Zenon
<1> QED BY <1>5, <1>6, Zenon

\* Flush.
LEMMA HandleFlushIInv == ASSUME IInv, Ordinary, HandleFlush PROVE IInv'
<1>1. message.type = "Flush" /\ session' = session
    BY Zenon DEF HandleFlush, Handling
<1>2. CASE /\ session /\ pending # NoPending
           /\ \E o \in Ends(pending.on, Outcomes) : FlushPending(o)
           /\ UNCHANGED <<statements, portals>> /\ Exchanged
  <2>1. PICK o \in Ends(pending.on, Outcomes) : FlushPending(o)
    BY <1>2, Zenon
  <2>2. message' = NoMessage /\ UNCHANGED <<ready, client, released, messages, cycles>>
    BY <1>2, Zenon DEF Exchanged
  <2>3. /\ message' \in Messages /\ message'.type = "none" /\ InFlight'
        /\ DueAnswers' = <<>> /\ \A b \in Burrows : DueRuns(b)' = <<>>
    BY <2>2, NoneInFlight, Constituents, Zenon
  <2>4. DueAnswers = <<>> /\ \A b \in Burrows : DueRuns(b) = <<>>
    BY <1>1, Zenon DEF DueAnswers, DueRuns
  <2>5. message'.type # "Bind" /\ message.type # "none" /\ message.type # "Bind" /\ session' = TRUE
    BY <1>1, <1>2, <2>3 DEF IInv, TypeOK
  <2> QED BY <1>2, <2>1, <2>2, <2>3, <2>4, <2>5, Flushing, Zenon
<1>3. CASE ~(session /\ pending # NoPending) /\ Answered(<<>>) /\ UNCHANGED state
    BY <1>1, <1>3, FlushNothing, Zenon
<1> QED BY <1>2, <1>3, Zenon DEF HandleFlush

-----------------------------------------------------------------------------
(* Sync.                                                                   *)

\* The release at the end of serveQueries leaves the Tunnels in step unless one broke,
\* and without it the failure is still there for the Tunnels that are astray.
LEMMA Releasing ==
    ASSUME IInv, session, ~hung, hung' = hung, syncConsumed' \in BOOLEAN, failed' \in BOOLEAN,
           NEW post \in [Burrows -> TunnelStates], NEW held \in SUBSET Burrows, Release(post, held),
           \A b \in Burrows : post[b].broken => b \in held,
           failed' => \E b \in held : post[b].broken,
           ~failed' => \/ \E b \in held : post[b].broken
                       \/ \A b \in held : ~post[b].skipping /\ ~post[b].unread
    PROVE  /\ session' \in BOOLEAN /\ connected' \in SUBSET Burrows /\ tunnel' \in [Burrows -> TunnelStates]
           /\ Steady' /\ TunnelsInStep'
<1>1. CASE ~failed'
  <2>1. /\ session' = FALSE /\ connected' = {} /\ tunnel' = [b \in Burrows |-> FreshTunnel]
        /\ released' = {c \in {"broken", "skipping", "unread"} :
                         \E b \in held : post[b][c] /\ (c = "broken" \/ ~post[b].broken)}
    BY <1>1, Zenon DEF Release
  <2>2. /\ tunnel' \in [Burrows -> TunnelStates]
        /\ \A b \in Burrows : ~tunnel'[b].skipping /\ ~tunnel'[b].unread /\ ~tunnel'[b].broken
    BY <2>1, Constituents, Zenon
  <2>3. Steady'
    BY <2>2, Zenon DEF Steady, Astray
  <2>4. TunnelsInStep'
    <3>1. CASE \E b \in held : post[b].broken
      <4>1. "broken" \in released'
        BY <2>1, <3>1, Zenon
      <4> QED BY <4>1, Zenon DEF TunnelsInStep
    <3>2. CASE ~ \E b \in held : post[b].broken
      <4>1. \A b \in held : ~post[b].skipping /\ ~post[b].unread /\ ~post[b].broken
        BY <1>1, <3>2, Zenon
      <4>2. "broken" \notin released' /\ "skipping" \notin released' /\ "unread" \notin released'
        BY <2>1, <4>1, Zenon
      <4>3. released' = {}
        BY <2>1, <4>2, Zenon
      <4> QED BY <4>3, Zenon DEF TunnelsInStep
    <3> QED BY <3>1, <3>2, Zenon
  <2>5. session' \in BOOLEAN /\ connected' \in SUBSET Burrows
    BY <2>1, Zenon
  <2> QED BY <2>2, <2>3, <2>4, <2>5, Zenon
<1>2. CASE failed'
  <2>1. tunnel' = post /\ connected' = held /\ UNCHANGED <<session, released>>
    BY <1>2, Zenon DEF Release
  <2>2. PICK c \in held : post[c].broken
    BY <1>2, Zenon
  <2>3. Steady'
    <3>1. c \in Burrows /\ tunnel'[c].broken
      BY <2>1, <2>2, Zenon
    <3> QED BY <1>2, <2>1, <3>1, Zenon DEF Steady, Astray
  <2> QED BY <2>1, <2>3, Zenon DEF IInv, TunnelsInStep
<1> QED BY <1>1, <1>2, Zenon

\* The end of Sync with nothing held back.
LEMMA SyncedAlone ==
    ASSUME IInv, message.type = "Sync", pending = NoPending, message' = NoMessage,
           UNCHANGED <<statements, portals, hung, client, messages, cycles>>,
           UNCHANGED <<pending, ran>>, answers' = answers \/ answers' = Append(answers, Error),
           syncConsumed' \in BOOLEAN, failed' \in BOOLEAN, ready' \in BOOLEAN,
           session' \in BOOLEAN, connected' \in SUBSET Burrows, tunnel' \in [Burrows -> TunnelStates],
           Steady', TunnelsInStep',
           failed' => failed, ready' => ~failed', ready' \/ failed' = failed
    PROVE  IInv'
<1>1. UNCHANGED <<bound, binds, expected, wanted>>
    BY Zenon DEF client
<1>2. /\ TypeOK /\ answers \in Seq(Answers) /\ message.type # "none" /\ message.type # "Bind"
      /\ messages > MaxMessages
    BY Zenon DEF IInv, TypeOK, InFlight
<1>3. /\ ~ready /\ (~failed <=> Succeeded)
    BY <1>2, Handled, Zenon
<1>4. InFlight' /\ DueAnswers' = <<>> /\ \A b \in Burrows : DueRuns(b)' = <<>>
    BY NoneInFlight, Zenon
<1>5. /\ answers' \in Seq(Answers)
      /\ Succeeded' => Succeeded /\ answers' = answers
  <2>1. Append(answers, Error) \in Seq(Answers) /\ Error \in Range(Append(answers, Error))
    BY <1>2, Constituents, Appended, Zenon
  <2> QED BY <1>2, <2>1, Zenon DEF Succeeded
<1>6. TypeOK'
    BY <1>1, <1>2, <1>5, Constituents, Zenon DEF TypeOK
<1>7. Over'
    BY <1>2, Zenon DEF Over
<1>8. Failing' /\ Holding'
    BY <1>3, <1>5, <1>7, Zenon DEF Failing, Holding
<1>9. Known'
  <2>1. SUFFICES ASSUME ~failed', ~ready' PROVE Known'
    BY Zenon DEF Known
  <2>2. ~failed
    BY <2>1, Zenon
  <2>3. \A p \in Portals : bound[p] # Unbound => portals[p] = bound[p] /\ bound[p].bind # 0
    BY <1>2, <2>2, Knows, Zenon
  <2> QED BY <1>1, <2>3, Zenon DEF Known
<1>10. /\ DueAnswers = <<>> /\ HeldAnswers' = HeldAnswers
       /\ \A b \in Burrows : DueRuns(b) = <<>> /\ HeldRuns(b)' = HeldRuns(b)
  <2>1. DueAnswers = <<>> /\ \A b \in Burrows : DueRuns(b) = <<>>
    BY Zenon DEF DueAnswers, DueRuns
  <2> QED BY <2>1, Zenon DEF HeldAnswers, HeldRuns
<1>11. Accounted'
    BY <1>1, <1>4, <1>5, <1>10, Zenon DEF IInv, Accounted
<1> QED BY <1>4, <1>6, <1>8, <1>9, <1>11, Zenon DEF IInv

\* Sync of a client without a session.
LEMMA SyncUnopenedIInv ==
    ASSUME IInv, message.type = "Sync", SyncUnopened, message' = NoMessage,
           UNCHANGED <<statements, portals, hung, client, messages, cycles>>
    PROVE  IInv'
<1>1. /\ ~session /\ failed' = FALSE /\ ready' = TRUE
      /\ UNCHANGED <<pending, syncConsumed, session, connected, tunnel, answers, ran, released>>
    BY Zenon DEF SyncUnopened
<1>2. pending = NoPending /\ \A b \in Burrows : ~Astray(b)
    BY <1>1, Zenon DEF IInv, Holding, Steady
<1>3. Steady' /\ TunnelsInStep'
    BY <1>1, <1>2, Zenon DEF IInv, Steady, Astray, TunnelsInStep
<1>4. /\ syncConsumed' \in BOOLEAN /\ failed' \in BOOLEAN /\ ready' \in BOOLEAN /\ session' \in BOOLEAN
      /\ connected' \in SUBSET Burrows /\ tunnel' \in [Burrows -> TunnelStates]
    BY <1>1, Zenon DEF IInv, TypeOK
<1> QED BY <1>1, <1>2, <1>3, <1>4, SyncedAlone, Zenon

\* Sync with a request held back.
LEMMA SyncBatchIInv ==
    ASSUME IInv, Ordinary, message.type = "Sync", SyncBatch, message' = NoMessage,
           UNCHANGED <<statements, portals, hung, client, messages, cycles>>
    PROVE  IInv'
<1>1. session /\ pending # NoPending /\ syncConsumed' = syncConsumed
    BY Zenon DEF SyncBatch
<1>2. PICK o \in Ends(pending.on, Outcomes) :
         /\ answers' = answers \o BatchAnswers(o)
         /\ ran' = BatchRan(o)
         /\ pending' = NoPending
         /\ failed' = FALSE /\ ready' = TRUE
         /\ Release(BatchTunnels(o), connected \cup pending.on)
    BY BatchSent, Zenon DEF SyncBatch
<1>3. /\ UNCHANGED <<bound, binds, expected, wanted>>
      /\ TypeOK /\ syncConsumed \in BOOLEAN /\ connected \in SUBSET Burrows /\ messages > MaxMessages
    BY Zenon DEF client, IInv, TypeOK, InFlight
<1>4. ~hung /\ pending.on \in SUBSET Burrows
    BY <1>1, Held, Zenon
<1>5. /\ InFlight' /\ message' \in Messages
      /\ DueAnswers' = <<>> /\ \A b \in Burrows : DueRuns(b)' = <<>>
    BY NoneInFlight, Constituents, Zenon
<1>6. DueAnswers = <<>> /\ \A b \in Burrows : DueRuns(b) = <<>>
    BY Zenon DEF DueAnswers, DueRuns
<1>7. answers' \in Seq(Answers) /\ ran' \in [Burrows -> Seq(Nat)] /\ Accounted'
    BY <1>1, <1>2, <1>3, <1>5, <1>6, BatchAccounts, Zenon
<1> DEFINE post == BatchTunnels(o)
           held == connected \cup pending.on
<1>8. /\ post \in [Burrows -> TunnelStates]
      /\ \A b \in Burrows : post[b].broken => b \in pending.on
      /\ ~BatchLost(o) => \A b \in Burrows : ~post[b].skipping /\ ~post[b].unread /\ ~post[b].broken
      /\ BatchLost(o) => \E b \in pending.on : post[b].broken
    BY <1>1, BatchTunnelsEnd, Zenon
<1>9. Release(post, held) /\ held \in SUBSET Burrows /\ pending.on \subseteq held
    BY <1>2, <1>3, <1>4, Zenon
<1> HIDE DEF post, held
<1>10. /\ \A b \in Burrows : post[b].broken => b \in held
       /\ \/ \E b \in held : post[b].broken
          \/ \A b \in held : ~post[b].skipping /\ ~post[b].unread
    BY <1>8, <1>9, Zenon
<1>11. failed' \in BOOLEAN /\ ~failed' /\ syncConsumed' \in BOOLEAN /\ ready' \in BOOLEAN
    BY <1>1, <1>2, <1>3, Zenon
<1>12. /\ session' \in BOOLEAN /\ connected' \in SUBSET Burrows /\ tunnel' \in [Burrows -> TunnelStates]
       /\ Steady' /\ TunnelsInStep'
    BY <1>1, <1>4, <1>8, <1>9, <1>10, <1>11, Releasing, Zenon
<1>13. TypeOK'
    BY <1>2, <1>3, <1>5, <1>7, <1>11, <1>12, Constituents, Zenon DEF TypeOK
<1>14. Failing' /\ Holding' /\ Known'
    BY <1>2, Zenon DEF Failing, Holding, Known, Over
<1> QED BY <1>5, <1>7, <1>12, <1>13, <1>14, Zenon DEF IInv

\* Sync after the Proxy's own.
LEMMA SyncConsumedIInv ==
    ASSUME IInv, message.type = "Sync", SyncConsumed, message' = NoMessage,
           UNCHANGED <<statements, portals, hung, client, messages, cycles>>
    PROVE  IInv'
<1>1. /\ session /\ pending = NoPending /\ syncConsumed
      /\ syncConsumed' = FALSE /\ failed' = FALSE /\ ready' = TRUE
      /\ Release(tunnel, connected) /\ UNCHANGED <<pending, answers, ran>>
    BY Zenon DEF SyncConsumed
<1>2. /\ tunnel \in [Burrows -> TunnelStates] /\ connected \in SUBSET Burrows /\ ~hung
      /\ syncConsumed' \in BOOLEAN /\ failed' \in BOOLEAN /\ ready' \in BOOLEAN /\ ~failed'
    BY <1>1, Zenon DEF IInv, TypeOK, Steady
<1>3. /\ \A b \in Burrows : tunnel[b].broken => b \in connected
      /\ (\A b \in Burrows : ~tunnel[b].broken) => \A b \in Burrows : ~tunnel[b].unread /\ ~tunnel[b].skipping
    BY <1>1, Zenon DEF IInv, Steady
<1>4. \/ \E b \in connected : tunnel[b].broken
      \/ \A b \in connected : ~tunnel[b].skipping /\ ~tunnel[b].unread
    BY <1>2, <1>3, Zenon
<1>5. /\ session' \in BOOLEAN /\ connected' \in SUBSET Burrows /\ tunnel' \in [Burrows -> TunnelStates]
      /\ Steady' /\ TunnelsInStep'
    BY <1>1, <1>2, <1>3, <1>4, Releasing, Zenon
<1> QED BY <1>1, <1>2, <1>5, SyncedAlone, Zenon

\* The Tunnels after a Sync that the broken ones refuse, and after one whose answers
\* are lost at the Tunnels in `lost`.
RefusedTunnels ==
    [b \in Burrows |->
       [tunnel[b] EXCEPT !.unread = @ \/ (b \in connected /\ b < Min({c \in connected : tunnel[c].broken}))]]
SentTunnels(lost) ==
    [b \in Burrows |->
       IF b \in lost THEN [tunnel[b] EXCEPT !.broken = TRUE]
       ELSE IF b \in connected
         THEN [Synced(tunnel[b]) EXCEPT !.unread = Behind(b, lost) \/ (@ /\ tunnel[b].stale # "no")]
       ELSE tunnel[b]]

\* Sync to the Tunnels, one of them broken.
LEMMA SyncRefused ==
    ASSUME IInv, message.type = "Sync", message' = NoMessage,
           UNCHANGED <<statements, portals, hung, client, messages, cycles>>,
           session, pending = NoPending, UNCHANGED <<pending, syncConsumed, ran>>,
           {b \in connected : tunnel[b].broken} # {},
           UNCHANGED <<failed, ready>>, answers' = Append(answers, Error),
           Release(RefusedTunnels, connected)
    PROVE  IInv'
<1> DEFINE broken == {b \in connected : tunnel[b].broken}
           post == RefusedTunnels
<1>1. /\ TypeOK /\ tunnel \in [Burrows -> TunnelStates] /\ connected \in SUBSET Burrows /\ ~hung
      /\ syncConsumed' \in BOOLEAN /\ failed' \in BOOLEAN /\ ready' \in BOOLEAN
      /\ \A b \in Burrows : tunnel[b].broken => b \in connected
    BY Zenon DEF IInv, TypeOK, Steady
<1>2. PICK c \in connected : tunnel[c].broken
    BY Zenon
<1>3. failed /\ ~ready
  <2>1. c \in Burrows /\ message.type # "none"
    BY <1>1, Zenon
  <2>2. ~ready
    BY <2>1, Handled, Zenon
  <2> QED BY <1>2, <2>1, <2>2, Zenon DEF IInv, Steady, Astray
<1>4. ASSUME NEW b \in Burrows
      PROVE  post[b] \in TunnelStates /\ post[b].broken = tunnel[b].broken
  <2>1. PICK v \in BOOLEAN : v = (tunnel[b].unread \/ (b \in connected /\ b < Min(broken)))
    BY Zenon
  <2>2. post[b] = [tunnel[b] EXCEPT !.unread = v] /\ tunnel[b] \in TunnelStates
    BY <1>1, <2>1, Zenon DEF RefusedTunnels
  <2> HIDE DEF post
  <2> QED BY <2>2, Reading
<1>5. Release(post, connected) /\ post = [b \in Burrows |-> post[b]]
    BY Zenon DEF RefusedTunnels
<1> HIDE DEF post
<1>6. post \in [Burrows -> TunnelStates]
    BY <1>4, <1>5, Zenon
<1>7. /\ \A b \in Burrows : post[b].broken => b \in connected
      /\ \E b \in connected : post[b].broken
  <2>1. c \in Burrows
    BY <1>1, Zenon
  <2> QED BY <1>1, <1>2, <1>4, <2>1, Zenon
<1>8. /\ session' \in BOOLEAN /\ connected' \in SUBSET Burrows /\ tunnel' \in [Burrows -> TunnelStates]
      /\ Steady' /\ TunnelsInStep'
    BY <1>1, <1>5, <1>6, <1>7, Releasing, Zenon
<1> QED BY <1>1, <1>3, <1>8, SyncedAlone, Zenon

\* Sync to the Tunnels, none of them broken before.
LEMMA SyncSent ==
    ASSUME IInv, message.type = "Sync", message' = NoMessage,
           UNCHANGED <<statements, portals, hung, client, messages, cycles>>,
           session, pending = NoPending, UNCHANGED <<pending, syncConsumed, ran>>,
           {b \in connected : tunnel[b].broken} = {}, NEW lost \in SUBSET connected,
           failed' = (failed /\ lost # {}), ready' = (lost = {}),
           answers' = IF lost = {} THEN answers ELSE Append(answers, Error),
           Release(SentTunnels(lost), connected)
    PROVE  IInv'
<1> DEFINE post == SentTunnels(lost)
           U(b) == Behind(b, lost) \/ (Synced(tunnel[b]).unread /\ tunnel[b].stale # "no")
<1>1. /\ TypeOK /\ tunnel \in [Burrows -> TunnelStates] /\ connected \in SUBSET Burrows /\ ~hung
      /\ syncConsumed' \in BOOLEAN /\ failed \in BOOLEAN
      /\ failed' \in BOOLEAN /\ ready' \in BOOLEAN
      /\ \A b \in Burrows : tunnel[b].broken => b \in connected
    BY Zenon DEF IInv, TypeOK, Steady
<1>2. \A b \in Burrows : ~tunnel[b].broken /\ ~tunnel[b].unread
  <2>1. \A b \in Burrows : ~tunnel[b].broken
    BY <1>1, Zenon
  <2> QED BY <2>1, Zenon DEF IInv, Steady
<1>3. /\ \A b \in Burrows : b \in lost => post[b] = [tunnel[b] EXCEPT !.broken = TRUE]
      /\ \A b \in Burrows : b \notin lost /\ b \in connected
                            => post[b] = [Synced(tunnel[b]) EXCEPT !.unread = U(b)]
      /\ \A b \in Burrows : b \notin lost /\ b \notin connected => post[b] = tunnel[b]
      /\ Release(post, connected) /\ post = [b \in Burrows |-> post[b]]
    BY Zenon DEF SentTunnels
<1>4. \A b \in Burrows : U(b) \in BOOLEAN /\ (U(b) => lost # {})
  <2>1. \A b \in Burrows : ~Synced(tunnel[b]).unread
    BY <1>1, <1>2, Syncing, Zenon
  <2> QED BY <2>1, Zenon DEF Behind
<1> HIDE DEF post, U
<1>5. ASSUME NEW b \in Burrows
      PROVE  /\ post[b] \in TunnelStates
             /\ post[b].broken <=> b \in lost
             /\ b \in connected /\ lost = {} => ~post[b].skipping /\ ~post[b].unread
  <2>0. tunnel[b] \in TunnelStates
    BY <1>1, Zenon
  <2>1. CASE b \in lost
    BY <1>3, <2>0, <2>1, Breaking, Zenon
  <2>2. CASE b \notin lost /\ b \in connected
    <3>1. post[b] = [Synced(tunnel[b]) EXCEPT !.unread = U(b)]
      BY <1>3, <2>2, Zenon
    <3>2. PICK v \in BOOLEAN : v = U(b) /\ (v => lost # {})
      BY <1>4, Zenon
    <3>3. PICK t \in TunnelStates : t = Synced(tunnel[b]) /\ t.skipping = FALSE /\ t.broken = tunnel[b].broken
      BY <2>0, Syncing, Zenon
    <3>4. post[b] = [t EXCEPT !.unread = v]
      BY <3>1, <3>2, <3>3, Zenon
    <3>5. /\ post[b] \in TunnelStates /\ post[b].skipping = t.skipping
          /\ post[b].broken = t.broken /\ post[b].unread = v
      BY <3>4, Reading
    <3> QED BY <1>2, <2>2, <3>2, <3>3, <3>5, Zenon
  <2>3. CASE b \notin lost /\ b \notin connected
    BY <1>2, <1>3, <2>0, <2>3, Zenon
  <2> QED BY <2>1, <2>2, <2>3, Zenon
<1>6. post \in [Burrows -> TunnelStates]
    BY <1>3, <1>5, Zenon
<1>7. /\ \A b \in Burrows : post[b].broken => b \in connected
      /\ lost # {} => \E b \in connected : post[b].broken
      /\ lost = {} => \A b \in connected : ~post[b].skipping /\ ~post[b].unread
    BY <1>1, <1>5, Zenon
<1>8. /\ failed' => \E b \in connected : post[b].broken
      /\ ~failed' => \/ \E b \in connected : post[b].broken
                     \/ \A b \in connected : ~post[b].skipping /\ ~post[b].unread
    BY <1>7, Zenon
<1>9. /\ session' \in BOOLEAN /\ connected' \in SUBSET Burrows /\ tunnel' \in [Burrows -> TunnelStates]
      /\ Steady' /\ TunnelsInStep'
    BY <1>1, <1>3, <1>6, <1>7, <1>8, Releasing, Zenon
<1>10. /\ answers' = answers \/ answers' = Append(answers, Error)
       /\ failed' => failed
       /\ ready' => ~failed'
       /\ ready' \/ failed' = failed
    BY <1>1, Zenon
<1> QED BY <1>1, <1>9, <1>10, SyncedAlone, Zenon

\* Sync to the Tunnels.
LEMMA SyncTunnelsIInv ==
    ASSUME IInv, message.type = "Sync", SyncTunnels, message' = NoMessage,
           UNCHANGED <<statements, portals, hung, client, messages, cycles>>
    PROVE  IInv'
<1>1. session /\ pending = NoPending /\ UNCHANGED <<pending, syncConsumed, ran>>
    BY Zenon DEF SyncTunnels
<1>2. \/ /\ {b \in connected : tunnel[b].broken} # {}
         /\ UNCHANGED <<failed, ready>>
         /\ answers' = Append(answers, Error)
         /\ Release(RefusedTunnels, connected)
      \/ /\ {b \in connected : tunnel[b].broken} = {}
         /\ \E lost \in SUBSET connected :
              /\ failed' = (failed /\ lost # {})
              /\ ready' = (lost = {})
              /\ answers' = IF lost = {} THEN answers ELSE Append(answers, Error)
              /\ Release(SentTunnels(lost), connected)
  <2>1. (IF "transport" \in Faults THEN SUBSET connected ELSE {{}}) \subseteq SUBSET connected
    BY Zenon
  <2>2. {b \in connected : tunnel[b].broken} = {} => StaleErrors = {}
    <3>1. connected \in SUBSET Burrows /\ \A b \in Burrows : tunnel[b].broken => b \in connected
      BY Zenon DEF IInv, TypeOK, Steady
    <3> QED BY <3>1, Zenon DEF IInv, Steady, StaleErrors
  <2>3. CASE {b \in connected : tunnel[b].broken} # {}
    BY <2>3, Zenon DEF SyncTunnels, RefusedTunnels
  <2>4. CASE {b \in connected : tunnel[b].broken} = {}
    <3>1. StaleErrors = {}
      BY <2>2, <2>4, Zenon
    <3>2. PICK lost \in SUBSET connected :
            /\ failed' = (failed /\ lost \cup StaleErrors # {})
            /\ ready' = (lost \cup StaleErrors = {})
            /\ answers' = IF lost \cup StaleErrors = {} THEN answers ELSE Append(answers, Error)
            /\ Release(SentTunnels(lost), connected)
      BY <2>1, <2>4, Zenon DEF SyncTunnels, SentTunnels
    <3>3. lost \cup StaleErrors = lost
      BY <3>1, Zenon
    <3>4. /\ failed' = (failed /\ lost # {})
          /\ ready' = (lost = {})
          /\ answers' = IF lost = {} THEN answers ELSE Append(answers, Error)
      BY ONLY <3>2, <3>3, Zenon
    <3> QED BY <2>4, <3>2, <3>4, Zenon
  <2> QED BY <2>3, <2>4, Zenon
<1> QED BY <1>1, <1>2, SyncRefused, SyncSent, Zenon

\* Sync.
LEMMA HandleSyncIInv == ASSUME IInv, Ordinary, HandleSync PROVE IInv'
<1>1. message.type = "Sync"
    BY Zenon DEF HandleSync, Handling
<1>2. /\ SyncUnopened \/ SyncBatch \/ SyncConsumed \/ SyncTunnels
      /\ message' = NoMessage
      /\ UNCHANGED <<statements, portals, hung, client, messages, cycles>>
    BY Zenon DEF HandleSync
<1> QED BY <1>1, <1>2, SyncUnopenedIInv, SyncBatchIInv, SyncConsumedIInv, SyncTunnelsIInv, Zenon

-----------------------------------------------------------------------------
(* Handlers that ask the first Burrow.                                     *)

INSTANCE WellFoundedInduction

\* The order of the Burrows' positions.
Below == {ss \in Nat \X Nat : ss[1] < ss[2]}

\* Min is an element of every nonempty set of positions.
LEMMA MinIn ==
    ASSUME NEW S \in SUBSET Nat, S # {}
    PROVE  Min(S) \in S
<1>1. IsWellFoundedOn(Below, Nat)
  <2>1. Below = OpToRel(<, Nat)
    BY Zenon DEF Below, OpToRel
  <2> QED BY <2>1, NatLessThanWellFounded, Zenon
<1>2. PICK x \in S : \A y \in S : <<y, x>> \notin Below
    BY <1>1, WFMin, Zenon
<1>3. ASSUME NEW y \in S PROVE x <= y
  <2>1. x \in Nat /\ y \in Nat
    BY Zenon
  <2>2. ~(y < x)
    BY <1>2, <2>1, Zenon DEF Below
  <2> QED BY <2>1, <2>2
<1> QED BY <1>3, Zenon DEF Min

\* Describe of a statement, on the first Burrow.
LEMMA HandleDescribeSIInv == ASSUME IInv, Ordinary, HandleDescribeS PROVE IInv'
<1> DEFINE on == {Min(Burrows)}
           reply == Answer("describe", 0)
<1>1. /\ message.type = "DescribeS" /\ pending = NoPending /\ (message.flushed \/ ~failed)
      /\ session' = TRUE /\ Relay(on, Outcomes, Burrows, tunnel, reply, <<>>)
      /\ Exchanged /\ UNCHANGED <<statements, portals, pending, syncConsumed>>
    BY Zenon DEF HandleDescribeS, Handling, Direct
<1>2. /\ message.type # "none" /\ message.type # "Bind" /\ message.type # "Execute" /\ 0 \in Nat
      /\ tunnel \in [Burrows -> TunnelStates] /\ portals' \in [Portals -> BoundPortals]
    BY <1>1, Zenon DEF IInv, TypeOK
<1>3. on \in SUBSET Burrows /\ Outcomes \in SUBSET Outcomes /\ on \subseteq Burrows /\ <<>> \in Seq(Nat)
    BY MinIn, ProtocolAssumption
<1>4. reply \in Answers /\ reply # Error
    BY <1>2, AnswerKinds, Zenon
<1>5. DueAnswers = <<reply>>
    BY <1>1, Zenon DEF DueAnswers
<1> HIDE DEF on, reply
<1>6. \A b \in Burrows : DueRuns(b) = IF b \in on THEN <<>> ELSE <<>>
    BY <1>2, Zenon DEF DueRuns
<1>7. ~failed => \A p \in Portals : bound[p] # Unbound => portals'[p] = bound[p] /\ bound[p].bind # 0
    BY <1>1, <1>2, Knows, Zenon
<1>8. DueExchange(on, Outcomes, Burrows, tunnel, reply, <<>>)
    BY <1>2, <1>3, <1>4, <1>5, <1>6, Zenon DEF DueExchange
<1> QED BY <1>1, <1>2, <1>7, <1>8, Relaying, Zenon

\* A Parse of materializeStatement that fails ends its handler.
LEMMA MaterializeFailsIInv == ASSUME IInv, Ordinary, MaterializeFails PROVE IInv'
<1> DEFINE on == Materialized
<1>1. /\ message.type # "none" /\ (~failed \/ message.flushed) /\ pending = NoPending
      /\ session' = TRUE /\ on \in SUBSET Burrows
      /\ Exchanged /\ UNCHANGED <<statements, portals, pending, syncConsumed, ran>>
  <2>1. CASE Handling({"Bind"}) /\ ~failed /\ ~HoldsBack(message.statement)
    <3>1. message.type = "Bind" /\ message.statement \in Statements
      BY <2>1, Zenon DEF Handling, IInv, TypeOK, Messages
    <3>2. Route[message.statement] \in SUBSET Burrows
      BY <3>1, ProtocolAssumption, Zenon
    <3> QED BY <2>1, <3>1, <3>2, Zenon DEF MaterializeFails, IInv, InFlight, Materialized
  <2>2. CASE Handling({"DescribeS"}) /\ Direct
    <3>1. message.type = "DescribeS"
      BY <2>2, Zenon DEF Handling
    <3>2. {Min(Burrows)} \in SUBSET Burrows
      BY MinIn, ProtocolAssumption
    <3> QED BY <2>2, <3>1, <3>2, Zenon DEF MaterializeFails, Direct, Materialized
  <2> QED BY <2>1, <2>2, Zenon DEF MaterializeFails
<1> DEFINE stops(o) == {b \in on : o[b] \in {"bindError", "lost"}}
           parsed(o) == {b \in on : Sent(on, o) = on /\ \A c \in stops(o) : b <= c}
           refusing(o) == {b \in parsed(o) : o[b] \in {"bindError", "forgotten"}}
<1>2. PICK o \in Ends(on, Parses) :
        /\ \E b \in on : o[b] # "ok"
        /\ connected' = connected \cup Sent(on, o)
        /\ tunnel' = [b \in Burrows |->
             IF b \in refusing(o) THEN [tunnel[b] EXCEPT !.skipping = TRUE]
             ELSE IF b \in parsed(o) /\ o[b] = "lost" THEN [tunnel[b] EXCEPT !.broken = TRUE]
             ELSE tunnel[b]]
        /\ hung' = (Sent(on, o) = on /\ (stops(o) = {} \/ \E b \in refusing(o) : tunnel[b].skipping))
        /\ failed' = (failed \/ ~hung')
        /\ answers' = IF hung' THEN answers ELSE Append(answers, Error)
    BY Zenon DEF MaterializeFails
<1>3. o \in [on -> Parses] /\ Sent(on, o) = on
  <2>1. "unsent" \notin Parses
    BY Opens, Zenon DEF Parses, Ordinary
  <2> QED BY <2>1, AllAreSent, Zenon
<1>4. \A b \in on : o[b] \in {"ok", "lost"} \/ (o[b] = "bindError" /\ ~syncConsumed)
    BY <1>3, Opens, Zenon DEF Parses, Outcomes, Ordinary
<1>5. /\ TypeOK /\ ~ready /\ hung = FALSE /\ (~failed <=> Succeeded)
      /\ tunnel \in [Burrows -> TunnelStates] /\ answers \in Seq(Answers) /\ connected \in SUBSET Burrows
      /\ \A b \in Burrows : ~tunnel[b].skipping /\ ~tunnel[b].unread /\ ~tunnel[b].broken
    BY <1>1, Handled, Zenon DEF IInv, TypeOK, Astray
<1> DEFINE R == refusing(o)
           L == {b \in parsed(o) : o[b] = "lost"}
<1>6. /\ R \subseteq on /\ L \subseteq on
      /\ \A b \in R : ~syncConsumed
    BY <1>4, Zenon
<1>7. hung' = FALSE
  <2>1. stops(o) # {}
    BY <1>2, <1>4, Zenon
  <2>2. ~ \E b \in R : tunnel[b].skipping
    BY <1>1, <1>5, <1>6, Zenon
  <2> QED BY <1>2, <1>3, <2>1, <2>2, Zenon
<1>8. failed' = TRUE /\ answers' = Append(answers, Error) /\ connected' = connected \cup on
    BY <1>2, <1>3, <1>7, Zenon
<1>9. /\ \A b \in Burrows : b \in R => tunnel'[b] = [tunnel[b] EXCEPT !.skipping = TRUE]
      /\ \A b \in Burrows : b \notin R /\ b \in L => tunnel'[b] = [tunnel[b] EXCEPT !.broken = TRUE]
      /\ \A b \in Burrows : b \notin R /\ b \notin L => tunnel'[b] = tunnel[b]
      /\ tunnel' = [b \in Burrows |-> tunnel'[b]]
    BY <1>2, Zenon
<1> HIDE DEF on, R, L, stops, parsed, refusing
<1>10. ASSUME NEW b \in Burrows
       PROVE  /\ tunnel'[b] \in TunnelStates
              /\ tunnel'[b].broken => b \in on
              /\ ~tunnel'[b].unread
              /\ tunnel'[b].skipping => b \in R
  <2>0. tunnel[b] \in TunnelStates /\ ~tunnel[b].skipping /\ ~tunnel[b].unread /\ ~tunnel[b].broken
    BY <1>5, Zenon
  <2>1. CASE b \in R
    <3>1. tunnel'[b] \in TunnelStates
      BY <1>9, <2>0, <2>1, Zenon DEF TunnelStates
    <3>2. tunnel'[b].broken = tunnel[b].broken /\ tunnel'[b].unread = tunnel[b].unread
      BY <1>9, <2>0, <2>1, Zenon DEF TunnelStates
    <3> QED BY <2>0, <2>1, <3>1, <3>2, Zenon
  <2>2. CASE b \notin R /\ b \in L
    <3>1. tunnel'[b] \in TunnelStates
      BY <1>9, <2>0, <2>2, Breaking, Zenon
    <3>2. tunnel'[b].skipping = tunnel[b].skipping /\ tunnel'[b].unread = tunnel[b].unread
      BY <1>9, <2>0, <2>2, Zenon DEF TunnelStates
    <3> QED BY <1>6, <2>0, <2>2, <3>1, <3>2, Zenon
  <2>3. CASE b \notin R /\ b \notin L
    BY <1>9, <2>0, <2>3, Zenon
  <2> QED BY <2>1, <2>2, <2>3, Zenon
<1>11. tunnel' \in [Burrows -> TunnelStates]
    BY <1>9, <1>10, Zenon
<1>12. /\ message' = NoMessage /\ UNCHANGED <<ready, released, messages, cycles>>
       /\ UNCHANGED <<bound, binds, expected, wanted>>
    BY <1>1, Zenon DEF Exchanged, client
<1>13. InFlight'
    BY <1>12, NoneInFlight, Zenon
<1>14. answers' \in Seq(Answers) /\ ~Succeeded'
    BY <1>5, <1>8, Constituents, Appended, Zenon DEF Succeeded
<1>15. TypeOK'
  <2>1. connected' \in SUBSET Burrows
    BY <1>1, <1>5, <1>8, Zenon
  <2> QED BY <1>1, <1>5, <1>7, <1>8, <1>11, <1>12, <1>14, <2>1, Constituents, Zenon DEF TypeOK
<1>16. Steady'
  <2>1. \A b \in Burrows : tunnel'[b].broken => b \in connected'
    BY <1>8, <1>10, Zenon
  <2>2. \A b \in Burrows : ~tunnel'[b].unread /\ (tunnel'[b].skipping => ~syncConsumed)
    BY <1>6, <1>10, Zenon
  <2> QED BY <1>1, <1>7, <1>8, <2>1, <2>2, Zenon DEF Steady, Astray
<1>17. Failing' /\ Holding' /\ Known'
    BY <1>1, <1>5, <1>8, <1>12, <1>14, Zenon DEF Failing, Holding, Known
<1>18. Accounted' /\ TunnelsInStep'
    BY <1>1, <1>12, <1>14, Zenon DEF IInv, Accounted, TunnelsInStep
<1> QED BY <1>13, <1>15, <1>16, <1>17, <1>18, Zenon DEF IInv

\* An Execute or Describe whose portal is not held back finds it open, with the
\* client's last Bind of it, on all the Burrows it is sent to.
LEMMA OpenPortal ==
    ASSUME IInv, message.type \in {"DescribeP", "Execute"}, ~failed,
           pending = NoPending \/ pending.portal # message.name
    PROVE  /\ pending = NoPending /\ portals[message.name] = bound[message.name]
           /\ bound[message.name].on \in SUBSET Burrows /\ bound[message.name].on # {}
           /\ Min(bound[message.name].on) \in bound[message.name].on
           /\ bound[message.name].bind \in Nat /\ bound[message.name].bind # 0
           /\ \A b \in bound[message.name].on : tunnel[b].portals[message.name] = bound[message.name].bind
<1> DEFINE p == message.name
<1>1. TypeOK /\ p \in Portals /\ message.type # "none" /\ message.type # "Bind"
    BY Zenon DEF IInv, TypeOK, Messages, OfPortal
<1>2. NoPending.portal # p
    BY <1>1, ProtocolAssumption, Constituents, Zenon
<1>3. /\ bound[p].bind # 0 /\ pending = NoPending
      /\ \A b \in bound[p].on : tunnel[b].portals[p] = bound[p].bind
    BY <1>2, Zenon DEF IInv, InFlight
<1>4. portals[p] = bound[p]
    BY <1>1, <1>3, Knows, Constituents, Zenon
<1>5. bound[p] \in BoundPortals
    BY <1>1, Zenon DEF TypeOK
<1>6. bound[p].bind \in Nat /\ bound[p].on \in SUBSET Burrows /\ bound[p].on # {}
    BY <1>5, Zenon DEF BoundPortals
<1>7. Min(bound[p].on) \in bound[p].on
  <2>1. bound[p].on \in SUBSET Nat /\ bound[p].on # {}
    BY <1>6, ProtocolAssumption, Zenon
  <2> QED BY <2>1, MinIn, Zenon
<1> QED BY <1>3, <1>4, <1>6, <1>7, Zenon

\* Describe of an open portal.
LEMMA HandleDescribePIInv == ASSUME IInv, Ordinary, HandleDescribeP PROVE IInv'
<1> DEFINE p == message.name
           on == portals[p].on
           reply == Answer("describe", tunnel[Min(on)].portals[p])
<1>1. /\ message.type = "DescribeP" /\ pending = NoPending /\ (message.flushed \/ ~failed)
      /\ session' = TRUE /\ Relay(on, Outcomes, Having(p), tunnel, reply, <<>>)
      /\ Exchanged /\ UNCHANGED <<statements, portals, pending, syncConsumed>>
    BY Zenon DEF HandleDescribeP, Handling, Direct
<1>2. /\ message.type # "none" /\ message.type # "Bind" /\ message.type # "Execute" /\ ~failed
      /\ message.type \in {"DescribeP", "Execute"}
      /\ tunnel \in [Burrows -> TunnelStates] /\ portals' \in [Portals -> BoundPortals]
    BY <1>1, Zenon DEF IInv, TypeOK, InFlight
<1>3. /\ on \in SUBSET Burrows /\ on # {} /\ Min(on) \in on
      /\ bound[p].bind \in Nat /\ bound[p].bind # 0
      /\ \A b \in on : tunnel[b].portals[p] = bound[p].bind
  <2>1. /\ portals[p] = bound[p] /\ bound[p].on \in SUBSET Burrows /\ bound[p].on # {}
        /\ Min(bound[p].on) \in bound[p].on /\ bound[p].bind \in Nat /\ bound[p].bind # 0
        /\ \A b \in bound[p].on : tunnel[b].portals[p] = bound[p].bind
    BY <1>1, <1>2, OpenPortal, Zenon
  <2> QED BY <2>1, Zenon
<1>4. reply = Answer("describe", bound[p].bind)
    BY <1>3, Zenon
<1>5. DueAnswers = <<reply>>
    BY <1>1, <1>4, Zenon DEF DueAnswers
<1>6. reply \in Answers /\ reply # Error
    BY <1>3, <1>4, AnswerKinds, Zenon
<1>7. Outcomes \in SUBSET Outcomes /\ on \subseteq Having(p) /\ <<>> \in Seq(Nat)
    BY <1>3 DEF Having
<1>8. ~failed => \A r \in Portals : bound[r] # Unbound => portals'[r] = bound[r] /\ bound[r].bind # 0
    BY <1>1, <1>2, Knows, Zenon
<1> HIDE DEF p, on, reply
<1>9. \A b \in Burrows : DueRuns(b) = IF b \in on THEN <<>> ELSE <<>>
    BY <1>2, Zenon DEF DueRuns
<1>10. DueExchange(on, Outcomes, Having(p), tunnel, reply, <<>>)
    BY <1>2, <1>3, <1>5, <1>6, <1>7, <1>9, Zenon DEF DueExchange
<1> QED BY <1>1, <1>2, <1>8, <1>10, Relaying, Zenon

\* Execute of an open portal.
LEMMA HandleExecuteIInv == ASSUME IInv, Ordinary, HandleExecute PROVE IInv'
<1> DEFINE p == message.name
           on == portals[p].on
           n == tunnel[Min(on)].portals[p]
           reply == Answer("result", n)
<1>1. /\ message.type = "Execute" /\ ~failed /\ pending.portal # p
      /\ session' = TRUE /\ Relay(on, Outcomes, Having(p), tunnel, reply, <<n>>)
      /\ Exchanged /\ UNCHANGED <<statements, portals, pending, syncConsumed>>
    BY Zenon DEF HandleExecute, Handling
<1>2. /\ message.type # "none" /\ message.type # "Bind"
      /\ message.type \in {"DescribeP", "Execute"}
      /\ tunnel \in [Burrows -> TunnelStates] /\ portals' \in [Portals -> BoundPortals]
    BY <1>1, Zenon DEF IInv, TypeOK
<1>3. /\ pending = NoPending /\ on = bound[p].on
      /\ on \in SUBSET Burrows /\ on # {} /\ Min(on) \in on
      /\ bound[p].bind \in Nat /\ bound[p].bind # 0
      /\ \A b \in on : tunnel[b].portals[p] = bound[p].bind
  <2>1. /\ pending = NoPending /\ portals[p] = bound[p] /\ bound[p].on \in SUBSET Burrows /\ bound[p].on # {}
        /\ Min(bound[p].on) \in bound[p].on /\ bound[p].bind \in Nat /\ bound[p].bind # 0
        /\ \A b \in bound[p].on : tunnel[b].portals[p] = bound[p].bind
    BY <1>1, <1>2, OpenPortal, Zenon
  <2> QED BY <2>1, Zenon
<1>4. n = bound[p].bind
    BY <1>3, Zenon
<1>5. DueAnswers = <<reply>>
    BY <1>1, <1>4, Zenon DEF DueAnswers
<1>6. reply \in Answers /\ reply # Error
    BY <1>3, <1>4, AnswerKinds, Zenon
<1>7. Outcomes \in SUBSET Outcomes /\ on \subseteq Having(p) /\ <<n>> \in Seq(Nat)
    BY <1>3, <1>4 DEF Having
<1>8. \A r \in Portals : bound[r] # Unbound => portals'[r] = bound[r] /\ bound[r].bind # 0
    BY <1>1, <1>2, Knows, Zenon
<1>9. \A b \in Burrows : DueRuns(b) = IF b \in on THEN <<n>> ELSE <<>>
    BY <1>1, <1>3, <1>4, Zenon DEF DueRuns
<1> HIDE DEF p, on, n, reply
<1>10. DueExchange(on, Outcomes, Having(p), tunnel, reply, <<n>>)
    BY <1>1, <1>2, <1>3, <1>5, <1>6, <1>7, <1>9, Zenon DEF DueExchange
<1> QED BY <1>1, <1>2, <1>3, <1>8, <1>10, Relaying, Zenon

-----------------------------------------------------------------------------
(* The specification.                                                      *)

\* A step that changes nothing.
LEMMA Stuttering == ASSUME IInv, UNCHANGED vars PROVE IInv'
<1>1. /\ UNCHANGED <<statements, portals, pending, failed, syncConsumed, session, connected, tunnel, message>>
      /\ UNCHANGED <<hung, ready, bound, binds, expected, wanted, answers, ran, released, messages, cycles>>
    BY Zenon DEF vars, state, client
<1>2. TypeOK' /\ Steady' /\ TunnelsInStep'
    BY <1>1, Zenon DEF IInv, TypeOK, Steady, Astray, TunnelsInStep
<1>3. Failing' /\ Holding' /\ InFlight' /\ Known'
    BY <1>1, Zenon DEF IInv, Failing, Succeeded, Over, Holding, InFlight, Astray, Known
<1>4. Accounted'
    BY <1>1, Zenon DEF IInv, Accounted, Succeeded, HeldAnswers, DueAnswers, HeldRuns, DueRuns
<1> QED BY <1>2, <1>3, <1>4, Zenon DEF IInv

\* Every step of the client and of serveQueries preserves the invariant.
LEMMA NextIInv == ASSUME IInv, Ordinary, [Next]_vars PROVE IInv'
<1>1. ASSUME NEW q \in Statements, SendParse(q) \/ SendDescribeS(q) \/ SendCloseS(q) PROVE IInv'
    BY <1>1, SendParseIInv, SendDescribeSIInv, SendCloseSIInv, Zenon
<1>2. ASSUME NEW p \in Portals, NEW q \in Statements, SendBind(p, q) PROVE IInv'
    BY <1>2, SendBindIInv, Zenon
<1>3. ASSUME NEW p \in Portals, SendDescribeP(p) \/ SendExecute(p) \/ SendCloseP(p) PROVE IInv'
    BY <1>3, SendDescribePIInv, SendExecuteIInv, SendClosePIInv, Zenon
<1>4. CASE SendFlush \/ SendSync \/ NextCycle
    BY <1>4, SendFlushIInv, SendSyncIInv, NextCycleIInv, Zenon
<1>5. CASE Dropped \/ HandleParse \/ RefuseBind \/ HandleBind \/ HandleHeldBack \/ FlushFirst
    BY <1>5, DroppedIInv, HandleParseIInv, RefuseBindIInv, HandleBindIInv, HandleHeldBackIInv,
       FlushFirstIInv, Zenon
<1>6. CASE MaterializeFails \/ HandleDescribeS \/ HandleDescribeP \/ HandleExecute \/ HandleCloseS \/ HandleCloseP
    BY <1>6, MaterializeFailsIInv, HandleDescribeSIInv, HandleDescribePIInv, HandleExecuteIInv, HandleCloseSIInv,
       HandleClosePIInv, Zenon
<1>7. CASE HandleFlush \/ HandleSync
    BY <1>7, HandleFlushIInv, HandleSyncIInv, Zenon
<1>8. CASE UNCHANGED vars
    BY <1>8, Stuttering, Zenon
<1> QED BY <1>1, <1>2, <1>3, <1>4, <1>5, <1>6, <1>7, <1>8, Zenon DEF Next, Handle

\* The inductive invariant of serveQueries holds for any Burrows, portals, routes and
\* bounds, with errors of PostgreSQL and Tunnels that break.
THEOREM Invariance == ASSUME Ordinary PROVE Spec => []IInv
<1>1. Init => IInv
    BY InitIInv, Zenon
<1>2. IInv /\ [Next]_vars => IInv'
    BY NextIInv, Zenon
<1> QED BY <1>1, <1>2, PTL DEF Spec

\* The release at the end of serveQueries gives back Tunnels in step unless one of
\* them broke in the cycle.
THEOREM InStep == ASSUME Ordinary PROVE Spec => []TunnelsInStep
<1>1. IInv => TunnelsInStep
    BY Zenon DEF IInv
<1> QED BY <1>1, Invariance, PTL

\* No handler of serveQueries waits for an answer that PostgreSQL will not send.
THEOREM NeverHangs == ASSUME Ordinary PROVE Spec => []~hung
<1>1. IInv => ~hung
    BY Zenon DEF IInv, Steady
<1> QED BY <1>1, Invariance, PTL

\* At the end of a cycle, and whenever nothing is being handled or held back, all
\* that is due has been given.
LEMMA AllGiven ==
    ASSUME IInv, ready
    PROVE  /\ HeldAnswers = <<>> /\ DueAnswers = <<>>
           /\ \A b \in Burrows : HeldRuns(b) = <<>> /\ DueRuns(b) = <<>>
<1>1. message = NoMessage /\ pending = NoPending
    BY Zenon DEF IInv, Failing
<1>2. message.type = "none"
    BY <1>1, Constituents, Zenon
<1> QED BY <1>1, <1>2, NothingDue

\* Batches, exchanges and the Proxy's own answers together run what the client asked
\* for, on every Burrow in its order and once each (serveQueries and
\* flushPendingExtended).
THEOREM AsAsked == ASSUME Ordinary PROVE Spec => []RanAsAsked
<1>1. IInv => RanAsAsked
  <2>1. SUFFICES ASSUME IInv, NEW b \in Burrows
                 PROVE  IsPrefix(ran[b], wanted[b]) /\ (ready /\ Succeeded => ran[b] = wanted[b])
    BY Zenon DEF RanAsAsked
  <2>2. IsPrefix(ran[b], wanted[b]) /\ ran[b] \in Seq(Nat)
    BY <2>1, Zenon DEF IInv, Accounted, TypeOK
  <2>3. ASSUME ready, Succeeded PROVE ran[b] = wanted[b]
    <3>1. wanted[b] = (ran[b] \o <<>>) \o <<>>
      BY <2>1, <2>3, AllGiven, Zenon DEF IInv, Accounted
    <3>2. ran[b] \o <<>> = ran[b]
      BY <2>2, ConcatEmptySeq, Zenon
    <3> QED BY <3>1, <3>2, Zenon
  <2> QED BY <2>2, <2>3, Zenon
<1> QED BY <1>1, Invariance, PTL

\* The client of a cycle without an error gets PostgreSQL's answers in the order of its
\* messages, and by ReadyForQuery all of them (serveQueries and flushPendingExtended).
THEOREM InOrderAnswers == ASSUME Ordinary PROVE Spec => []AnswersInOrder
<1>1. IInv => AnswersInOrder
  <2>1. SUFFICES ASSUME IInv, Succeeded
                 PROVE  IsPrefix(answers, expected) /\ (ready => answers = expected)
    BY Zenon DEF AnswersInOrder
  <2>2. /\ answers \in Seq(Answers) /\ HeldAnswers \in Seq(Answers) /\ DueAnswers \in Seq(Answers)
        /\ expected = (answers \o HeldAnswers) \o DueAnswers
    BY <2>1, DueTypes, Zenon DEF IInv, TypeOK, Accounted
  <2>3. IsPrefix(answers, expected)
    <3>1. expected = answers \o (HeldAnswers \o DueAnswers)
      BY <2>2, AnswersAssociate, Zenon
    <3>2. HeldAnswers \o DueAnswers \in Seq(Answers)
      BY <2>2, Joined, Zenon
    <3> QED BY <2>2, <3>1, <3>2, PrefixConcat, Zenon
  <2>4. ASSUME ready PROVE answers = expected
    <3>1. HeldAnswers = <<>> /\ DueAnswers = <<>>
      BY <2>1, <2>4, AllGiven, Zenon
    <3>2. answers \o <<>> = answers
      BY <2>2, ConcatEmptySeq, Zenon
    <3> QED BY <2>2, <3>1, <3>2, Zenon
  <2> QED BY <2>3, <2>4, Zenon
<1> QED BY <1>1, Invariance, PTL
=============================================================================
