--------------------------- MODULE TunnelsProofs ----------------------------
(***************************************************************************)
(* Theorems about Tunnels, for any number of clients and whatever is wrong *)
(* with what they ask: type correctness, honest answers, no channel        *)
(* without a tunnel that owns it, and what the liveness of a forward needs *)
(* besides fairness.                                                       *)
(***************************************************************************)
EXTENDS Tunnels, FiniteSetTheorems, SequenceTheorems, TLAPS

\* The whole conversations a client can have had with the proxy, each with what
\* makes it the truth.
Truth(c) ==
    \/ told[c] = <<>>
    \/ told[c] = <<"no auth">>
    \/ told[c] = <<"no method">> /\ asks[c] # {}
    \/ told[c] = <<"no auth", "bad address">> /\ asks[c] # {}
    \/ told[c] = <<"no auth", "bad command">> /\ asks[c] # {}
    \/ told[c] = <<"no auth", "refused">> /\ asks[c] = {} /\ c \notin opened
    \/ told[c] = <<"no auth", "granted">> /\ asks[c] = {} /\ c \in opened

\* How far the conversation is at each phase of a tunnel, and what was found wrong
\* with the client's wishes by then: nothing, or it would have ended.
Talking(c) ==
    /\ phase[c] \in {"away", "backlog", "greeting"} => told[c] = <<>> /\ c \notin opened
    /\ phase[c] = "greeting" => socks
    /\ phase[c] = "request" =>
         socks /\ told[c] = <<"no auth">> /\ c \notin opened
         /\ asks[c] \cap {"version", "methods"} = {}
    /\ phase[c] = "opening" =>
         /\ c \notin opened /\ asks[c] = {}
         /\ told[c] = IF socks THEN <<"no auth">> ELSE <<>>
    /\ phase[c] = "reply" =>
         socks /\ c \in opened /\ asks[c] = {} /\ told[c] = <<"no auth">>
    /\ phase[c] = "relay" =>
         /\ c \in opened /\ asks[c] = {}
         /\ told[c] = IF socks THEN <<"no auth", "granted">> ELSE <<>>
    /\ ~socks => asks[c] = {}

\* A channel is open as long as its tunnel is at the reply or relays, and nothing
\* is copied but by a relay.
Owned(c) ==
    /\ c \in channels <=> phase[c] \in {"reply", "relay"}
    /\ phase[c] # "relay" => flows[c] = {}

ClientInv(c) == Truth(c) /\ Talking(c) /\ Owned(c)
Inv == TypeOK /\ \A c \in Clients : ClientInv(c)

-----------------------------------------------------------------------------
LEMMA SayFacts ==
    ASSUME NEW a \in Answers, NEW b \in Answers
    PROVE  Append(<<>>, a) = <<a>> /\ Append(<<a>>, b) = <<a, b>>
<1>1. <<>> \in Seq(Answers) /\ <<a>> \in Seq(Answers) /\ <<a, b>> \in Seq(Answers)
  OBVIOUS
<1>2. /\ Append(<<>>, a) \in Seq(Answers)
      /\ Len(Append(<<>>, a)) = 1
      /\ Append(<<>>, a)[1] = a
  BY <1>1
<1>3. /\ Append(<<a>>, b) \in Seq(Answers)
      /\ Len(Append(<<a>>, b)) = 2
      /\ Append(<<a>>, b)[1] = a
      /\ Append(<<a>>, b)[2] = b
  BY <1>1
<1>4. /\ Len(<<a>>) = 1 /\ <<a>>[1] = a
      /\ Len(<<a, b>>) = 2 /\ <<a, b>>[1] = a /\ <<a, b>>[2] = b
  OBVIOUS
<1>5. Append(<<>>, a) = <<a>>
  BY <1>1, <1>2, <1>4, SeqEqual
<1>6. Append(<<a>>, b) = <<a, b>>
  <2>1. \A i \in 1..Len(Append(<<a>>, b)) : Append(<<a>>, b)[i] = <<a, b>>[i]
    BY <1>3, <1>4
  <2> QED
    BY <1>1, <1>3, <1>4, <2>1, SeqEqual
<1> QED
  BY <1>5, <1>6

\* A conversation of at most two answers.
LEMMA TalkFacts ==
    ASSUME NEW t,
           \/ t = <<>>
           \/ \E a \in Answers : t = <<a>>
           \/ \E a \in Answers, b \in Answers : t = <<a, b>>
    PROVE  t \in Seq(Answers) /\ Len(t) <= 2
<1>1. ASSUME NEW a \in Answers, t = <<a>> PROVE t \in Seq(Answers) /\ Len(t) <= 2
  BY <1>1
<1>2. ASSUME NEW a \in Answers, NEW b \in Answers, t = <<a, b>>
      PROVE  t \in Seq(Answers) /\ Len(t) <= 2
  BY <1>2
<1>3. CASE t = <<>>
  BY <1>3
<1> QED
  BY <1>1, <1>2, <1>3

LEMMA SaidFacts ==
    ASSUME NEW t, NEW said, \A x : x \in said <=> \E i \in 1..Len(t) : x = t[i]
    PROVE  /\ t = <<>> => said = {}
           /\ \A a : t = <<a>> => said = {a}
           /\ \A a, b : t = <<a, b>> => said = {a, b}
<1>1. ASSUME t = <<>> PROVE said = {}
  <2>1. 1..Len(t) = {}
    BY <1>1
  <2> QED
    BY <2>1
<1>2. ASSUME NEW a, t = <<a>> PROVE said = {a}
  <2>1. 1..Len(t) = {1} /\ t[1] = a
    BY <1>2
  <2> QED
    BY <2>1
<1>3. ASSUME NEW a, NEW b, t = <<a, b>> PROVE said = {a, b}
  <2>1. 1..Len(t) = {1, 2} /\ t[1] = a /\ t[2] = b
    BY <1>3
  <2> QED
    BY <2>1
<1> QED
  BY <1>1, <1>2, <1>3

LEMMA AtMostOne ==
    ASSUME NEW S, S = {} \/ \E a : S = {a}
    PROVE  Cardinality(S) <= 1
<1>1. Cardinality({}) = 0 /\ \A a : Cardinality({a}) = 1
  BY FS_EmptySet, FS_Singleton
<1>2. CASE S = {}
  BY <1>1, <1>2
<1>3. ASSUME NEW a, S = {a} PROVE Cardinality(S) <= 1
  <2>1. Cardinality(S) = 1
    BY <1>1, <1>3
  <2> QED
    BY <2>1
<1> QED
  BY <1>2, <1>3

\* The steps about one client, and what they leave alone of another.
ClientStep(c) ==
    \/ Connects(c) \/ Leaves(c) \/ Accept(c) \/ Reap(c) \/ Greets(c) \/ Requests(c)
    \/ ReadFails(c) \/ Opens(c) \/ OpenFails(c) \/ Grants(c)
    \/ (\E dir \in {"up", "down"} : FlowEnds(c, dir))
    \/ RelayOver(c) \/ TunnelAborted(c)

Untouched(d) ==
    /\ phase'[d] = phase[d]
    /\ asks'[d] = asks[d]
    /\ told'[d] = told[d]
    /\ flows'[d] = flows[d]
    /\ d \in channels' <=> d \in channels
    /\ d \in opened' <=> d \in opened

LEMMA OthersUntouched ==
    ASSUME TypeOK, NEW c \in Clients, ClientStep(c), NEW d \in Clients, d # c
    PROVE  Untouched(d) /\ UNCHANGED forward
<1> USE DEF TypeOK, Untouched, forward, Goto, Finish
<1>1. CASE Connects(c) \/ Leaves(c) \/ Accept(c) \/ Reap(c)
  BY <1>1 DEF Connects, Leaves, Accept, Reap
<1>2. CASE Greets(c)
  BY <1>2 DEF Greets, Say
<1>3. CASE Requests(c)
  BY <1>3 DEF Requests, Say
<1>4. CASE ReadFails(c) \/ Opens(c) \/ OpenFails(c) \/ Grants(c)
  BY <1>4 DEF ReadFails, Opens, OpenFails, Grants, Say, Relay
<1>5. CASE \/ \E dir \in {"up", "down"} : FlowEnds(c, dir)
           \/ RelayOver(c) \/ TunnelAborted(c)
  BY <1>5 DEF FlowEnds, RelayOver, TunnelAborted
<1> QED
  BY <1>1, <1>2, <1>3, <1>4, <1>5 DEF ClientStep

\* The functions keep their domains and their ranges; what is told is left to
\* TruthType.
TypeRest ==
    /\ phase \in [Clients -> Phases]
    /\ asks \in [Clients -> SUBSET Faults]
    /\ left \in SUBSET Clients
    /\ channels \in SUBSET Clients
    /\ opened \in SUBSET Clients
    /\ flows \in [Clients -> SUBSET {"up", "down"}]
    /\ DOMAIN told = Clients /\ told = [c \in Clients |-> told[c]]

LEMMA RestStep ==
    ASSUME TypeOK, NEW c \in Clients, ClientStep(c)
    PROVE  TypeRest'
<1> USE DEF TypeOK, TypeRest, Goto, Finish, Phases, TunnelPhases
<1>1. CASE Connects(c)
  BY <1>1 DEF Connects
<1>2. CASE Leaves(c)
  BY <1>2 DEF Leaves
<1>3. CASE Accept(c)
  BY <1>3 DEF Accept
<1>4. CASE Reap(c)
  BY <1>4 DEF Reap
<1>5. CASE Greets(c)
  BY <1>5 DEF Greets, Say
<1>6. CASE Requests(c)
  BY <1>6 DEF Requests, Say
<1>7. CASE ReadFails(c)
  BY <1>7 DEF ReadFails
<1>8. CASE Opens(c)
  BY <1>8 DEF Opens, Relay
<1>9. CASE OpenFails(c)
  BY <1>9 DEF OpenFails, Say
<1>10. CASE Grants(c)
  <2>1. CASE Finish(c) /\ UNCHANGED told
    BY <1>10, <2>1 DEF Grants
  <2>2. CASE /\ told' = [told EXCEPT ![c] = Append(@, "granted")]
             /\ Relay(c) /\ UNCHANGED channels
    BY <1>10, <2>2 DEF Grants, Relay
  <2> QED
    BY <1>10, <2>1, <2>2 DEF Grants
<1>11. ASSUME NEW dir \in {"up", "down"}, FlowEnds(c, dir) PROVE TypeRest'
  BY <1>11 DEF FlowEnds
<1>12. CASE RelayOver(c)
  BY <1>12 DEF RelayOver
<1>13. CASE TunnelAborted(c)
  BY <1>13 DEF TunnelAborted
<1> QED
  BY <1>1, <1>2, <1>3, <1>4, <1>5, <1>6, <1>7, <1>8,
     <1>9, <1>10, <1>11, <1>12, <1>13 DEF ClientStep

\* The end of a task, and an answer to its client.
Ended(c) == phase'[c] = "over" /\ c \notin channels' /\ flows'[c] = {}

LEMMA FinishStep ==
    ASSUME TypeOK, NEW c \in Clients, Finish(c)
    PROVE  Ended(c)
BY DEF Finish, Goto, TypeOK, Ended

LEMMA SayStep ==
    ASSUME TypeOK, NEW c \in Clients, NEW a, NEW p, Say(c, a, p)
    PROVE  \/ told'[c] = Append(told[c], a) /\ p = "over" /\ Ended(c)
           \/ /\ told'[c] = Append(told[c], a) /\ p # "over" /\ phase'[c] = p
              /\ UNCHANGED <<channels, flows>>
           \/ told'[c] = told[c] /\ Ended(c)
<1>1. CASE Finish(c) /\ UNCHANGED told
  BY <1>1, FinishStep
<1>2. CASE /\ told' = [told EXCEPT ![c] = Append(@, a)]
           /\ IF p = "over" THEN Finish(c)
              ELSE Goto(c, p) /\ UNCHANGED <<channels, flows>>
  <2>1. told'[c] = Append(told[c], a)
    BY <1>2 DEF TypeOK
  <2>2. CASE p = "over"
    BY <1>2, <2>1, <2>2, FinishStep
  <2>3. CASE p # "over"
    BY <1>2, <2>1, <2>3 DEF Goto, TypeOK
  <2> QED
    BY <2>2, <2>3
<1> QED
  BY <1>1, <1>2 DEF Say

\* What a request may lead to.
LEMMA RequestsCases ==
    ASSUME NEW c \in Clients, Requests(c)
    PROVE  \/ Finish(c) /\ UNCHANGED told
           \/ \E a \in {"bad address", "bad command"} : asks[c] # {} /\ Say(c, a, "over")
           \/ /\ asks[c] \cap {"request", "address", "command"} = {}
              /\ Goto(c, "opening") /\ UNCHANGED <<told, channels, flows>>
BY DEF Requests

\* The client that is served.
LEMMA OwnStep ==
    ASSUME Inv, NEW c \in Clients, ClientStep(c)
    PROVE  ClientInv(c)'
<1>0. /\ TypeOK /\ ClientInv(c)
      /\ phase \in [Clients -> Phases] /\ told \in [Clients -> Seq(Answers)]
      /\ asks \in [Clients -> SUBSET Faults]
      /\ flows \in [Clients -> SUBSET {"up", "down"}]
  BY DEF Inv, TypeOK
<1>a. /\ Append(<<>>, "no method") = <<"no method">>
      /\ Append(<<>>, "no auth") = <<"no auth">>
      /\ \A a \in {"bad address", "bad command", "refused", "granted"} :
            Append(<<"no auth">>, a) = <<"no auth", a>>
  BY SayFacts DEF Answers
<1> USE <1>0 DEF ClientInv, Truth, Talking, Owned, forward, TunnelPhases
<1>1. CASE Connects(c)
  BY <1>1 DEF Connects, Goto
<1>2. CASE Leaves(c)
  BY <1>2 DEF Leaves
<1>3. CASE Accept(c)
  BY <1>3 DEF Accept, Goto
<1>4. CASE Reap(c)
  BY <1>4 DEF Reap, Goto
<1>5. CASE Greets(c)
  <2>0. /\ phase[c] = "greeting" /\ UNCHANGED <<socks, asks, opened>>
        /\ told[c] = <<>> /\ socks /\ c \notin channels /\ c \notin opened
        /\ flows[c] = {}
    BY <1>5 DEF Greets
  <2>1. CASE Finish(c) /\ UNCHANGED told
    BY <2>0, <2>1, FinishStep DEF Ended
  <2>2. CASE "methods" \in asks[c] /\ Say(c, "no method", "over")
    <3>1. told'[c] \in {<<>>, <<"no method">>} /\ Ended(c)
      BY <2>0, <2>2, <1>a, SayStep
    <3> QED
      BY <2>0, <2>2, <3>1 DEF Ended
  <2>3. CASE asks[c] \cap {"version", "methods"} = {} /\ Say(c, "no auth", "request")
    <3>1. \/ told'[c] = <<>> /\ Ended(c)
          \/ /\ told'[c] = <<"no auth">> /\ phase'[c] = "request"
             /\ UNCHANGED <<channels, flows>>
      BY <2>0, <2>3, <1>a, SayStep
    <3> QED
      BY <2>0, <2>3, <3>1 DEF Ended
  <2> QED
    BY <1>5, <2>1, <2>2, <2>3 DEF Greets
<1>6. CASE Requests(c)
  <2>0. /\ phase[c] = "request" /\ UNCHANGED <<socks, asks, opened>>
        /\ told[c] = <<"no auth">> /\ socks /\ c \notin channels /\ c \notin opened
        /\ flows[c] = {} /\ asks[c] \cap {"version", "methods"} = {}
    BY <1>6 DEF Requests
  <2>1. CASE Finish(c) /\ UNCHANGED told
    BY <2>0, <2>1, FinishStep DEF Ended
  <2>2. ASSUME NEW a \in {"bad address", "bad command"}, asks[c] # {}, Say(c, a, "over")
        PROVE  ClientInv(c)'
    <3>1. told'[c] \in {<<"no auth">>, <<"no auth", a>>} /\ Ended(c)
      BY <2>0, <2>2, <1>a, SayStep
    <3> QED
      BY <2>0, <2>2, <3>1 DEF Ended
  <2>3. CASE /\ asks[c] \cap {"request", "address", "command"} = {}
             /\ Goto(c, "opening") /\ UNCHANGED <<told, channels, flows>>
    <3>1. asks[c] = {}
      BY <2>0, <2>3 DEF Faults
    <3>2. /\ phase'[c] = "opening" /\ told'[c] = <<"no auth">> /\ flows'[c] = {}
          /\ c \notin channels'
      BY <2>0, <2>3 DEF Goto
    <3>3. socks' /\ asks'[c] = {} /\ c \notin opened'
      BY <2>0, <3>1
    <3>4. Truth(c)'
      BY <3>2, <3>3
    <3>5. Talking(c)'
      BY <3>2, <3>3
    <3>6. Owned(c)'
      BY <3>2, <3>3
    <3> QED
      BY <3>4, <3>5, <3>6
  <2> QED
    BY <1>6, <2>1, <2>2, <2>3, RequestsCases
<1>7. CASE ReadFails(c)
  BY <1>7, FinishStep DEF ReadFails, Ended
<1>8. CASE Opens(c)
  BY <1>8 DEF Opens, Relay, Goto
<1>9. CASE OpenFails(c)
  <2>0. /\ phase[c] = "opening" /\ UNCHANGED <<socks, asks, opened>>
        /\ c \notin opened /\ asks[c] = {}
    BY <1>9 DEF OpenFails
  <2>1. CASE Finish(c) /\ UNCHANGED told
    BY <2>0, <2>1, FinishStep DEF Ended
  <2>2. CASE socks /\ Say(c, "refused", "over")
    <3>1. told'[c] \in {<<"no auth">>, <<"no auth", "refused">>} /\ Ended(c)
      BY <2>0, <2>2, <1>a, SayStep
    <3> QED
      BY <2>0, <2>2, <3>1 DEF Ended
  <2> QED
    BY <1>9, <2>1, <2>2 DEF OpenFails
<1>10. CASE Grants(c)
  <2>0. /\ phase[c] = "reply" /\ UNCHANGED <<socks, asks, opened>>
        /\ socks /\ c \in opened /\ asks[c] = {} /\ told[c] = <<"no auth">>
        /\ c \in channels
    BY <1>10 DEF Grants
  <2>1. CASE Finish(c) /\ UNCHANGED told
    BY <2>0, <2>1, FinishStep DEF Ended
  <2>2. CASE /\ told' = [told EXCEPT ![c] = Append(@, "granted")]
             /\ Relay(c) /\ UNCHANGED channels
    <3>1. told'[c] = <<"no auth", "granted">>
      BY <2>0, <2>2, <1>a
    <3>2. phase'[c] = "relay"
      BY <2>2 DEF Relay, Goto
    <3> QED
      BY <2>0, <2>2, <3>1, <3>2
  <2> QED
    BY <1>10, <2>1, <2>2 DEF Grants
<1>11. ASSUME NEW dir \in {"up", "down"}, FlowEnds(c, dir) PROVE ClientInv(c)'
  BY <1>11 DEF FlowEnds
<1>12. CASE RelayOver(c)
  BY <1>12, FinishStep DEF RelayOver, Ended
<1>13. CASE TunnelAborted(c)
  BY <1>13 DEF TunnelAborted, Goto
<1> QED
  BY <1>1, <1>2, <1>3, <1>4, <1>5, <1>6, <1>7, <1>8,
     <1>9, <1>10, <1>11, <1>12, <1>13 DEF ClientStep

LEMMA OtherStep ==
    ASSUME NEW d \in Clients, ClientInv(d), Untouched(d), UNCHANGED socks
    PROVE  ClientInv(d)'
BY DEF Untouched, ClientInv, Truth, Talking, Owned

LEMMA InitInv == Init => Inv
<1> SUFFICES ASSUME Init PROVE Inv
  OBVIOUS
<1>1. \A c \in Clients : told[c] = <<>>
  BY DEF Init
<1>2. told \in [Clients -> Seq(Answers)] /\ \A c \in Clients : Len(told[c]) <= 2
  BY <1>1, TalkFacts DEF Init
<1>3. TypeOK
  BY <1>2 DEF Init, TypeOK, Phases
<1>4. \A c \in Clients : ClientInv(c)
  BY <1>1 DEF Init, ClientInv, Truth, Talking, Owned
<1> QED
  BY <1>3, <1>4 DEF Inv

\* The forward itself: no client has a hand in it.
LEMMA ForwardStep ==
    ASSUME TypeOK, [Next]_vars
    PROVE  /\ link' \in {"up", "lost"} /\ stopped' \in BOOLEAN
           /\ loop' \in {"select", "backoff", "dead"}
<1>0. /\ link \in {"up", "lost"} /\ stopped \in BOOLEAN
      /\ loop \in {"select", "backoff", "dead"}
  BY DEF TypeOK
<1>1. ASSUME NEW c \in Clients, ClientStep(c) PROVE UNCHANGED forward
  BY <1>1 DEF ClientStep, Connects, Leaves, Accept, Reap, Greets, Requests, ReadFails,
              Opens, OpenFails, Grants, FlowEnds, RelayOver, TunnelAborted
<1>2. CASE UNCHANGED vars
  BY <1>0, <1>2 DEF vars
<1>3. CASE UNCHANGED forward
  BY <1>0, <1>3 DEF forward
<1>4. CASE LinkLost \/ Stop \/ AcceptFails \/ BackoffOver \/ LoopAborted
  BY <1>0, <1>4 DEF LinkLost, Stop, AcceptFails, BackoffOver, LoopAborted
<1> QED
  BY <1>1, <1>2, <1>3, <1>4 DEF Next, ClientStep

LEMMA NextInv == Inv /\ [Next]_vars => Inv'
<1> SUFFICES ASSUME Inv, [Next]_vars PROVE Inv'
  OBVIOUS
<1>1. CASE UNCHANGED <<socks, phase, asks, left, told, channels, opened, flows>>
  <2>1. \A c \in Clients : ClientInv(c)'
    BY <1>1 DEF Inv, ClientInv, Truth, Talking, Owned
  <2>2. link' \in {"up", "lost"} /\ stopped' \in BOOLEAN
        /\ loop' \in {"select", "backoff", "dead"}
    BY ForwardStep DEF Inv
  <2> QED
    BY <1>1, <2>1, <2>2 DEF Inv, TypeOK
<1>2. ASSUME NEW c \in Clients, ClientStep(c) PROVE Inv'
  <2>1. UNCHANGED forward
    BY <1>2 DEF ClientStep, Connects, Leaves, Accept, Reap, Greets, Requests,
                ReadFails, Opens, OpenFails, Grants, FlowEnds, RelayOver, TunnelAborted
  <2>2. TypeRest'
    BY <1>2, RestStep DEF Inv
  <2>3. ASSUME NEW d \in Clients PROVE ClientInv(d)'
    <3>1. CASE d = c
      BY <1>2, <3>1, OwnStep
    <3>2. CASE d # c
      BY <1>2, <3>2, OthersUntouched, OtherStep DEF Inv, forward
    <3> QED
      BY <3>1, <3>2
  <2>4. \A d \in Clients : told'[d] \in Seq(Answers) /\ Len(told'[d]) <= 2
    <3> SUFFICES ASSUME NEW d \in Clients
                 PROVE  told'[d] \in Seq(Answers) /\ Len(told'[d]) <= 2
      OBVIOUS
    <3>1. \/ told'[d] = <<>>
          \/ \E a \in Answers : told'[d] = <<a>>
          \/ \E a \in Answers, b \in Answers : told'[d] = <<a, b>>
      BY <2>3 DEF ClientInv, Truth, Answers
    <3> QED
      BY <3>1, TalkFacts
  <2> QED
    BY <2>1, <2>2, <2>3, <2>4 DEF Inv, TypeOK, TypeRest, forward
<1>3. CASE LoopAborted
  <2>1. \A c \in Clients : ClientInv(c)'
    BY <1>3 DEF LoopAborted, Inv, TypeOK, ClientInv, Truth, Talking, Owned
  <2> QED
    BY <1>3, <2>1 DEF LoopAborted, Inv, TypeOK, Phases
<1> QED
  BY <1>1, <1>2, <1>3
  DEF Next, vars, ClientStep, LinkLost, Stop, AcceptFails, BackoffOver

LEMMA Invariance == Spec => []Inv
BY InitInv, NextInv, PTL DEF Spec

-----------------------------------------------------------------------------
\* Every variable keeps its type; nobody is told more than two things.
THEOREM TypeCorrect == Spec => []TypeOK
<1>1. Inv => TypeOK
  BY DEF Inv
<1> QED
  BY <1>1, Invariance, PTL

\* A client of the SOCKS proxy is told the truth, once.
THEOREM ToldTheTruth == Spec => []AnswersHonest
<1>1. ASSUME Inv, NEW c \in Clients,
             NEW said, said = {told[c][i] : i \in 1..Len(told[c])}
      PROVE  /\ Cardinality(said \ {"no auth"}) <= 1
             /\ "granted" \in said => asks[c] = {} /\ c \in opened
             /\ "refused" \in said => asks[c] = {} /\ c \notin opened
             /\ said \cap {"no method", "bad address", "bad command"} # {}
                  => asks[c] # {}
             /\ socks /\ phase[c] = "relay" => told[c] = <<"no auth", "granted">>
  <2>1. Truth(c) /\ Talking(c)
    BY <1>1 DEF Inv, ClientInv
  <2>2. \/ said = {} \/ said = {"no auth"}
        \/ said = {"no method"} /\ asks[c] # {}
        \/ said = {"no auth", "bad address"} /\ asks[c] # {}
        \/ said = {"no auth", "bad command"} /\ asks[c] # {}
        \/ said = {"no auth", "refused"} /\ asks[c] = {} /\ c \notin opened
        \/ said = {"no auth", "granted"} /\ asks[c] = {} /\ c \in opened
    <3>1. /\ told[c] = <<>> => said = {}
          /\ \A a : told[c] = <<a>> => said = {a}
          /\ \A a, b : told[c] = <<a, b>> => said = {a, b}
      <4>1. \A x : x \in said <=> \E i \in 1..Len(told[c]) : x = told[c][i]
        BY <1>1
      <4> QED
        BY <4>1, SaidFacts
    <3> QED
      BY <2>1, <3>1 DEF Truth
  <2>3. \/ said \ {"no auth"} = {}
        \/ \E a : said \ {"no auth"} = {a}
    BY <2>2
  <2>4. Cardinality(said \ {"no auth"}) <= 1
    BY <2>3, AtMostOne
  <2> QED
    BY <2>1, <2>2, <2>4 DEF Talking
<1>2. Inv => AnswersHonest
  BY <1>1 DEF AnswersHonest
<1> QED
  BY <1>2, Invariance, PTL

\* Every open channel has a tunnel that owns it, at its reply or in its relay, and
\* bytes flow in relays only: so a forward whose tunnels are gone has left no
\* channel behind.
ChannelsOwned ==
    /\ channels = {c \in Clients : phase[c] \in {"reply", "relay"}}
    /\ \A c \in Clients : flows[c] # {} => c \in channels
THEOREM NoChannelLeftBehind == Spec => []ChannelsOwned
<1>1. Inv => ChannelsOwned
  BY DEF Inv, TypeOK, ClientInv, Owned, ChannelsOwned
<1> QED
  BY <1>1, Invariance, PTL

\* The safety half of StopTearsDown: a loop that has ended leaves nobody in the
\* backlog to wait for ever, and from then on no client that is away or gone gets
\* anywhere: the tunnels still there when the loop ended are all that is left to
\* tear down.
NobodyWaits == loop = "dead" => \A c \in Clients : phase[c] # "backlog"
EndIsFinal ==
    [][loop = "dead" =>
        /\ loop' = "dead"
        /\ \A c \in Clients :
              phase[c] \in {"away", "gone"} => phase'[c] = phase[c]]_vars

THEOREM LoopEndsForGood == Spec => []NobodyWaits /\ EndIsFinal
<1> USE DEF Goto, Finish, Say, Relay, forward, TunnelPhases
<1>1. Init => NobodyWaits
  BY DEF Init, NobodyWaits
<1>2. Inv /\ NobodyWaits /\ [Next]_vars => NobodyWaits'
  <2> SUFFICES ASSUME Inv, NobodyWaits, Next PROVE NobodyWaits'
    BY DEF NobodyWaits, vars
  <2>1. ASSUME NEW c \in Clients, ClientStep(c), ~Connects(c) PROVE NobodyWaits'
    BY <2>1 DEF NobodyWaits, Inv, TypeOK, ClientStep, Leaves, Accept, Reap, Greets,
         Requests, ReadFails, Opens, OpenFails, Grants, FlowEnds, RelayOver,
         TunnelAborted
  <2>2. ASSUME NEW c \in Clients, Connects(c) PROVE NobodyWaits'
    BY <2>2 DEF NobodyWaits, Connects
  <2>3. CASE LinkLost \/ Stop \/ AcceptFails \/ BackoffOver \/ LoopAborted
    BY <2>3 DEF NobodyWaits, LinkLost, Stop, AcceptFails, BackoffOver, LoopAborted
  <2> QED
    BY <2>1, <2>2, <2>3 DEF Next, ClientStep
<1>3. Inv /\ [Next]_vars =>
        [loop = "dead" =>
          /\ loop' = "dead"
          /\ \A c \in Clients :
                phase[c] \in {"away", "gone"} => phase'[c] = phase[c]]_vars
  <2> SUFFICES ASSUME Inv, Next, loop = "dead"
               PROVE  /\ loop' = "dead"
                      /\ \A c \in Clients :
                            phase[c] \in {"away", "gone"} => phase'[c] = phase[c]
    OBVIOUS
  <2>1. CASE LinkLost \/ Stop \/ AcceptFails \/ BackoffOver \/ LoopAborted
    BY <2>1 DEF LinkLost, Stop, AcceptFails, BackoffOver, LoopAborted
  <2>2. ASSUME NEW c \in Clients, ClientStep(c)
        PROVE  /\ loop' = "dead"
               /\ \A d \in Clients :
                     phase[d] \in {"away", "gone"} => phase'[d] = phase[d]
    BY <2>2 DEF Inv, TypeOK, ClientStep, Connects, Leaves, Accept, Reap, Greets,
         Requests, ReadFails, Opens, OpenFails, Grants, FlowEnds, RelayOver,
         TunnelAborted
  <2> QED
    BY <2>1, <2>2 DEF Next, ClientStep
<1> QED
  BY <1>1, <1>2, <1>3, InitInv, NextInv, PTL DEF Spec, EndIsFinal

-----------------------------------------------------------------------------
\* The safety half of the rest of LoopServes: how far a connection is from its end.
StepsLeft == [away |-> 8, backlog |-> 7, greeting |-> 6, request |-> 5, opening |-> 4,
              reply |-> 3, relay |-> 2, over |-> 1, gone |-> 0]

\* It moves on, or stays where it is, with no flow more than it had.
Wears(c) ==
    \/ StepsLeft[phase'[c]] < StepsLeft[phase[c]]
    \/ phase'[c] = phase[c] /\ flows'[c] \subseteq flows[c]
TunnelsWear == [][\A c \in Clients : Wears(c)]_vars

LEMMA StepsLeftType ==
    /\ StepsLeft["away"] = 8 /\ StepsLeft["backlog"] = 7 /\ StepsLeft["greeting"] = 6
    /\ StepsLeft["request"] = 5 /\ StepsLeft["opening"] = 4 /\ StepsLeft["reply"] = 3
    /\ StepsLeft["relay"] = 2 /\ StepsLeft["over"] = 1 /\ StepsLeft["gone"] = 0
BY DEF StepsLeft

LEMMA OwnWear ==
    ASSUME Inv, NEW c \in Clients, ClientStep(c)
    PROVE  Wears(c)
<1> USE StepsLeftType DEF Wears, Goto, Finish
<1>0. /\ phase \in [Clients -> Phases]
      /\ flows \in [Clients -> SUBSET {"up", "down"}]
  BY DEF Inv, TypeOK
<1>1. CASE Connects(c) \/ Leaves(c) \/ Accept(c) \/ Reap(c)
  BY <1>0, <1>1 DEF Connects, Leaves, Accept, Reap
<1>2. CASE Greets(c)
  <2>1. phase[c] = "greeting" /\ phase'[c] \in {"request", "over"}
    BY <1>0, <1>2 DEF Greets, Say
  <2> QED
    BY <2>1
<1>3. CASE Requests(c)
  <2>1. phase[c] = "request" /\ phase'[c] \in {"opening", "over"}
    BY <1>0, <1>3 DEF Requests, Say
  <2> QED
    BY <2>1
<1>4. CASE ReadFails(c)
  BY <1>0, <1>4 DEF ReadFails
<1>5. CASE Opens(c)
  <2>1. phase[c] = "opening" /\ phase'[c] \in {"reply", "relay"}
    BY <1>0, <1>5 DEF Opens, Relay
  <2> QED
    BY <2>1
<1>6. CASE OpenFails(c)
  <2>1. phase[c] = "opening" /\ phase'[c] \in {"over"}
    BY <1>0, <1>6 DEF OpenFails, Say
  <2> QED
    BY <2>1
<1>7. CASE Grants(c)
  <2>1. phase[c] = "reply" /\ phase'[c] \in {"relay", "over"}
    BY <1>0, <1>7 DEF Grants, Relay
  <2> QED
    BY <2>1
<1>8. ASSUME NEW dir \in {"up", "down"}, FlowEnds(c, dir) PROVE Wears(c)
  BY <1>0, <1>8 DEF FlowEnds
<1>9. CASE RelayOver(c)
  BY <1>0, <1>9 DEF RelayOver
<1>10. CASE TunnelAborted(c)
  <2>1. StepsLeft[phase[c]] > 0
    BY <1>10 DEF TunnelAborted, TunnelPhases
  <2>2. phase'[c] = "gone"
    BY <1>0, <1>10 DEF TunnelAborted
  <2> QED
    BY <2>1, <2>2
<1> QED
  BY <1>1, <1>2, <1>3, <1>4, <1>5, <1>6, <1>7, <1>8, <1>9,
     <1>10 DEF ClientStep

\* No connection turns in circles, whatever its client asks, and no flow that has
\* ended comes back: each makes eight steps and ends two flows at the most.
THEOREM TunnelsWearOut == Spec => TunnelsWear
<1>1. Inv /\ [Next]_vars => [\A c \in Clients : Wears(c)]_vars
  <2> SUFFICES ASSUME Inv, Next, NEW d \in Clients PROVE Wears(d)
    OBVIOUS
  <2>0. phase \in [Clients -> Phases]
    BY DEF Inv, TypeOK
  <2>1. CASE LinkLost \/ Stop \/ AcceptFails \/ BackoffOver
    BY <2>1 DEF Wears, LinkLost, Stop, AcceptFails, BackoffOver
  <2>2. CASE LoopAborted
    BY <2>0, <2>2, StepsLeftType DEF Wears, LoopAborted
  <2>3. ASSUME NEW c \in Clients, ClientStep(c), d # c PROVE Wears(d)
    <3>1. Untouched(d)
      BY <2>3, OthersUntouched DEF Inv
    <3> QED
      BY <3>1 DEF Wears, Untouched
  <2>4. ASSUME NEW c \in Clients, ClientStep(c), d = c PROVE Wears(d)
    <3>1. Wears(c)
      BY <2>4, OwnWear
    <3> QED
      BY <2>4, <3>1 DEF Wears
  <2> QED
    BY <2>1, <2>2, <2>3, <2>4 DEF Next, ClientStep
<1> QED
  BY <1>1, Invariance, PTL DEF Spec, TunnelsWear
=============================================================================
