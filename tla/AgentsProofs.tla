---------------------------- MODULE AgentsProofs ----------------------------
(***************************************************************************)
(* The sub-agents of an invocation, for any finite tree of agents, any     *)
(* messages and any limit: the types; every agent that runs and is         *)
(* connected has a record at the root, and there are no more of those than *)
(* the limit; and a receipt is true.                                       *)
(*                                                                         *)
(* IInv is the inductive invariant.  Next to the types it has              *)
(*   Framed    what a frame in a pipe, or a forward, says of the agent     *)
(*             that it is about: an admission is of an agent that asked,   *)
(*             and it has come along the line of that agent;               *)
(*   Kin       an agent has a link once it is forked, and was forked by    *)
(*             one that was forked;                                        *)
(*   Counted   no more active records at the root than the limit, and one  *)
(*             for each agent that was told yes and is connected;          *)
(*   Receipt   of each message: there is one copy at most, in one pipe or  *)
(*             at its target, and each answer to it agrees with that, save *)
(*             a refusal when a link between the two was lost.             *)
(*                                                                         *)
(* Onward is what no step undoes: an agent that ended stays so, a lost     *)
(* link stays lost.  It carries Framed, and "a link was lost", from one    *)
(* state to the next (StepKeeps).  Each handler has a lemma named after it *)
(* that says that it keeps IInv; the three that close a link share one     *)
(* argument (LinkLost).                                                    *)
(***************************************************************************)
EXTENDS Agents, FilterProofs, FiniteSetTheorems

(***************************************************************************)
(* The tree.                                                               *)
(***************************************************************************)
(* A set that holds the parents of its members, down to the root.           *)
Closed(T) == \A z \in T : Parent[z] # Root => Parent[z] \in T

(* The tree, with the types of its parts. *)
LEMMA TreeTypes ==
    /\ IsFiniteSet(Agents) /\ Root \notin Agents /\ Limits \subseteq Nat /\ IsFiniteSet(Messages)
    /\ Parent \in [Agents -> Processes] /\ Routes \subseteq Processes \X Processes
    /\ Crashing \subseteq Agents
    /\ \A x \in Agents : x \in Processes /\ Parent[x] \in Processes
                         /\ (Parent[x] # Root => Parent[x] \in Agents) /\ x # Root
    /\ Root \in Processes
    /\ \A p \in Processes : p # Root => p \in Agents
BY AgentsAssumption DEF AgentsAssumption, Processes

(* An agent is on the line of x if it is in each set of agents that has x  *)
(* and is closed.                                                          *)
LEMMA LineIs ==
    ASSUME NEW x \in Processes
    PROVE  /\ Line[x] \subseteq Agents
           /\ \A y : y \in Line[x] <=>
                y \in Agents /\ \A T \in SUBSET Agents : (x # Root => x \in T) /\ Closed(T) => y \in T
BY DEF Line, Closed

(* Any closed set of agents with x in it holds the line of x. *)
LEMMA LineWithin ==
    ASSUME NEW x \in Processes, NEW T \in SUBSET Agents, x # Root => x \in T, Closed(T)
    PROVE  Line[x] \subseteq T
BY LineIs

(* The root has no line; the line of an agent has the agent, and is        *)
(* closed.                                                                 *)
LEMMA LineHas ==
    /\ Line[Root] = {}
    /\ \A x \in Agents : x \in Line[x]
    /\ \A x \in Processes : Closed(Line[x])
    /\ \A x \in Processes : Line[x] \subseteq Agents
<1>1. Line[Root] \subseteq {}
  <2>1. Closed({})
    BY DEF Closed
  <2> QED BY <2>1, LineWithin, TreeTypes
<1>2. ASSUME NEW x \in Agents PROVE x \in Line[x]
  BY <1>2, TreeTypes, LineIs
<1>3. ASSUME NEW x \in Processes PROVE Closed(Line[x])
  <2> SUFFICES ASSUME NEW z \in Line[x], Parent[z] # Root PROVE Parent[z] \in Line[x]
    BY DEF Closed
  <2>1. z \in Agents /\ Parent[z] \in Agents
    BY LineIs, TreeTypes
  <2> SUFFICES ASSUME NEW T \in SUBSET Agents, x # Root => x \in T, Closed(T)
               PROVE  Parent[z] \in T
    BY <2>1, LineIs
  <2>2. z \in T
    BY LineIs
  <2> QED BY <2>2 DEF Closed
<1> QED BY <1>1, <1>2, <1>3, LineIs

(* From each agent of a line one goes up on the line, to the root. *)
LEMMA LineUp ==
    ASSUME NEW x \in Processes, NEW z \in Line[x]
    PROVE  z \in Agents /\ Parent[z] \in Processes /\ (Parent[z] # Root => Parent[z] \in Line[x])
BY LineHas, TreeTypes DEF Closed

(* The line of an agent is the agent and the line of its parent. *)
LEMMA LineStep ==
    ASSUME NEW x \in Agents
    PROVE  Line[x] = {x} \cup Line[Parent[x]]
<1>1. x \in Processes /\ Parent[x] \in Processes
  BY TreeTypes
<1>2. Line[x] \subseteq {x} \cup Line[Parent[x]]
  <2> DEFINE T == {x} \cup Line[Parent[x]]
  <2>1. T \in SUBSET Agents
    BY <1>1, LineHas
  <2>2. Closed(T)
    <3> SUFFICES ASSUME NEW z \in T, Parent[z] # Root PROVE Parent[z] \in T
      BY DEF Closed
    <3>1. CASE z = x
      <4>1. Parent[x] \in Agents
        BY <3>1, TreeTypes
      <4> QED BY <3>1, <4>1, LineHas
    <3>2. CASE z \in Line[Parent[x]]
      BY <1>1, <3>2, LineUp
    <3> QED BY <3>1, <3>2
  <2> HIDE DEF T
  <2>3. x \in T
    BY DEF T
  <2>4. Line[x] \subseteq T
    BY <1>1, <2>1, <2>2, <2>3, LineWithin
  <2> QED BY <2>4 DEF T
<1>3. Line[Parent[x]] \subseteq Line[x]
  <2>1. Line[x] \in SUBSET Agents /\ Closed(Line[x])
    BY <1>1, LineHas
  <2>2. Parent[x] # Root => Parent[x] \in Line[x]
    BY <1>1, LineHas, LineUp
  <2> QED BY <1>1, <2>1, <2>2, LineWithin
<1> QED BY <1>2, <1>3, LineHas

(* No agent is above itself. *)
LEMMA NoLoop ==
    /\ \A x \in Agents : x \notin Line[Parent[x]] /\ Parent[x] # x
    /\ \A y \in Agents : \A x \in Line[y] : Parent[x] # y
<1>1. \A x \in Agents : x \notin Line[Parent[x]]
  BY AgentsAssumption DEF AgentsAssumption
<1>2. ASSUME NEW x \in Agents PROVE Parent[x] # x
  BY <1>1, LineHas
<1>3. ASSUME NEW y \in Agents, NEW x \in Line[y], Parent[x] = y PROVE FALSE
  <2>1. x \in Agents
    BY TreeTypes, LineUp
  <2> QED BY <1>1, <1>3, <2>1
<1> QED BY <1>1, <1>2, <1>3

(* Another agent on the line of y has a child that is on the line of y     *)
(* too.                                                                    *)
LEMMA LineVia ==
    ASSUME NEW y \in Processes, NEW x \in Line[y], x # y
    PROVE  \E z \in Line[y] : Parent[z] = x
<1> SUFFICES ASSUME \A z \in Line[y] : Parent[z] # x PROVE FALSE
  OBVIOUS
<1> DEFINE T == Line[y] \ {x}
<1>1. T \in SUBSET Agents
  BY LineHas
<1>2. Closed(T)
  <2> SUFFICES ASSUME NEW z \in T, Parent[z] # Root PROVE Parent[z] \in T
    BY DEF Closed
  <2> QED BY LineUp
<1>3. y # Root => y \in T
  BY TreeTypes, LineHas
<1> HIDE DEF T
<1>4. Line[y] \subseteq T
  BY <1>1, <1>2, <1>3, LineWithin
<1> QED BY <1>4 DEF T

(* Some agent of each line was started by the root (or going up never      *)
(* ends: the lines get smaller).                                           *)
LEMMA LineTop ==
    ASSUME NEW y \in Agents
    PROVE  \E z \in Line[y] : Parent[z] = Root
<1> DEFINE R == StrictSubsetOrdering(Agents)
           F == FiniteSubsetsOf(Agents)
           U == {Line[z] : z \in Line[y]}
<1>1. y \in Processes /\ y \in Line[y]
  BY TreeTypes, LineHas
<1>2. F = SUBSET Agents
  BY TreeTypes, FS_FiniteSubsetsOfFinite
<1>3. IsWellFoundedOn(R, F)
  BY FS_StrictSubsetOrderingWellFounded
<1>4. \A z \in Line[y] : z \in Agents
  BY <1>1, LineHas
<1>5. U \subseteq F
  <2>1. \A z \in Line[y] : Line[z] \in SUBSET Agents
    BY <1>4, TreeTypes, LineHas
  <2> QED BY <1>2, <2>1
<1>6. U # {}
  BY <1>1
<1>7. \A v \in U : \E z \in Line[y] : v = Line[z]
  OBVIOUS
<1>8. \A z \in Line[y] : Line[z] \in U
  OBVIOUS
<1> HIDE DEF R, F, U
<1>9. PICK v \in U : \A u \in U : <<u, v>> \notin R
  BY <1>3, <1>5, <1>6, WFMin
<1>10. PICK z \in Line[y] : v = Line[z]
  BY <1>7
<1>11. z \in Agents
  BY <1>4
<1> SUFFICES ASSUME Parent[z] # Root PROVE FALSE
  BY <1>10
<1>12. Parent[z] \in Line[y]
  BY <1>1, LineUp
<1>13. Line[Parent[z]] \in U
  BY <1>8, <1>12
<1>14. Line[Parent[z]] \subseteq Line[z] /\ Line[Parent[z]] # Line[z]
  <2>1. Line[z] = {z} \cup Line[Parent[z]]
    BY <1>11, LineStep
  <2>2. z \notin Line[Parent[z]]
    BY <1>11, NoLoop
  <2> QED BY <2>1, <2>2
<1>15. Line[Parent[z]] \in SUBSET Agents /\ v \in SUBSET Agents
  BY <1>2, <1>5, <1>13
<1>16. <<Line[Parent[z]], v>> \in R
  BY <1>10, <1>14, <1>15 DEF R, StrictSubsetOrdering
<1> QED BY <1>9, <1>13, <1>16

(* Who is below a process: everyone is below the root. *)
LEMMA BelowIs ==
    /\ \A p \in Agents : \A y : y \in Below(p) <=> y \in Agents /\ p \in Line[y] /\ y # p
    /\ Below(Root) = Agents
    /\ \A p \in Processes : Below(p) \subseteq Agents
BY TreeTypes DEF Below

(* The child of p whose route leads to y is there: p always has a link to  *)
(* send down on.                                                           *)
LEMMA ViaIs ==
    ASSUME NEW p \in Processes, NEW y \in Below(p)
    PROVE  Via(p, y) \in Line[y] /\ Via(p, y) \in Agents /\ Parent[Via(p, y)] = p
<1>1. y \in Agents /\ y \in Processes
  BY BelowIs, TreeTypes
<1>2. \E z \in Line[y] : Parent[z] = p
  <2>1. CASE p = Root
    BY <1>1, <2>1, LineTop
  <2>2. CASE p # Root
    <3>1. p \in Agents
      BY <2>2, TreeTypes
    <3>2. p \in Line[y] /\ p # y
      BY <3>1, BelowIs
    <3> QED BY <1>1, <3>2, LineVia
  <2> QED BY <2>1, <2>2
<1>3. Via(p, y) \in Line[y] /\ Parent[Via(p, y)] = p
  BY <1>2 DEF Via
<1> QED BY <1>1, <1>3, LineHas

(* An agent is below each of the parents on its line. *)
LEMMA ParentBelow ==
    ASSUME NEW y \in Agents, NEW x \in Line[y]
    PROVE  /\ x \in Agents /\ Parent[x] \in Processes /\ y \in Below(Parent[x])
           /\ Parent[x] # Root => Parent[x] \in Line[y]
<1>1. y \in Processes
  BY TreeTypes
<1>2. x \in Agents /\ Parent[x] \in Processes /\ (Parent[x] # Root => Parent[x] \in Line[y])
  BY <1>1, LineUp
<1>3. y \in Below(Parent[x])
  <2>1. CASE Parent[x] = Root
    BY <2>1, BelowIs
  <2>2. CASE Parent[x] # Root
    <3>1. Parent[x] \in Agents
      BY <1>2, <2>2, TreeTypes
    <3> QED BY <1>2, <2>2, <3>1, NoLoop, BelowIs
  <2> QED BY <2>1, <2>2
<1> QED BY <1>2, <1>3


(***************************************************************************)
(* Frames.                                                                 *)
(***************************************************************************)

(* The parts of a frame. *)
LEMMA FrameParts ==
    /\ <<"run">>[1] = "run" /\ <<"result">>[1] = "result"
    /\ \A y : Admit(y)[1] = "admit" /\ Admit(y)[2] = y
    /\ \A y, ok : Event(y, ok)[1] = "event" /\ Event(y, ok)[2] = y /\ Event(y, ok)[3] = ok
    /\ \A y, ok : Admitted(y, ok)[1] = "admitted" /\ Admitted(y, ok)[2] = y /\ Admitted(y, ok)[3] = ok
    /\ \A m : Message(m)[1] = "msg" /\ Message(m)[2] = m
    /\ \A m, ok : Ack(m, ok)[1] = "ack" /\ Ack(m, ok)[2] = m /\ Ack(m, ok)[3] = ok
BY DEF Admit, Event, Admitted, Message, Ack

(* The parts of a frame with a given answer. *)
LEMMA MoreParts ==
    /\ \A m : Ack(m, TRUE)[1] = "ack" /\ Ack(m, TRUE)[2] = m /\ Ack(m, TRUE)[3] = TRUE
    /\ \A m : Ack(m, FALSE)[1] = "ack" /\ Ack(m, FALSE)[2] = m /\ Ack(m, FALSE)[3] = FALSE
    /\ \A y : Admitted(y, FALSE)[1] = "admitted" /\ Admitted(y, FALSE)[2] = y
              /\ Admitted(y, FALSE)[3] = FALSE
    /\ \A y : Event(y, FALSE)[1] = "event" /\ Event(y, FALSE)[2] = y /\ Event(y, FALSE)[3] = FALSE
    /\ \A y : Event(y, TRUE)[1] = "event" /\ Event(y, TRUE)[2] = y /\ Event(y, TRUE)[3] = TRUE
BY DEF Ack, Admitted, Event

(* The kinds of a message and of its answers. *)
LEMMA MailKinds ==
    \A m : Message(m)[1] = "msg" /\ Ack(m, TRUE)[1] = "ack" /\ Ack(m, FALSE)[1] = "ack"
BY FrameParts, MoreParts

(* What the handlers write are frames. *)
LEMMA FrameMade ==
    /\ <<"run">> \in Frame /\ <<"result">> \in Frame
    /\ \A y \in Agents : Admit(y) \in Frame
    /\ \A y \in Agents, ok \in BOOLEAN : Event(y, ok) \in Frame /\ Admitted(y, ok) \in Frame
    /\ \A m \in Messages : Message(m) \in Frame
    /\ \A m \in Messages, ok \in BOOLEAN : Ack(m, ok) \in Frame
    /\ \A m \in Messages : Ack(m, TRUE) \in Frame /\ Ack(m, FALSE) \in Frame
    /\ \A y \in Agents : Event(y, TRUE) \in Frame /\ Event(y, FALSE) \in Frame
                         /\ Admitted(y, FALSE) \in Frame
<1>1. /\ <<"run">> \in Frame /\ <<"result">> \in Frame
      /\ \A y \in Agents : Admit(y) \in Frame
      /\ \A m \in Messages : Message(m) \in Frame
  BY DEF Frame
<1>2. \A y \in Agents, ok \in BOOLEAN : Event(y, ok) \in Frame /\ Admitted(y, ok) \in Frame
  BY DEF Frame
<1>3. \A m \in Messages, ok \in BOOLEAN : Ack(m, ok) \in Frame
  BY DEF Frame
<1>4. \A m \in Messages : Ack(m, TRUE) \in Frame /\ Ack(m, FALSE) \in Frame
  BY <1>3, Zenon
<1>5. \A y \in Agents : Event(y, TRUE) \in Frame /\ Event(y, FALSE) \in Frame
                        /\ Admitted(y, FALSE) \in Frame
  BY <1>2, Zenon
<1> QED BY <1>1, <1>2, <1>3, <1>4, <1>5, Zenon

(* A frame is told by its kind and what it is about. *)
LEMMA FrameKinds ==
    ASSUME NEW f \in Frame
    PROVE  /\ f[1] = "admit" => f[2] \in Agents /\ f = Admit(f[2])
           /\ f[1] = "event" => f[2] \in Agents /\ f[3] \in BOOLEAN /\ f = Event(f[2], f[3])
           /\ f[1] = "admitted" => f[2] \in Agents /\ f[3] \in BOOLEAN /\ f = Admitted(f[2], f[3])
           /\ f[1] = "msg" => f[2] \in Messages /\ f = Message(f[2])
           /\ f[1] = "ack" => f[2] \in Messages /\ f[3] \in BOOLEAN /\ f = Ack(f[2], f[3])
<1>1. \/ f = <<"run">> \/ f = <<"result">> \/ \E y \in Agents : f = Admit(y)
      \/ \E y \in Agents, ok \in BOOLEAN : f = Event(y, ok)
      \/ \E y \in Agents, ok \in BOOLEAN : f = Admitted(y, ok)
      \/ \E m \in Messages : f = Message(m)
      \/ \E m \in Messages, ok \in BOOLEAN : f = Ack(m, ok)
  BY DEF Frame
<1>2. CASE f = <<"run">>
  <2>1. f[1] = "run"
    BY <1>2, FrameParts
  <2> QED BY <2>1
<1>3. CASE f = <<"result">>
  <2>1. f[1] = "result"
    BY <1>3, FrameParts
  <2> QED BY <2>1
<1>4. CASE \E y \in Agents : f = Admit(y)
  <2>1. f[1] = "admit" /\ f[2] \in Agents /\ f = Admit(f[2])
    BY <1>4, FrameParts
  <2> QED BY <2>1
<1>5. CASE \E y \in Agents, ok \in BOOLEAN : f = Event(y, ok)
  <2> PICK y \in Agents, ok \in BOOLEAN : f = Event(y, ok)
    BY <1>5
  <2>1. f[1] = "event" /\ f[2] \in Agents /\ f[3] \in BOOLEAN /\ f = Event(f[2], f[3])
    BY FrameParts
  <2> QED BY <2>1
<1>6. CASE \E y \in Agents, ok \in BOOLEAN : f = Admitted(y, ok)
  <2> PICK y \in Agents, ok \in BOOLEAN : f = Admitted(y, ok)
    BY <1>6
  <2>1. f[1] = "admitted" /\ f[2] \in Agents /\ f[3] \in BOOLEAN /\ f = Admitted(f[2], f[3])
    BY FrameParts
  <2> QED BY <2>1
<1>7. CASE \E m \in Messages : f = Message(m)
  <2>1. f[1] = "msg" /\ f[2] \in Messages /\ f = Message(f[2])
    BY <1>7, FrameParts
  <2> QED BY <2>1
<1>8. CASE \E m \in Messages, ok \in BOOLEAN : f = Ack(m, ok)
  <2> PICK m \in Messages, ok \in BOOLEAN : f = Ack(m, ok)
    BY <1>8
  <2>1. f[1] = "ack" /\ f[2] \in Messages /\ f[3] \in BOOLEAN /\ f = Ack(f[2], f[3])
    BY FrameParts
  <2> QED BY <2>1
<1> QED BY <1>1, <1>2, <1>3, <1>4, <1>5, <1>6, <1>7, <1>8

(***************************************************************************)
(* Sequences of frames.                                                    *)
(***************************************************************************)
(* A frame is there once at most.                                           *)
Single(s, f) == \A i, j \in 1 .. Len(s) : s[i] = f /\ s[j] = f => i = j
(* No more of a frame is in s than in t, if t has one at most.              *)
Less(s, t, f) == (f \in ToSet(s) => f \in ToSet(t)) /\ (Single(t, f) => Single(s, f))

(* A sequence has no more of a frame than itself. *)
LEMMA LessSame ==
    \A s, f : Less(s, s, f)
BY DEF Less

(* Two steps that add no frame together add none. *)
LEMMA LessOver ==
    ASSUME NEW s, NEW t, NEW u, NEW f, Less(s, t, f), Less(t, u, f)
    PROVE  Less(s, u, f)
BY DEF Less

(* The empty pipe. *)
LEMMA NoFrames ==
    /\ <<>> \in Seq(Frame) /\ ToSet(<<>>) = {}
    /\ \A f : Single(<<>>, f)
    /\ \A t, f : Less(<<>>, t, f)
<1>1. <<>> \in Seq(Frame) /\ DOMAIN <<>> = {} /\ Len(<<>>) = 0
  OBVIOUS
<1>2. ToSet(<<>>) = {}
  BY DEF ToSet
<1>3. \A f : Single(<<>>, f)
  BY <1>1 DEF Single
<1> QED BY <1>1, <1>2, <1>3 DEF Less

(* A write of one frame. *)
LEMMA OneFrame ==
    ASSUME NEW g \in Frame
    PROVE  /\ <<g>> \in Seq(Frame) /\ ToSet(<<g>>) = {g}
           /\ \A f : Single(<<g>>, f)
<1>1. <<g>> \in Seq(Frame) /\ ToSet(<<g>>) = {g}
  BY OneOf
<1>2. Len(<<g>>) = 1
  OBVIOUS
<1>3. \A f : Single(<<g>>, f)
  BY <1>2 DEF Single
<1> QED BY <1>1, <1>3

(* A write of two frames. *)
LEMMA TwoFrames ==
    ASSUME NEW g \in Frame, NEW h \in Frame
    PROVE  <<g, h>> \in Seq(Frame) /\ ToSet(<<g, h>>) = {g, h}
<1>1. <<g, h>> \in Seq(Frame) /\ DOMAIN <<g, h>> = 1 .. 2 /\ <<g, h>>[1] = g /\ <<g, h>>[2] = h
  OBVIOUS
<1> DEFINE s == <<g, h>>
<1> HIDE DEF s
<1>2. ToSet(s) = {g, h}
  BY <1>1 DEF ToSet, s
<1> QED BY <1>1, <1>2 DEF s

(* The frames of a pipe are its elements. *)
LEMMA FramesIn ==
    ASSUME NEW s \in Seq(Frame)
    PROVE  /\ ToSet(s) \subseteq Frame
           /\ \A f : f \in ToSet(s) <=> \E i \in 1 .. Len(s) : s[i] = f
           /\ Len(s) \in Nat /\ DOMAIN s = 1 .. Len(s)
<1>1. Len(s) \in Nat /\ DOMAIN s = 1 .. Len(s) /\ \A i \in 1 .. Len(s) : s[i] \in Frame
  OBVIOUS
<1> QED BY <1>1 DEF ToSet

(* Reading the first frame adds none, and takes the one copy there is. *)
LEMMA FramesTail ==
    ASSUME NEW s \in Seq(Frame), s # <<>>
    PROVE  /\ Tail(s) \in Seq(Frame) /\ Head(s) \in Frame /\ Head(s) \in ToSet(s)
           /\ ToSet(Tail(s)) \subseteq ToSet(s)
           /\ \A f : Less(Tail(s), s, f)
           /\ Single(s, Head(s)) => Head(s) \notin ToSet(Tail(s))
<1> DEFINE t == Tail(s)
           h == Head(s)
<1>1. t \in Seq(Frame) /\ h \in Frame /\ ToSet(s) = ToSet(t) \cup {h}
  BY TailOf
<1>2. /\ Len(s) \in Nat /\ Len(s) # 0 /\ h = s[1] /\ Len(t) = Len(s) - 1
      /\ \A i \in 1 .. Len(t) : t[i] = s[i + 1]
  OBVIOUS
<1> HIDE DEF t, h
<1>3. \A i \in 1 .. Len(t) : i + 1 \in 1 .. Len(s) /\ i + 1 # 1 /\ i \in Int
  BY <1>2
<1>4. ASSUME NEW f, Single(s, f) PROVE Single(t, f)
  <2> SUFFICES ASSUME NEW i \in 1 .. Len(t), NEW j \in 1 .. Len(t), t[i] = f, t[j] = f
               PROVE  i = j
    BY DEF Single
  <2>1. s[i + 1] = f /\ s[j + 1] = f
    BY <1>2
  <2>2. i + 1 = j + 1
    BY <1>3, <1>4, <2>1 DEF Single
  <2> QED BY <1>3, <2>2
<1>5. ASSUME Single(s, h) PROVE h \notin ToSet(t)
  <2> SUFFICES ASSUME NEW i \in 1 .. Len(t), t[i] = h PROVE FALSE
    BY <1>1, FramesIn
  <2>1. 1 \in 1 .. Len(s) /\ s[1] = h /\ s[i + 1] = h
    BY <1>2
  <2> QED BY <1>3, <1>5, <2>1 DEF Single
<1>6. \A f : Less(t, s, f)
  BY <1>1, <1>4 DEF Less
<1> QED BY <1>1, <1>5, <1>6 DEF t, h

(* What was written of a pipe has no frame that the pipe had not. *)
LEMMA FramesFirst ==
    ASSUME NEW s \in Seq(Frame), NEW n \in 0 .. Len(s)
    PROVE  /\ SubSeq(s, 1, n) \in Seq(Frame)
           /\ ToSet(SubSeq(s, 1, n)) \subseteq ToSet(s)
           /\ \A f : Less(SubSeq(s, 1, n), s, f)
<1> DEFINE t == SubSeq(s, 1, n)
<1>1. t \in Seq(Frame) /\ Len(t) = n /\ Len(s) \in Nat /\ \A i \in 1 .. n : t[i] = s[i]
  OBVIOUS
<1> HIDE DEF t
<1>2. \A i \in 1 .. Len(t) : i \in 1 .. Len(s) /\ t[i] = s[i]
  BY <1>1
<1>3. ToSet(t) \subseteq ToSet(s)
  BY <1>1, <1>2, FramesIn
<1>4. \A f : Single(s, f) => Single(t, f)
  BY <1>2 DEF Single
<1> QED BY <1>1, <1>3, <1>4 DEF t, Less

(* A write adds the frames that are written, and no others. *)
LEMMA FramesMore ==
    ASSUME NEW s \in Seq(Frame), NEW t \in Seq(Frame)
    PROVE  /\ s \o t \in Seq(Frame) /\ ToSet(s \o t) = ToSet(s) \cup ToSet(t)
           /\ \A f : f \notin ToSet(t) => Less(s \o t, s, f)
           /\ \A f : f \notin ToSet(s) /\ Single(t, f) => Single(s \o t, f)
<1> DEFINE e == s \o t
<1>1. e \in Seq(Frame) /\ ToSet(e) = ToSet(s) \cup ToSet(t)
  BY ConcatOf
<1>2. /\ Len(s) \in Nat /\ Len(t) \in Nat /\ Len(e) = Len(s) + Len(t)
      /\ \A i \in 1 .. Len(s) : e[i] = s[i]
      /\ \A i \in 1 .. Len(t) : e[Len(s) + i] = t[i]
  OBVIOUS
<1> HIDE DEF e
<1>3. \A i \in 1 .. Len(e) : \/ i \in 1 .. Len(s) /\ e[i] = s[i]
                            \/ /\ i - Len(s) \in 1 .. Len(t)
                               /\ e[i] = t[i - Len(s)]
  <2> SUFFICES ASSUME NEW i \in 1 .. Len(e), i \notin 1 .. Len(s)
               PROVE  i - Len(s) \in 1 .. Len(t) /\ e[i] = t[i - Len(s)]
    BY <1>2
  <2>1. i - Len(s) \in 1 .. Len(t) /\ Len(s) + (i - Len(s)) = i
    BY <1>2
  <2> QED BY <1>2, <2>1
<1>4. ASSUME NEW f, f \notin ToSet(t), Single(s, f) PROVE Single(e, f)
  <2>1. \A i \in 1 .. Len(t) : t[i] # f
    BY <1>4, FramesIn
  <2> QED BY <1>3, <1>4, <2>1 DEF Single
<1>5. ASSUME NEW f, f \notin ToSet(s), Single(t, f) PROVE Single(e, f)
  <2>1. \A i \in 1 .. Len(s) : s[i] # f
    BY <1>5, FramesIn
  <2> SUFFICES ASSUME NEW i \in 1 .. Len(e), NEW j \in 1 .. Len(e), e[i] = f, e[j] = f
               PROVE  i = j
    BY DEF Single
  <2>2. /\ i - Len(s) \in 1 .. Len(t) /\ t[i - Len(s)] = f
        /\ j - Len(s) \in 1 .. Len(t) /\ t[j - Len(s)] = f
    BY <1>3, <2>1
  <2>3. i - Len(s) = j - Len(s)
    BY <1>5, <2>2 DEF Single
  <2> QED BY <1>2, <2>3
<1>6. \A f : f \notin ToSet(t) => Less(e, s, f)
  BY <1>1, <1>4 DEF Less
<1> QED BY <1>1, <1>5, <1>6 DEF e

(* A set written in some order is in the pipe one time each. *)
LEMMA FramesOf ==
    ASSUME NEW S \in SUBSET Frame, IsFiniteSet(S)
    PROVE  /\ SetToSeq(S) \in Seq(Frame) /\ ToSet(SetToSeq(S)) \subseteq S
           /\ \A f : Single(SetToSeq(S), f)
<1> DEFINE n == Cardinality(S)
           D == 1 .. n
<1>1. n \in Nat /\ Bijection(D, S) # {}
  BY FS_CardinalityType DEF ExistsBijection
<1>2. \E g \in [D -> S] : IsInjective(g)
  BY <1>1 DEF Bijection, Injection
<1> DEFINE s == SetToSeq(S)
<1>3. s \in [D -> S] /\ IsInjective(s)
  BY <1>2 DEF SetToSeq
<1> HIDE DEF n, s
<1>4. s \in Seq(Frame) /\ Len(s) = n /\ DOMAIN s = 1 .. n
  BY <1>1, <1>3
<1>5. ToSet(s) \subseteq S
  BY <1>3, <1>4 DEF ToSet
<1>6. \A f : Single(s, f)
  BY <1>3, <1>4 DEF Single, IsInjective
<1> QED BY <1>4, <1>5, <1>6 DEF s

(* The values of a function on a finite set are finite in number. *)
LEMMA FiniteFrames ==
    ASSUME NEW A, IsFiniteSet(A), NEW g, DOMAIN g = A
    PROVE  IsFiniteSet({g[a] : a \in A})
<1> DEFINE T == {g[a] : a \in A}
           h == [a \in A |-> g[a]]
<1>1. h \in Surjection(A, T)
  BY DEF Surjection
<1> QED BY <1>1, FS_Surjection

(* The frames about a set of messages, or of agents, are finite in number. *)
LEMMA ManyFrames ==
    /\ \A M \in SUBSET Messages :
        /\ {Message(m) : m \in M} \subseteq Frame /\ IsFiniteSet({Message(m) : m \in M})
        /\ {Ack(m, FALSE) : m \in M} \subseteq Frame /\ IsFiniteSet({Ack(m, FALSE) : m \in M})
    /\ \A A \in SUBSET Agents :
        /\ {Admitted(y, FALSE) : y \in A} \subseteq Frame
        /\ IsFiniteSet({Admitted(y, FALSE) : y \in A})
<1>1. ASSUME NEW M \in SUBSET Messages
      PROVE  /\ {Message(m) : m \in M} \subseteq Frame /\ IsFiniteSet({Message(m) : m \in M})
             /\ {Ack(m, FALSE) : m \in M} \subseteq Frame /\ IsFiniteSet({Ack(m, FALSE) : m \in M})
  <2>1. IsFiniteSet(M)
    BY TreeTypes, FS_Subset
  <2> DEFINE g == [m \in M |-> Message(m)]
             h == [m \in M |-> Ack(m, FALSE)]
  <2>2. IsFiniteSet({g[m] : m \in M}) /\ IsFiniteSet({h[m] : m \in M})
    <3> HIDE DEF g, h
    <3>1. DOMAIN g = M /\ DOMAIN h = M
      BY DEF g, h
    <3> QED BY <2>1, <3>1, FiniteFrames
  <2>3. {g[m] : m \in M} = {Message(m) : m \in M} /\ {h[m] : m \in M} = {Ack(m, FALSE) : m \in M}
    OBVIOUS
  <2>4. \A m \in M : Message(m) \in Frame /\ Ack(m, FALSE) \in Frame
    BY FrameMade
  <2> QED BY <2>2, <2>3, <2>4
<1>2. ASSUME NEW A \in SUBSET Agents
      PROVE  /\ {Admitted(y, FALSE) : y \in A} \subseteq Frame
             /\ IsFiniteSet({Admitted(y, FALSE) : y \in A})
  <2>1. IsFiniteSet(A)
    BY TreeTypes, FS_Subset
  <2> DEFINE g == [y \in A |-> Admitted(y, FALSE)]
  <2>2. IsFiniteSet({g[y] : y \in A})
    <3> HIDE DEF g
    <3>1. DOMAIN g = A
      BY DEF g
    <3> QED BY <2>1, <3>1, FiniteFrames
  <2>3. {g[y] : y \in A} = {Admitted(y, FALSE) : y \in A}
    OBVIOUS
  <2>4. \A y \in A : Admitted(y, FALSE) \in Frame
    BY FrameMade
  <2> QED BY <2>2, <2>3, <2>4
<1> QED BY <1>1, <1>2


(***************************************************************************)
(* Pipes.                                                                  *)
(***************************************************************************)
(* The pipes of one direction. *)
Pipes == [Agents -> Seq(Frame)]
(* No pipe of r has more of a frame than that of q. *)
Fewer(r, q, f) == \A z \in Agents : Less(r[z], q[z], f)

(* Pipes that stay have no more of a frame. *)
LEMMA FewerSame == \A q, f : Fewer(q, q, f)
BY LessSame DEF Fewer

(* Two steps that add no frame to any pipe together add none. *)
LEMMA FewerOver ==
    ASSUME NEW r, NEW q, NEW p, NEW f, Fewer(r, q, f), Fewer(q, p, f)
    PROVE  Fewer(r, p, f)
<1> SUFFICES ASSUME NEW z \in Agents PROVE Less(r[z], p[z], f)
  BY DEF Fewer
<1>1. Less(r[z], q[z], f) /\ Less(q[z], p[z], f)
  BY DEF Fewer
<1> QED BY <1>1, LessOver

(* A frame that is there, and was not added, was there. *)
LEMMA FewerIn ==
    ASSUME NEW r, NEW q, NEW f, Fewer(r, q, f), NEW z \in Agents, f \in ToSet(r[z])
    PROVE  f \in ToSet(q[z])
BY DEF Fewer, Less

(* Reading a frame of one pipe: no frame is added, the other pipes stay. *)
LEMMA PopIs ==
    ASSUME NEW q \in Pipes, NEW x \in Agents, q[x] # <<>>
    PROVE  /\ Popped(q, x) \in Pipes
           /\ Head(q[x]) \in Frame /\ Head(q[x]) \in ToSet(q[x])
           /\ \A z \in Agents : ToSet(Popped(q, x)[z]) \subseteq ToSet(q[z])
           /\ \A z \in Agents \ {x} : Popped(q, x)[z] = q[z]
           /\ \A f : Fewer(Popped(q, x), q, f)
           /\ Single(q[x], Head(q[x])) => Head(q[x]) \notin ToSet(Popped(q, x)[x])
<1>1. /\ q[x] \in Seq(Frame) /\ DOMAIN q = Agents
  BY DEF Pipes
<1>2. /\ Tail(q[x]) \in Seq(Frame) /\ Head(q[x]) \in Frame /\ Head(q[x]) \in ToSet(q[x])
      /\ ToSet(Tail(q[x])) \subseteq ToSet(q[x])
      /\ \A f : Less(Tail(q[x]), q[x], f)
      /\ Single(q[x], Head(q[x])) => Head(q[x]) \notin ToSet(Tail(q[x]))
  BY <1>1, FramesTail
<1>3. Popped(q, x) \in Pipes /\ Popped(q, x)[x] = Tail(q[x])
      /\ \A z \in Agents \ {x} : Popped(q, x)[z] = q[z]
  BY <1>1, <1>2 DEF Pipes, Popped
<1>4. \A f : Fewer(Popped(q, x), q, f)
  <2> SUFFICES ASSUME NEW f, NEW z \in Agents PROVE Less(Popped(q, x)[z], q[z], f)
    BY DEF Fewer
  <2> QED BY <1>2, <1>3, LessSame
<1> QED BY <1>2, <1>3, <1>4

(* Frames written to the pipe of x. *)
Put(q, x, t) == [q EXCEPT ![x] = @ \o t]

(* A write at the end of one pipe. *)
LEMMA PutIs ==
    ASSUME NEW q \in Pipes, NEW x \in Agents, NEW t \in Seq(Frame)
    PROVE  /\ Put(q, x, t) \in Pipes
           /\ \A z \in Agents \ {x} : Put(q, x, t)[z] = q[z]
           /\ ToSet(Put(q, x, t)[x]) = ToSet(q[x]) \cup ToSet(t)
           /\ \A f : f \notin ToSet(t) => Fewer(Put(q, x, t), q, f)
           /\ \A f : f \notin ToSet(q[x]) /\ Single(t, f) => Single(Put(q, x, t)[x], f)
<1> DEFINE r == Put(q, x, t)
<1>1. q[x] \in Seq(Frame) /\ DOMAIN q = Agents
  BY DEF Pipes
<1>2. /\ q[x] \o t \in Seq(Frame) /\ ToSet(q[x] \o t) = ToSet(q[x]) \cup ToSet(t)
      /\ \A f : f \notin ToSet(t) => Less(q[x] \o t, q[x], f)
      /\ \A f : f \notin ToSet(q[x]) /\ Single(t, f) => Single(q[x] \o t, f)
  BY <1>1, FramesMore
<1>3. r \in Pipes /\ r[x] = q[x] \o t /\ \A z \in Agents \ {x} : r[z] = q[z]
  BY <1>1, <1>2 DEF Pipes, Put
<1> HIDE DEF r
<1>4. \A f : f \notin ToSet(t) => Fewer(r, q, f)
  <2> SUFFICES ASSUME NEW f, f \notin ToSet(t), NEW z \in Agents PROVE Less(r[z], q[z], f)
    BY DEF Fewer
  <2> QED BY <1>2, <1>3, LessSame
<1> QED BY <1>2, <1>3, <1>4 DEF r

(* A frame to the parent: it is at the end of one pipe, or nowhere when    *)
(* the parent is gone.                                                     *)
LEMMA UpwardIs ==
    ASSUME NEW q \in Pipes, NEW x \in Processes, NEW t \in Seq(Frame)
    PROVE  /\ Upward(q, x, t) \in Pipes
           /\ \A z \in Agents : ToSet(Upward(q, x, t)[z]) \subseteq
                                    ToSet(q[z]) \cup (IF z = x THEN ToSet(t) ELSE {})
           /\ \A z \in Agents : z # x \/ Orphan(z) => Upward(q, x, t)[z] = q[z]
           /\ \A f : f \notin ToSet(t) => Fewer(Upward(q, x, t), q, f)
           /\ x \in Agents => \A f : f \notin ToSet(q[x]) /\ Single(t, f) /\ Single(q[x], f)
                                        => Single(Upward(q, x, t)[x], f)
<1>1. CASE x = Root \/ Orphan(x)
  <2>1. Upward(q, x, t) = q
    BY <1>1 DEF Upward
  <2> QED BY <2>1, FewerSame
<1>2. CASE ~(x = Root \/ Orphan(x))
  <2>1. x \in Agents
    BY <1>2, TreeTypes
  <2> DEFINE r == Put(q, x, t)
  <2>2. Upward(q, x, t) = r
    BY <1>2 DEF Upward, Put
  <2> HIDE DEF r
  <2>4. /\ r \in Pipes
        /\ \A z \in Agents \ {x} : r[z] = q[z]
        /\ ToSet(r[x]) = ToSet(q[x]) \cup ToSet(t)
        /\ \A f : f \notin ToSet(t) => Fewer(r, q, f)
        /\ \A f : f \notin ToSet(q[x]) /\ Single(t, f) => Single(r[x], f)
    BY <2>1, PutIs DEF r
  <2> QED BY <1>2, <2>1, <2>2, <2>4
<1> QED BY <1>1, <1>2

(* A frame to a child: it is at the end of one pipe, or nowhere when the   *)
(* link is closed.                                                         *)
LEMMA DownwardIs ==
    ASSUME NEW q \in Pipes, NEW x \in Agents, NEW t \in Seq(Frame)
    PROVE  /\ Downward(q, x, t) \in Pipes
           /\ \A z \in Agents : ToSet(Downward(q, x, t)[z]) \subseteq
                                    ToSet(q[z]) \cup (IF z = x THEN ToSet(t) ELSE {})
           /\ \A z \in Agents \ {x} : Downward(q, x, t)[z] = q[z]
           /\ \A f : f \notin ToSet(t) => Fewer(Downward(q, x, t), q, f)
           /\ \A f : f \notin ToSet(q[x]) /\ Single(t, f) /\ Single(q[x], f)
                        => Single(Downward(q, x, t)[x], f)
<1>1. CASE ~JobHeld(x)
  <2>1. Downward(q, x, t) = q
    BY <1>1 DEF Downward
  <2> QED BY <2>1, FewerSame
<1>2. CASE JobHeld(x)
  <2> DEFINE r == Put(q, x, t)
  <2>2. Downward(q, x, t) = r
    BY <1>2 DEF Downward, Put
  <2> HIDE DEF r
  <2>4. /\ r \in Pipes
        /\ \A z \in Agents \ {x} : r[z] = q[z]
        /\ ToSet(r[x]) = ToSet(q[x]) \cup ToSet(t)
        /\ \A f : f \notin ToSet(t) => Fewer(r, q, f)
        /\ \A f : f \notin ToSet(q[x]) /\ Single(t, f) => Single(r[x], f)
    BY PutIs DEF r
  <2> QED BY <1>2, <2>2, <2>4
<1> QED BY <1>1, <1>2

(* The pipe of x with other frames. *)
Filled(q, x, s) == [q EXCEPT ![x] = s]

(* A pipe that keeps some of its frames. *)
LEMMA FilledIs ==
    ASSUME NEW q \in Pipes, NEW x \in Agents, NEW s \in Seq(Frame),
           ToSet(s) \subseteq ToSet(q[x]), \A f : Less(s, q[x], f)
    PROVE  /\ Filled(q, x, s) \in Pipes /\ Filled(q, x, s)[x] = s
           /\ \A z \in Agents \ {x} : Filled(q, x, s)[z] = q[z]
           /\ \A z \in Agents : ToSet(Filled(q, x, s)[z]) \subseteq ToSet(q[z])
           /\ \A f : Fewer(Filled(q, x, s), q, f)
<1> DEFINE r == Filled(q, x, s)
<1>1. DOMAIN q = Agents
  BY DEF Pipes
<1>2. r \in Pipes /\ r[x] = s /\ \A z \in Agents \ {x} : r[z] = q[z]
  BY <1>1 DEF Pipes, Filled
<1> HIDE DEF r
<1>3. \A f : Fewer(r, q, f)
  <2> SUFFICES ASSUME NEW f, NEW z \in Agents PROVE Less(r[z], q[z], f)
    BY DEF Fewer
  <2> QED BY <1>2, LessSame
<1> QED BY <1>2, <1>3 DEF r

(* A pipe that loses all its frames. *)
LEMMA EmptiedIs ==
    ASSUME NEW q \in Pipes, NEW x \in Agents
    PROVE  /\ [q EXCEPT ![x] = <<>>] \in Pipes /\ [q EXCEPT ![x] = <<>>][x] = <<>>
           /\ \A z \in Agents \ {x} : [q EXCEPT ![x] = <<>>][z] = q[z]
           /\ \A z \in Agents : ToSet([q EXCEPT ![x] = <<>>][z]) \subseteq ToSet(q[z])
           /\ \A f : Fewer([q EXCEPT ![x] = <<>>], q, f)
<1> DEFINE e == <<>>
<1>1. e \in Seq(Frame) /\ ToSet(e) \subseteq ToSet(q[x]) /\ \A f : Less(e, q[x], f)
  BY NoFrames
<1> HIDE DEF e
<1> DEFINE r == Filled(q, x, e)
<1>2. /\ r \in Pipes /\ r[x] = e
      /\ \A z \in Agents \ {x} : r[z] = q[z]
      /\ \A z \in Agents : ToSet(r[z]) \subseteq ToSet(q[z])
      /\ \A f : Fewer(r, q, f)
  BY <1>1, FilledIs
<1> QED BY <1>2 DEF r, e, Filled

(***************************************************************************)
(* The inductive invariant.                                                *)
(***************************************************************************)
(* Where an agent is: it was forked; it has asked for admission; its       *)
(* answer was yes and it has run; it will not run any longer.              *)
Forked(y) == st[y] # "none"
Asked(y) == st[y] \notin {"none", "idle"}
Began(y) == st[y] \in {"live", "leaving", "dead"}
Ending(y) == st[y] # "live" \/ term[y]
(* It was told yes, or runs and was not asked to end. *)
Due(y) == st[y] = "told" \/ (st[y] = "live" /\ ~term[y])
(* The link of an agent to its parent stands. *)
Sound(y) == link[y] = "open" /\ st[y] # "dead" /\ ~cut[y]
(* A link between the root and the sender or the target was lost. *)
Severed(n) == \E y \in Line[From(n)] \cup Line[To(n)] : ~Connected(y)

(* What the frames of the pipes, and the forwards, say. *)
UpOk(z, f) ==
    /\ f[1] = "admit" => z \in Line[f[2]] /\ Asked(f[2])
    /\ f[1] = "event" => z \in Line[f[2]] /\ Began(f[2]) /\ (f[3] = FALSE => Ending(f[2]))
DownOk(z, f) ==
    /\ f[1] = "admitted" =>
        /\ z \in Line[f[2]] /\ Asked(f[2])
        /\ f[3] = TRUE /\ st[f[2]] = "asking" /\ Connected(f[2]) => rec[Root][f[2]] = "active"
    /\ f[1] = "msg" => z \in Line[To(f[2])]
FwdOk(f) ==
    /\ f[1] = "admit" => Asked(f[2])
    /\ f[1] = "msg" => msg[f[2]] \notin {"none", "held"}

(* Each frame and each forward says what is right. *)
Framed ==
    /\ \A z \in Agents : \A f \in ToSet(up[z]) : UpOk(z, f)
    /\ \A z \in Agents : \A f \in ToSet(down[z]) : DownOk(z, f)
    /\ \A p \in Processes : \A f \in fwd[p] : FwdOk(f)

(* The tree of those that were forked. *)
Kin ==
    /\ \A x \in Agents : st[x] = "none" <=> link[x] = "none"
    /\ \A x \in Agents : Forked(x) /\ Parent[x] # Root => Forked(Parent[x])
    /\ \A p \in Processes, y \in Agents : rec[p][y] = "active" => Forked(y)

(* The agents that the root counts. *)
Active == {y \in Agents : rec[Root][y] = "active"}
(* The count, from the answer on. *)
Counted ==
    /\ Cardinality(Active) <= limit
    /\ \A x \in Agents : Due(x) /\ Connected(x) => rec[Root][x] = "active"

(* A frame is in some pipe. *)
Has(f) == \E z \in Agents : f \in ToSet(up[z]) \/ f \in ToSet(down[z])
(* A frame is in one pipe at most, once. *)
One(f) ==
    /\ \A z \in Agents : Single(up[z], f) /\ Single(down[z], f)
    /\ \A z, w \in Agents :
        /\ ~(f \in ToSet(up[z]) /\ f \in ToSet(down[w]))
        /\ f \in ToSet(up[z]) /\ f \in ToSet(up[w]) => w = z
        /\ f \in ToSet(down[z]) /\ f \in ToSet(down[w]) => w = z

(* A message, its one copy, and the answers to it. *)
Receipt(n) ==
    /\ got[n] <= 1 /\ One(Message(n))
    /\ Has(Message(n)) => got[n] = 0
    /\ Has(Ack(n, TRUE)) \/ msg[n] = "queued" => got[n] = 1
    /\ (Has(Ack(n, FALSE)) \/ msg[n] = "refused") /\ (Has(Message(n)) \/ got[n] = 1)
        => Severed(n)
    /\ msg[n] \in {"none", "held"} =>
        ~Has(Message(n)) /\ ~Has(Ack(n, TRUE)) /\ ~Has(Ack(n, FALSE)) /\ got[n] = 0
    /\ msg[n] # "none" =>
        (From(n) # Root => Forked(From(n))) /\ (To(n) # Root => Forked(To(n)))

(* The inductive invariant. *)
IInv == TypeOK /\ Framed /\ Kin /\ Counted /\ \A n \in Messages : Receipt(n)

(***************************************************************************)
(* What a step may do.                                                     *)
(***************************************************************************)
(* Agents do not go back, links are not made again, and a message that was *)
(* sent stays so.                                                          *)
Onward ==
    /\ \A y \in Agents :
        /\ Forked(y) => Forked(y)' /\ (Sound(y)' => Sound(y))
        /\ Asked(y) => Asked(y)' /\ (st'[y] = "asking" => st[y] = "asking")
        /\ Began(y) => Began(y)' /\ (Ending(y) => Ending(y)')
        /\ rec[Root][y] = "active" /\ (st'[y] = "asking" \/ Due(y)') /\ Connected(y)'
            => rec'[Root][y] = "active"
    /\ \A n \in Messages :
        /\ msg[n] # "none" => env'[n] = env[n] /\ msg'[n] # "none"
        /\ msg[n] \notin {"none", "held"} => msg'[n] \notin {"none", "held"}

(* All agents above one that was forked were forked. *)
LEMMA LineForked ==
    ASSUME Kin, NEW x \in Agents, Forked(x)
    PROVE  \A y \in Line[x] : y \in Agents /\ Forked(y)
<1> DEFINE T == {y \in Agents : Forked(y)}
<1>1. T \in SUBSET Agents /\ x \in T /\ x \in Processes
  BY TreeTypes
<1>2. Closed(T)
  <2> SUFFICES ASSUME NEW z \in T, Parent[z] # Root PROVE Parent[z] \in T
    BY DEF Closed
  <2> QED BY TreeTypes DEF Kin
<1>3. \A y \in T : y \in Agents /\ Forked(y)
  OBVIOUS
<1> HIDE DEF T
<1> QED BY <1>1, <1>2, <1>3, LineWithin

(* An agent is connected when each link of its line is sound. *)
LEMMA ConnectedIs ==
    \A x \in Processes : Connected(x) <=> \A y \in Line[x] : Sound(y)
BY DEF Connected, Sound

(* An agent that is connected after a step was before: no link comes back. *)
LEMMA ConnectedStays ==
    ASSUME Kin, Onward, NEW x \in Agents, Forked(x), Connected(x)'
    PROVE  Connected(x)
<1>1. \A y \in Line[x] : y \in Agents /\ Forked(y)
  BY LineForked
<1>2. \A y \in Line[x] : Sound(y)'
  BY TreeTypes DEF Connected, Sound
<1>3. \A y \in Line[x] : Sound(y)
  BY <1>1, <1>2 DEF Onward
<1> QED BY <1>3, TreeTypes, ConnectedIs

(* That a link between sender and target was lost stays so. *)
LEMMA SeveredStays ==
    ASSUME TypeOK, Kin, Onward, NEW n \in Messages, Receipt(n), msg[n] # "none", Severed(n)
    PROVE  Severed(n)'
<1>1. env'[n] = env[n] /\ From(n)' = From(n) /\ To(n)' = To(n)
  BY DEF Onward, From, To
<1>2. PICK y \in Line[From(n)] \cup Line[To(n)] : ~Connected(y)
  BY DEF Severed
<1>3. From(n) \in Processes /\ To(n) \in Processes
  BY DEF TypeOK, From, To
<1>4. y \in Agents /\ Forked(y)
  <2>1. ASSUME NEW p \in Processes, p # Root => Forked(p), y \in Line[p]
        PROVE  y \in Agents /\ Forked(y)
    <3>1. p # Root
      BY <2>1, LineHas
    <3>2. p \in Agents
      BY <3>1, TreeTypes
    <3> QED BY <2>1, <3>1, <3>2, LineForked
  <2> QED BY <1>2, <1>3, <2>1 DEF Receipt
<1>5. ~Connected(y)'
  BY <1>2, <1>4, ConnectedStays
<1> QED BY <1>1, <1>2, <1>5 DEF Severed

(* A frame that is not there is there once at most. *)
LEMMA NotThereSingle ==
    ASSUME NEW s \in Seq(Frame), NEW f, f \notin ToSet(s)
    PROVE  Single(s, f)
BY FramesIn DEF Single

(* A frame that is under way, and was not added, was under way. *)
LEMMA HasStays ==
    ASSUME NEW f, Fewer(up', up, f), Fewer(down', down, f), Has(f)'
    PROVE  Has(f)
<1>1. PICK z \in Agents : f \in ToSet(up'[z]) \/ f \in ToSet(down'[z])
  BY DEF Has
<1>2. f \in ToSet(up[z]) \/ f \in ToSet(down[z])
  BY <1>1, FewerIn
<1> QED BY <1>2 DEF Has

(* A frame with one copy has one as long as none is added. *)
LEMMA OneStays ==
    ASSUME NEW f, Fewer(up', up, f), Fewer(down', down, f), One(f)
    PROVE  One(f)'
<1>1. \A z \in Agents : Single(up'[z], f) /\ Single(down'[z], f)
  BY DEF One, Fewer, Less
<1>2. \A z \in Agents : /\ f \in ToSet(up'[z]) => f \in ToSet(up[z])
                        /\ f \in ToSet(down'[z]) => f \in ToSet(down[z])
  BY DEF Fewer, Less
<1> QED BY <1>1, <1>2 DEF One

(* The one frame is taken from the pipe of x.                               *)
LEMMA TakenUp ==
    ASSUME NEW f, One(f), up \in Pipes, NEW x \in Agents, up[x] # <<>>, Head(up[x]) = f
    PROVE  \A z \in Agents : f \notin ToSet(Popped(up, x)[z]) /\ f \notin ToSet(down[z])
<1>1. /\ f \in ToSet(up[x]) /\ f \notin ToSet(Popped(up, x)[x])
      /\ \A z \in Agents : ToSet(Popped(up, x)[z]) \subseteq ToSet(up[z])
  BY PopIs DEF One
<1> QED BY <1>1 DEF One

(* The one frame is taken from the pipe to x. *)
LEMMA TakenDown ==
    ASSUME NEW f, One(f), down \in Pipes, NEW x \in Agents, down[x] # <<>>, Head(down[x]) = f
    PROVE  \A z \in Agents : f \notin ToSet(Popped(down, x)[z]) /\ f \notin ToSet(up[z])
<1>1. /\ f \in ToSet(down[x]) /\ f \notin ToSet(Popped(down, x)[x])
      /\ \A z \in Agents : ToSet(Popped(down, x)[z]) \subseteq ToSet(down[z])
  BY PopIs DEF One
<1> QED BY <1>1 DEF One

(* A frame in no pipe has one copy at most. *)
LEMMA OneNowhere ==
    ASSUME NEW f, up' \in Pipes, down' \in Pipes,
           \A z \in Agents : f \notin ToSet(up'[z]) /\ f \notin ToSet(down'[z])
    PROVE  One(f)' /\ ~Has(f)'
<1>1. \A z \in Agents : up'[z] \in Seq(Frame) /\ down'[z] \in Seq(Frame)
  BY DEF Pipes
<1>2. \A z \in Agents : Single(up'[z], f) /\ Single(down'[z], f)
  BY <1>1, NotThereSingle
<1> QED BY <1>2 DEF One, Has

(* A frame that is only in one pipe up, once. *)
LEMMA OneUp ==
    ASSUME NEW f, up' \in Pipes, down' \in Pipes, NEW x, Single(up'[x], f),
           \A z \in Agents : (z # x => f \notin ToSet(up'[z])) /\ f \notin ToSet(down'[z])
    PROVE  One(f)'
<1>1. \A z \in Agents : up'[z] \in Seq(Frame) /\ down'[z] \in Seq(Frame)
  BY DEF Pipes
<1>2. \A z \in Agents : Single(up'[z], f) /\ Single(down'[z], f)
  BY <1>1, NotThereSingle
<1> QED BY <1>2 DEF One

(* A frame that is only in one pipe down, once. *)
LEMMA OneDown ==
    ASSUME NEW f, up' \in Pipes, down' \in Pipes, NEW x, Single(down'[x], f),
           \A z \in Agents : (z # x => f \notin ToSet(down'[z])) /\ f \notin ToSet(up'[z])
    PROVE  One(f)'
<1>1. \A z \in Agents : up'[z] \in Seq(Frame) /\ down'[z] \in Seq(Frame)
  BY DEF Pipes
<1>2. \A z \in Agents : Single(up'[z], f) /\ Single(down'[z], f)
  BY <1>1, NotThereSingle
<1> QED BY <1>2 DEF One

(* What a step has to keep of a message that was sent before.               *)
LEMMA ReceiptKept ==
    ASSUME TypeOK, Kin, Onward, NEW n \in Messages, Receipt(n),
           msg[n] = "none" => msg'[n] = "none",
           msg'[n] \in {"none", "held"} => msg[n] = msg'[n],
           env'[n] = env[n],
           One(Message(n))',
           Has(Message(n))' => Has(Message(n)) \/ (msg[n] = "held" /\ msg'[n] = "sent"),
           \/ got'[n] = got[n]
           \/ got'[n] = got[n] + 1 /\ Has(Message(n)) /\ ~Has(Message(n))',
           Has(Ack(n, TRUE))' => Has(Ack(n, TRUE)) \/ (got'[n] = 1 /\ Has(Message(n))),
           Has(Ack(n, FALSE))' =>
              \/ Has(Ack(n, FALSE))
              \/ /\ Has(Message(n)) \/ msg[n] \notin {"none", "held"}
                 /\ Has(Message(n))' \/ got'[n] = 1 => Severed(n)',
           msg'[n] = "queued" => msg[n] = "queued" \/ got[n] = 1,
           msg'[n] = "refused" =>
              \/ msg[n] = "refused" \/ Has(Ack(n, FALSE))
              \/ Has(Message(n))' \/ got'[n] = 1 => Severed(n)'
    PROVE  Receipt(n)'
<1>1. msg[n] # "none" /\ Severed(n) => Severed(n)'
  BY SeveredStays
<1>r. /\ got[n] <= 1
      /\ Has(Message(n)) => got[n] = 0
      /\ Has(Ack(n, TRUE)) => got[n] = 1
      /\ msg[n] = "queued" => got[n] = 1
      /\ msg[n] = "held" => got[n] = 0
  BY Zenon DEF Receipt
<1>2. got[n] = 0 \/ got[n] = 1
  <2>1. got[n] \in Nat
    BY DEF TypeOK
  <2> QED BY <1>r, <2>1
<1>3. got'[n] <= 1 /\ (Has(Message(n))' => got'[n] = 0)
  BY <1>r, <1>2
<1>a. got[n] = 1 => got'[n] = 1
  BY <1>r
<1>b. Has(Ack(n, TRUE))' => got'[n] = 1
  BY <1>r, <1>a
<1>c. msg'[n] = "queued" => got'[n] = 1
  BY <1>r, <1>a
<1>4. Has(Ack(n, TRUE))' \/ msg'[n] = "queued" => got'[n] = 1
  BY <1>b, <1>c
<1>7. (Has(Ack(n, FALSE))' \/ msg'[n] = "refused") /\ (Has(Message(n))' \/ got'[n] = 1)
        => Severed(n)'
  <2> SUFFICES ASSUME Has(Ack(n, FALSE))' \/ msg'[n] = "refused", Has(Message(n))' \/ got'[n] = 1
               PROVE  Severed(n)'
    OBVIOUS
  <2>1. Has(Message(n)) \/ got[n] = 1 \/ (msg[n] = "held" /\ msg'[n] = "sent")
    BY <1>2
  <2>2. CASE Has(Ack(n, FALSE)) \/ msg[n] = "refused"
    <3>1. msg[n] \notin {"none", "held"}
      BY <2>2 DEF Receipt
    <3>2. Severed(n)
      BY <2>1, <2>2, <3>1 DEF Receipt
    <3> QED BY <1>1, <3>1, <3>2
  <2>3. CASE ~(Has(Ack(n, FALSE)) \/ msg[n] = "refused")
    BY <2>3
  <2> QED BY <2>2, <2>3
<1>8. ASSUME msg'[n] \in {"none", "held"}
      PROVE  ~Has(Message(n))' /\ ~Has(Ack(n, TRUE))' /\ ~Has(Ack(n, FALSE))' /\ got'[n] = 0
  <2>1. ~Has(Message(n)) /\ ~Has(Ack(n, TRUE)) /\ ~Has(Ack(n, FALSE)) /\ got[n] = 0
    BY <1>8 DEF Receipt
  <2>2. ~Has(Message(n))' /\ got'[n] = 0
    BY <1>8, <2>1
  <2>3. ~Has(Ack(n, TRUE))' /\ ~Has(Ack(n, FALSE))'
    BY <1>8, <2>1, <2>2
  <2> QED BY <2>2, <2>3
<1>9. ASSUME msg'[n] # "none"
      PROVE  (From(n)' # Root => Forked(From(n))') /\ (To(n)' # Root => Forked(To(n))')
  <2>1. msg[n] # "none"
    BY <1>9
  <2>2. From(n)' = From(n) /\ To(n)' = To(n)
    BY DEF From, To
  <2>3. From(n) \in Processes /\ To(n) \in Processes
    BY DEF TypeOK, From, To
  <2>4. \A y \in Agents : Forked(y) => st'[y] # "none"
    BY DEF Onward, Forked
  <2> QED BY <2>1, <2>2, <2>3, <2>4, TreeTypes DEF Receipt, Forked
<1> QED BY <1>3, <1>4, <1>7, <1>8, <1>9 DEF Receipt

(* A forward is of an admission or a message of a descendant. *)
LEMMA FwdFrames ==
    ASSUME TypeOK, NEW p \in Processes, NEW f \in fwd[p]
    PROVE  /\ f \in Frame
           /\ \/ f[1] = "admit" /\ f[2] \in Below(p) /\ f = Admit(f[2])
              \/ f[1] = "msg" /\ f[2] \in Messages /\ To(f[2]) \in Below(p) /\ f = Message(f[2])
<1>1. f \in {Admit(y) : y \in Below(p)}
           \cup {Message(m) : m \in {n \in Messages : To(n) \in Below(p)}}
  BY DEF TypeOK
<1>2. CASE \E y \in Below(p) : f = Admit(y)
  <2> PICK y \in Below(p) : f = Admit(y)
    BY <1>2
  <2>1. f[1] = "admit" /\ f[2] = y
    BY FrameParts
  <2>2. y \in Agents
    BY BelowIs
  <2>3. Admit(y) \in Frame
    BY <2>2, FrameMade
  <2> QED BY <2>1, <2>3
<1>3. CASE \E m \in Messages : To(m) \in Below(p) /\ f = Message(m)
  <2> PICK m \in Messages : To(m) \in Below(p) /\ f = Message(m)
    BY <1>3
  <2>1. f[1] = "msg" /\ f[2] = m
    BY FrameParts
  <2>2. Message(m) \in Frame
    BY FrameMade
  <2> QED BY <2>1, <2>2
<1> QED BY <1>1, <1>2, <1>3

(* Forwards of such frames have their type. *)
LEMMA FwdTyped ==
    ASSUME NEW F, NEW p \in Processes,
           \A f \in F : \/ f[1] = "admit" /\ f[2] \in Below(p) /\ f = Admit(f[2])
                        \/ f[1] = "msg" /\ f[2] \in Messages /\ To(f[2])' \in Below(p) /\ f = Message(f[2])
    PROVE  F \subseteq {Admit(y) : y \in Below(p)}
                \cup {Message(m) : m \in {n \in Messages : To(n)' \in Below(p)}}
OBVIOUS

(* The pipes hold frames. *)
LEMMA PipesTyped ==
    ASSUME TypeOK
    PROVE  up \in Pipes /\ down \in Pipes
BY DEF TypeOK, Pipes

(* A message in a pipe has a receipt that is not held.                      *)
LEMMA MessageOut ==
    ASSUME NEW n \in Messages, Receipt(n), Has(Message(n)) \/ Has(Ack(n, TRUE)) \/ Has(Ack(n, FALSE))
    PROVE  msg[n] \notin {"none", "held"}
BY DEF Receipt

(* A step keeps what the frames say if what it adds is right: what they    *)
(* say is never undone.                                                    *)
LEMMA FramedKept ==
    ASSUME TypeOK, Framed, Kin, Onward, \A n \in Messages : Receipt(n), TypeOK',
           \A z \in Agents : \A f \in ToSet(up'[z]) : f \in ToSet(up[z]) \/ UpOk(z, f)',
           \A z \in Agents : \A f \in ToSet(down'[z]) : f \in ToSet(down[z]) \/ DownOk(z, f)',
           \A p \in Processes : \A f \in fwd'[p] : f \in fwd[p] \/ FwdOk(f)'
    PROVE  Framed'
<1>t. \A z \in Agents : up[z] \in Seq(Frame) /\ down[z] \in Seq(Frame)
  BY DEF TypeOK
<1>1. ASSUME NEW z \in Agents, NEW f \in ToSet(up'[z]) PROVE UpOk(z, f)'
  <2> SUFFICES ASSUME f \in ToSet(up[z]) PROVE UpOk(z, f)'
    OBVIOUS
  <2>1. UpOk(z, f) /\ f \in Frame
    BY <1>t, FramesIn DEF Framed
  <2>2. /\ f[1] = "admit" => f[2] \in Agents
        /\ f[1] = "event" => f[2] \in Agents
    BY <2>1, FrameKinds
  <2>3. ASSUME f[1] = "admit" PROVE z \in Line[f[2]] /\ Asked(f[2])'
    BY <2>1, <2>2, <2>3 DEF UpOk, Onward
  <2>4. ASSUME f[1] = "event"
        PROVE  z \in Line[f[2]] /\ Began(f[2])' /\ (f[3] = FALSE => Ending(f[2])')
    BY <2>1, <2>2, <2>4 DEF UpOk, Onward
  <2> QED BY <2>3, <2>4 DEF UpOk
<1>2. ASSUME NEW z \in Agents, NEW f \in ToSet(down'[z]) PROVE DownOk(z, f)'
  <2> SUFFICES ASSUME f \in ToSet(down[z]) PROVE DownOk(z, f)'
    BY <1>2
  <2>1. DownOk(z, f) /\ f \in Frame
    BY <1>t, FramesIn DEF Framed
  <2>2. /\ f[1] = "admitted" => f[2] \in Agents
        /\ f[1] = "msg" => f[2] \in Messages /\ f = Message(f[2])
    BY <2>1, FrameKinds
  <2>3. ASSUME f[1] = "admitted"
        PROVE  /\ z \in Line[f[2]] /\ Asked(f[2])'
               /\ f[3] = TRUE /\ st'[f[2]] = "asking" /\ Connected(f[2])'
                    => rec'[Root][f[2]] = "active"
    <3> DEFINE y == f[2]
    <3>1. y \in Agents /\ z \in Line[y] /\ Asked(y) /\ Asked(y)'
      BY <2>1, <2>2, <2>3 DEF DownOk, Onward
    <3>2. f[3] = TRUE /\ st[y] = "asking" /\ Connected(y) => rec[Root][y] = "active"
      BY <2>1, <2>3 DEF DownOk
    <3> HIDE DEF y
    <3>3. ASSUME f[3] = TRUE, st'[y] = "asking", Connected(y)' PROVE rec'[Root][y] = "active"
      <4>1. st[y] = "asking"
        BY <3>1, <3>3 DEF Onward
      <4>2. Forked(y)
        BY <3>1 DEF Asked, Forked
      <4>3. Connected(y)
        BY <3>1, <3>3, <4>2, ConnectedStays
      <4>4. rec[Root][y] = "active"
        BY <3>2, <3>3, <4>1, <4>3
      <4> QED BY <3>1, <3>3, <4>4 DEF Onward
    <3> QED BY <3>1, <3>3 DEF y
  <2>4. ASSUME f[1] = "msg" PROVE z \in Line[To(f[2])']
    <3>1. f[2] \in Messages /\ z \in Line[To(f[2])]
      BY <2>1, <2>2, <2>4 DEF DownOk
    <3>2. Has(Message(f[2]))
      BY <2>2, <2>4 DEF Has
    <3>3. msg[f[2]] # "none"
      BY <3>1, <3>2, MessageOut
    <3>4. env'[f[2]] = env[f[2]]
      BY <3>1, <3>3 DEF Onward
    <3> QED BY <3>1, <3>4 DEF To
  <2> QED BY <2>3, <2>4 DEF DownOk
<1>3. ASSUME NEW p \in Processes, NEW f \in fwd'[p] PROVE FwdOk(f)'
  <2> SUFFICES ASSUME f \in fwd[p] PROVE FwdOk(f)'
    BY <1>3
  <2>1. FwdOk(f)
    BY DEF Framed
  <2>2. (f[1] = "admit" => f[2] \in Agents) /\ (f[1] = "msg" => f[2] \in Messages)
    BY FwdFrames, BelowIs
  <2>3. f[1] = "admit" => Asked(f[2])'
    BY <2>1, <2>2 DEF FwdOk, Onward
  <2>4. f[1] = "msg" => msg'[f[2]] \notin {"none", "held"}
    BY <2>1, <2>2 DEF FwdOk, Onward
  <2> QED BY <2>3, <2>4 DEF FwdOk
<1> QED BY <1>1, <1>2, <1>3 DEF Framed

(* A step that forks nobody keeps the tree of the forked. *)
LEMMA KinKept ==
    ASSUME Kin, Onward,
           \A x \in Agents : /\ st'[x] = "none" <=> st[x] = "none"
                             /\ link'[x] = "none" <=> link[x] = "none",
           \A p \in Processes, y \in Agents :
              rec'[p][y] = "active" => rec[p][y] = "active" \/ Forked(y)
    PROVE  Kin'
<1>1. \A x \in Agents : st'[x] = "none" <=> link'[x] = "none"
  BY DEF Kin
<1>2. \A x \in Agents : Forked(x)' <=> Forked(x)
  BY DEF Forked
<1>3. \A x \in Agents : Forked(x)' /\ Parent[x] # Root => Forked(Parent[x])'
  BY <1>2, TreeTypes DEF Kin
<1>4. \A p \in Processes, y \in Agents : rec'[p][y] = "active" => Forked(y)'
  BY <1>2 DEF Kin
<1> QED BY <1>1, <1>3, <1>4 DEF Kin

(* A step that makes no record active, and starts no agent that has none,  *)
(* keeps the count.                                                        *)
LEMMA CountedKept ==
    ASSUME TypeOK, Kin, Counted, Onward, limit' = limit, Active' \subseteq Active,
           \A x \in Agents : Due(x)' /\ Connected(x)' => Due(x) \/ rec[Root][x] = "active"
    PROVE  Counted'
<1>1. Active \in SUBSET Agents /\ IsFiniteSet(Active) /\ Cardinality(Active) \in Nat
  <2>1. Active \in SUBSET Agents
    BY DEF Active
  <2> QED BY <2>1, TreeTypes, FS_Subset, FS_CardinalityType
<1>2. Cardinality(Active') <= Cardinality(Active) /\ Cardinality(Active') \in Nat
  BY <1>1, FS_Subset, FS_CardinalityType
<1>3. limit \in Nat
  BY TreeTypes DEF TypeOK
<1>4. Cardinality(Active') <= limit'
  BY <1>1, <1>2, <1>3 DEF Counted
<1>5. ASSUME NEW x \in Agents, Due(x)', Connected(x)' PROVE rec'[Root][x] = "active"
  <2>1. CASE rec[Root][x] = "active"
    BY <1>5, <2>1 DEF Onward
  <2>2. CASE Due(x)
    <3>1. Forked(x)
      BY <2>2 DEF Due, Forked
    <3>2. Connected(x)
      BY <1>5, <3>1, ConnectedStays
    <3>3. rec[Root][x] = "active"
      BY <2>2, <3>2 DEF Counted
    <3> QED BY <1>5, <3>3 DEF Onward
  <2> QED BY <1>5, <2>1, <2>2
<1> QED BY <1>4, <1>5 DEF Counted

(* No frame of a message is added.                                          *)
Quiet ==
    \A f : f[1] = "msg" \/ f[1] = "ack" => Fewer(up', up, f) /\ Fewer(down', down, f)

(* Receipts stay true in a step that adds no message and no answer to a    *)
(* pipe.                                                                   *)
LEMMA QuietReceipts ==
    ASSUME TypeOK, Kin, Onward, \A n \in Messages : Receipt(n), Quiet,
           env' = env, got' = got,
           \A n \in Messages :
              \/ msg'[n] = msg[n]
              \/ msg[n] # "none" /\ msg'[n] \in {"lost", "cancelled"}
              \/ /\ msg[n] # "none" /\ msg'[n] = "refused"
                 /\ Has(Message(n)) \/ got[n] = 1 => Severed(n)'
    PROVE  \A n \in Messages : Receipt(n)'
<1> SUFFICES ASSUME NEW n \in Messages PROVE Receipt(n)'
  OBVIOUS
<1>1. /\ Fewer(up', up, Message(n)) /\ Fewer(down', down, Message(n))
      /\ Fewer(up', up, Ack(n, TRUE)) /\ Fewer(down', down, Ack(n, TRUE))
      /\ Fewer(up', up, Ack(n, FALSE)) /\ Fewer(down', down, Ack(n, FALSE))
  <2>1. Message(n)[1] = "msg" /\ Ack(n, TRUE)[1] = "ack" /\ Ack(n, FALSE)[1] = "ack"
    BY MailKinds
  <2> QED BY <2>1, Zenon DEF Quiet
<1>2. Receipt(n) /\ One(Message(n))
  BY DEF Receipt
<1>3. One(Message(n))'
  BY <1>1, <1>2, OneStays
<1>4. Has(Message(n))' => Has(Message(n))
  BY <1>1, HasStays
<1>5. Has(Ack(n, TRUE))' => Has(Ack(n, TRUE))
  BY <1>1, HasStays
<1>6. Has(Ack(n, FALSE))' => Has(Ack(n, FALSE))
  BY <1>1, HasStays
<1>7. env'[n] = env[n] /\ got'[n] = got[n]
  OBVIOUS
<1>8. \/ msg'[n] = msg[n]
      \/ msg[n] # "none" /\ msg'[n] \in {"lost", "cancelled"}
      \/ /\ msg[n] # "none" /\ msg'[n] = "refused"
         /\ Has(Message(n)) \/ got[n] = 1 => Severed(n)'
  OBVIOUS
<1>9. /\ msg'[n] \in {"none", "held"} => msg[n] = msg'[n]
      /\ msg[n] = "none" => msg'[n] = "none"
      /\ msg'[n] = "queued" => msg[n] = "queued" \/ got[n] = 1
      /\ msg'[n] = "refused" =>
              \/ msg[n] = "refused" \/ Has(Ack(n, FALSE))
              \/ Has(Message(n))' \/ got'[n] = 1 => Severed(n)'
  BY <1>4, <1>7, <1>8
<1> HIDE DEF Quiet
<1> QED BY <1>2, <1>3, <1>4, <1>5, <1>6, <1>7, <1>9, ReceiptKept

(* The argument of every handler: IInv is kept by a step that goes onward, *)
(* if the frames it adds are right, the count is kept, and so are the      *)
(* receipts.                                                               *)
LEMMA StepKeeps ==
    ASSUME IInv, TypeOK', Kin', Onward,
           \A z \in Agents : \A f \in ToSet(up'[z]) : f \in ToSet(up[z]) \/ UpOk(z, f)',
           \A z \in Agents : \A f \in ToSet(down'[z]) : f \in ToSet(down[z]) \/ DownOk(z, f)',
           \A p \in Processes : \A f \in fwd'[p] : f \in fwd[p] \/ FwdOk(f)',
           limit' = limit, Active' \subseteq Active,
           \A x \in Agents : Due(x)' /\ Connected(x)' => Due(x) \/ rec[Root][x] = "active",
           \A n \in Messages : Receipt(n)'
    PROVE  IInv'
<1>1. Framed'
  BY FramedKept DEF IInv
<1>2. Counted'
  BY CountedKept DEF IInv
<1> QED BY <1>1, <1>2 DEF IInv

(* The same for a step that has nothing to do with messages and registers  *)
(* nobody.                                                                 *)
LEMMA QuietStep ==
    ASSUME IInv, TypeOK', Kin', Onward,
           \A z \in Agents : \A f \in ToSet(up'[z]) : f \in ToSet(up[z]) \/ UpOk(z, f)',
           \A z \in Agents : \A f \in ToSet(down'[z]) : f \in ToSet(down[z]) \/ DownOk(z, f)',
           \A p \in Processes : \A f \in fwd'[p] : f \in fwd[p] \/ FwdOk(f)',
           limit' = limit, rec'[Root] = rec[Root],
           \A x \in Agents : Due(x)' /\ Connected(x)' => Due(x) \/ rec[Root][x] = "active",
           Quiet, UNCHANGED mail
    PROVE  IInv'
<1>1. \A n \in Messages : Receipt(n)'
  <2>1. env' = env /\ got' = got /\ \A n \in Messages : msg'[n] = msg[n]
    BY DEF mail
  <2> QED BY <2>1, QuietReceipts DEF IInv
<1>2. Active' \subseteq Active
  BY DEF Active
<1> QED BY <1>1, <1>2, StepKeeps

(* What the parts of the invariant say of the pipes and of the processes.    *)
LEMMA InvParts ==
    ASSUME IInv
    PROVE  /\ up \in Pipes /\ down \in Pipes /\ TypeOK /\ Kin /\ Framed /\ Counted
           /\ DOMAIN st = Processes /\ DOMAIN term = Processes /\ DOMAIN blocked = Processes
           /\ DOMAIN cut = Agents /\ DOMAIN link = Agents /\ DOMAIN out = Agents
           /\ DOMAIN rec = Processes
           /\ \A p \in Processes : DOMAIN rec[p] = Agents
           /\ \A x \in Agents : link[x] \in {"none", "gone"} => up[x] = <<>>
           /\ fwd \in [Processes -> SUBSET Frame]
<1>1. TypeOK /\ Kin /\ Framed /\ Counted
  BY DEF IInv
<1>2. up \in Pipes /\ down \in Pipes
  BY <1>1, PipesTyped
<1>3. /\ DOMAIN st = Processes /\ DOMAIN term = Processes /\ DOMAIN blocked = Processes
      /\ DOMAIN cut = Agents /\ DOMAIN link = Agents /\ DOMAIN out = Agents
      /\ DOMAIN rec = Processes
      /\ \A p \in Processes : DOMAIN rec[p] = Agents
  BY <1>1 DEF TypeOK
<1>4. \A x \in Agents : link[x] \in {"none", "gone"} => up[x] = <<>>
  BY <1>1 DEF TypeOK
<1>5. fwd \in [Processes -> SUBSET Frame]
  BY <1>1 DEF TypeOK
<1> QED BY <1>1, <1>2, <1>3, <1>4, <1>5

(* A step that adds forwards of descendants alone keeps their types. *)
LEMMA FwdTypes ==
    ASSUME IInv, Onward,
           \A p \in Processes : \A f \in fwd'[p] :
              \/ f \in fwd[p]
              \/ f[1] = "admit" /\ f[2] \in Below(p) /\ f = Admit(f[2])
              \/ f[1] = "msg" /\ f[2] \in Messages /\ To(f[2])' \in Below(p) /\ f = Message(f[2])
    PROVE  \A p \in Processes : fwd'[p] \subseteq
              ({Admit(y) : y \in Below(p)} \cup {Message(m) : m \in {n \in Messages : To(n)' \in Below(p)}})
<1> SUFFICES ASSUME NEW p \in Processes
             PROVE  fwd'[p] \subseteq ({Admit(y) : y \in Below(p)}
                        \cup {Message(m) : m \in {n \in Messages : To(n)' \in Below(p)}})
  OBVIOUS
<1>1. ASSUME NEW f \in fwd'[p], f \in fwd[p]
      PROVE  \/ f[1] = "admit" /\ f[2] \in Below(p) /\ f = Admit(f[2])
             \/ f[1] = "msg" /\ f[2] \in Messages /\ To(f[2])' \in Below(p) /\ f = Message(f[2])
  <2>1. FwdOk(f) /\ TypeOK
    BY <1>1 DEF IInv, Framed
  <2>2. \/ f[1] = "admit" /\ f[2] \in Below(p) /\ f = Admit(f[2])
        \/ f[1] = "msg" /\ f[2] \in Messages /\ To(f[2]) \in Below(p) /\ f = Message(f[2])
    BY <1>1, <2>1, FwdFrames
  <2>3. ASSUME f[1] = "msg", f[2] \in Messages PROVE To(f[2])' = To(f[2])
    BY <2>1, <2>3 DEF FwdOk, Onward, To
  <2> QED BY <2>2, <2>3
<1>2. \A f \in fwd'[p] :
        \/ f[1] = "admit" /\ f[2] \in Below(p) /\ f = Admit(f[2])
        \/ f[1] = "msg" /\ f[2] \in Messages /\ To(f[2])' \in Below(p) /\ f = Message(f[2])
  BY <1>1
<1> QED BY <1>2, FwdTyped

(* A frame to the parent that is about no message. *)
LEMMA QuietUp ==
    ASSUME up \in Pipes, NEW x \in Processes, NEW t \in Seq(Frame), up' = Upward(up, x, t),
           down' = down, \A f \in ToSet(t) : f[1] # "msg" /\ f[1] # "ack"
    PROVE  /\ up' \in Pipes
           /\ \A z \in Agents : z # x \/ Orphan(z) => up'[z] = up[z]
           /\ \A z \in Agents : \A f \in ToSet(up'[z]) : f \in ToSet(up[z]) \/ (z = x /\ f \in ToSet(t))
           /\ Quiet
<1>1. /\ up' \in Pipes
      /\ \A z \in Agents : ToSet(up'[z]) \subseteq ToSet(up[z]) \cup (IF z = x THEN ToSet(t) ELSE {})
      /\ \A z \in Agents : z # x \/ Orphan(z) => up'[z] = up[z]
      /\ \A f : f \notin ToSet(t) => Fewer(up', up, f)
  BY UpwardIs
<1>2. Quiet
  BY <1>1, FewerSame DEF Quiet
<1> QED BY <1>1, <1>2

(* fyai_tool_job_attach: an agent is forked, and has its tool/run before it *)
(* in the pipe.                                                            *)
LEMMA ForkKeeps ==
    ASSUME IInv, NEW x \in Agents, Fork(x)
    PROVE  IInv'
<1> USE DEF process, job, pipes, registry, mail
<1>1. /\ up \in Pipes /\ down \in Pipes /\ TypeOK /\ Kin
      /\ st[x] = "none" /\ st' = [st EXCEPT ![x] = "idle"] /\ link' = [link EXCEPT ![x] = "open"]
      /\ x # Root /\ Parent[x] \in Processes
  BY InvParts, TreeTypes DEF Fork
<1>2. /\ st' \in [Processes -> {"none", "idle", "asking", "told", "live", "refused", "leaving", "dead"}]
      /\ st'[x] = "idle" /\ \A p \in Processes \ {x} : st'[p] = st[p]
      /\ link'[x] = "open" /\ \A y \in Agents \ {x} : link'[y] = link[y]
  BY <1>1, TreeTypes DEF TypeOK
<1>3. /\ down' \in Pipes /\ \A f : f[1] = "msg" \/ f[1] = "ack" => Fewer(down', down, f)
      /\ \A z \in Agents : \A f \in ToSet(down'[z]) : f \in ToSet(down[z]) \/ f = <<"run">>
  <2> DEFINE g == <<"run">>
             d == [down EXCEPT ![x] = <<>>]
  <2>1. d \in Pipes /\ d[x] = <<>> /\ DOMAIN d = Agents
        /\ \A z \in Agents : ToSet(d[z]) \subseteq ToSet(down[z])
        /\ \A f : Fewer(d, down, f)
    BY <1>1, EmptiedIs DEF Pipes
  <2>2. <<g>> \in Seq(Frame) /\ ToSet(<<g>>) = {g} /\ g[1] = "run" /\ <<>> \o <<g>> = <<g>>
    <3>1. g \in Frame
      BY FrameMade
    <3> HIDE DEF g
    <3>2. <<g>> \in Seq(Frame) /\ ToSet(<<g>>) = {g}
      BY <3>1, OneFrame
    <3>3. <<>> \o <<g>> = <<g>>
      BY <3>2, ConcatEmptySeq
    <3>4. g[1] = "run"
      BY DEF g
    <3> QED BY <3>2, <3>3, <3>4
  <2>3. down' = [d EXCEPT ![x] = <<g>>]
    BY <1>1 DEF Fork, Pipes
  <2> HIDE DEF d, g
  <2> DEFINE t == <<g>>
             e == Put(d, x, t)
  <2>4. down' = e /\ t \in Seq(Frame) /\ ToSet(t) = {g}
    BY <2>1, <2>2, <2>3 DEF Put
  <2> HIDE DEF t
  <2>a. /\ e \in Pipes
        /\ \A z \in Agents \ {x} : e[z] = d[z]
        /\ ToSet(e[x]) = ToSet(d[x]) \cup ToSet(t)
        /\ \A f : f \notin ToSet(t) => Fewer(e, d, f)
    BY <2>1, <2>4, PutIs
  <2> HIDE DEF e
  <2>5. /\ down' \in Pipes
        /\ \A z \in Agents \ {x} : down'[z] = d[z]
        /\ ToSet(down'[x]) = ToSet(d[x]) \cup {g}
        /\ \A f : f # g => Fewer(down', d, f)
    BY <2>4, <2>a
  <2>6. \A f : f[1] = "msg" \/ f[1] = "ack" => Fewer(down', down, f)
    BY <2>1, <2>2, <2>5, FewerOver
  <2>7. \A z \in Agents : \A f \in ToSet(down'[z]) : f \in ToSet(down[z]) \/ f = g
    BY <2>1, <2>5
  <2> QED BY <2>5, <2>6, <2>7 DEF g
<1>4. /\ out' \in [Agents -> BOOLEAN] /\ fg' \subseteq Agents /\ up' = up
      /\ link' \in [Agents -> {"none", "open", "closed", "gone"}]
      /\ limit' = limit /\ rec' = rec /\ fwd' = fwd /\ term' = term /\ cut' = cut
      /\ blocked' = blocked /\ env' = env /\ msg' = msg /\ got' = got
  BY <1>1 DEF Fork, TypeOK
<1>5. Onward
  <2>1. ASSUME NEW y \in Agents
        PROVE  /\ Forked(y) => Forked(y)' /\ (Sound(y)' => Sound(y))
               /\ Asked(y) => Asked(y)' /\ (st'[y] = "asking" => st[y] = "asking")
               /\ Began(y) => Began(y)' /\ (Ending(y) => Ending(y)')
    BY <1>1, <1>2, <1>4, TreeTypes DEF Forked, Sound, Asked, Began, Ending
  <2> QED BY <1>4, <2>1 DEF Onward
<1>6. TypeOK'
  <2>1. \A z \in Agents : link'[z] \in {"none", "gone"} => up'[z] = <<>>
    BY <1>2, <1>4, InvParts
  <2>2. \A p \in Processes : fwd'[p] \subseteq
        ({Admit(y) : y \in Below(p)} \cup {Message(m) : m \in {n \in Messages : To(n)' \in Below(p)}})
    BY <1>4, <1>5, FwdTypes
  <2> QED BY <1>1, <1>2, <1>3, <1>4, <2>1, <2>2 DEF TypeOK, Pipes
<1>7. Kin'
  <2>1. Parent[x] # Root => st'[Parent[x]] # "none"
    BY <1>1, <1>2, TreeTypes DEF Fork, Acts, Serves, Running
  <2>2. \A y \in Agents : st'[y] = "none" <=> link'[y] = "none"
    BY <1>1, <1>2, TreeTypes DEF Kin
  <2>3. \A y \in Agents : st'[y] # "none" /\ Parent[y] # Root => st'[Parent[y]] # "none"
    BY <1>1, <1>2, <2>1, TreeTypes DEF Kin, Forked
  <2>4. \A p \in Processes, y \in Agents : rec'[p][y] = "active" => st'[y] # "none"
    BY <1>1, <1>2, <1>4, TreeTypes DEF Kin, Forked
  <2> QED BY <2>2, <2>3, <2>4 DEF Kin, Forked
<1>8. Quiet
  BY <1>3, <1>4, FewerSame DEF Quiet
<1>9. /\ \A z \in Agents : \A f \in ToSet(up'[z]) : f \in ToSet(up[z]) \/ UpOk(z, f)'
      /\ \A z \in Agents : \A f \in ToSet(down'[z]) : f \in ToSet(down[z]) \/ DownOk(z, f)'
      /\ \A p \in Processes : \A f \in fwd'[p] : f \in fwd[p] \/ FwdOk(f)'
  <2>1. \A z \in Agents : DownOk(z, <<"run">>)'
    BY FrameParts DEF DownOk
  <2> QED BY <1>3, <1>4, <2>1
<1>10. \A y \in Agents : Due(y)' => Due(y)
  BY <1>1, <1>2, <1>4, TreeTypes DEF Due
<1> QED BY <1>4, <1>5, <1>6, <1>7, <1>8, <1>9, <1>10, QuietStep


(* Where a process is. *)
Stages == {"none", "idle", "asking", "told", "live", "refused", "leaving", "dead"}

(* What a step of a process may do with where the agents are.               *)
Moves ==
    \A y \in Agents :
        /\ st'[y] = "none" <=> st[y] = "none"
        /\ Sound(y)' => Sound(y)
        /\ Asked(y) => Asked(y)' /\ (st'[y] = "asking" => st[y] = "asking")
        /\ Began(y) => Began(y)' /\ (Ending(y) => Ending(y)')

(* A step of an agent that closes no link, registers nobody and sends no   *)
(* message.                                                                *)
LEMMA LocalStep ==
    ASSUME IInv, UNCHANGED <<job, limit, rec, mail>>, Moves,
           st' \in [Processes -> Stages], term' \in [Processes -> BOOLEAN],
           cut' \in [Agents -> BOOLEAN], blocked' \in [Processes -> Processes],
           up' \in Pipes, down' \in Pipes, Quiet,
           \A z \in Agents : link[z] \in {"none", "gone"} => up'[z] = <<>>,
           \A z \in Agents : \A f \in ToSet(up'[z]) : f \in ToSet(up[z]) \/ UpOk(z, f)',
           \A z \in Agents : \A f \in ToSet(down'[z]) : f \in ToSet(down[z]) \/ DownOk(z, f)',
           fwd' \in [Processes -> SUBSET Frame], \A p \in Processes : fwd'[p] \subseteq fwd[p],
           \A x \in Agents : Due(x)' /\ Connected(x)' => Due(x) \/ rec[Root][x] = "active"
    PROVE  IInv'
<1>1. /\ link' = link /\ out' = out /\ fg' = fg /\ limit' = limit /\ rec' = rec
      /\ env' = env /\ msg' = msg /\ got' = got
  BY DEF job, mail
<1>2. TypeOK /\ Kin
  BY InvParts
<1>3. Onward
  <2>1. \A y \in Agents : Forked(y) => Forked(y)' /\ (Sound(y)' => Sound(y))
    BY DEF Moves, Forked
  <2> QED BY <1>1, <2>1 DEF Onward, Moves
<1>4. TypeOK'
  <2>1. \A z \in Agents : link'[z] \in {"none", "gone"} => up'[z] = <<>>
    BY <1>1
  <2>2. \A p \in Processes : fwd'[p] \subseteq
        ({Admit(y) : y \in Below(p)} \cup {Message(m) : m \in {n \in Messages : To(n)' \in Below(p)}})
    <3>1. \A p \in Processes : \A f \in fwd'[p] : f \in fwd[p]
      OBVIOUS
    <3> QED BY <1>3, <3>1, FwdTypes
  <2> QED BY <1>1, <1>2, <2>1, <2>2 DEF TypeOK, Pipes, Stages
<1>5. Kin'
  BY <1>1, <1>2, <1>3, KinKept DEF Moves
<1>6. \A p \in Processes : \A f \in fwd'[p] : f \in fwd[p] \/ FwdOk(f)'
  OBVIOUS
<1> QED BY <1>1, <1>3, <1>4, <1>5, <1>6, QuietStep

(* A step that changes the pipes down alone, and adds no message. *)
LEMMA QuietDown ==
    ASSUME down \in Pipes, up' = up, down' \in Pipes,
           \A f : f[1] = "msg" \/ f[1] = "ack" => Fewer(down', down, f)
    PROVE  Quiet
BY FewerSame DEF Quiet

(* Where the processes are, with the types. *)
LEMMA StageParts ==
    ASSUME IInv
    PROVE  /\ st \in [Processes -> Stages] /\ term \in [Processes -> BOOLEAN]
           /\ cut \in [Agents -> BOOLEAN] /\ blocked \in [Processes -> Processes]
           /\ \A x \in Agents : st[x] \in Stages
BY TreeTypes DEF IInv, TypeOK, Stages

(* A handler of an agent with an open link has been forked.                 *)
LEMMA FromParts ==
    ASSUME IInv, NEW x \in Agents, NEW kind
    PROVE  /\ FromChild(x, kind) =>
                /\ up[x] # <<>> /\ Head(up[x]) \in Frame /\ Head(up[x])[1] = kind
                /\ UpOk(x, Head(up[x])) /\ Head(up[x]) \in ToSet(up[x])
                /\ JobHeld(x) /\ Parent[x] \in Processes /\ Parent[x] # x /\ Serves(Parent[x])
                /\ Forked(x)
           /\ FromParent(x, kind) =>
                /\ down[x] # <<>> /\ Head(down[x]) \in Frame /\ Head(down[x])[1] = kind
                /\ DownOk(x, Head(down[x])) /\ Head(down[x]) \in ToSet(down[x])
                /\ Serves(x) /\ ~cut[x] /\ Forked(x) /\ st[x] # "dead"
<1>1. /\ up \in Pipes /\ down \in Pipes /\ TypeOK /\ Kin /\ Framed
  BY InvParts
<1>2. ASSUME FromChild(x, kind)
      PROVE  /\ up[x] # <<>> /\ Head(up[x]) \in Frame /\ Head(up[x])[1] = kind
             /\ UpOk(x, Head(up[x])) /\ Head(up[x]) \in ToSet(up[x])
             /\ JobHeld(x) /\ Parent[x] \in Processes /\ Parent[x] # x /\ Serves(Parent[x])
             /\ Forked(x)
  <2>1. /\ up[x] # <<>> /\ Head(up[x])[1] = kind /\ JobHeld(x) /\ Serves(Parent[x])
    BY <1>2 DEF FromChild
  <2>2. Head(up[x]) \in Frame /\ Head(up[x]) \in ToSet(up[x])
    BY <1>1, <2>1, PopIs
  <2>3. UpOk(x, Head(up[x]))
    BY <1>1, <2>2 DEF Framed
  <2>4. Parent[x] \in Processes /\ Parent[x] # x
    BY TreeTypes, NoLoop
  <2>5. Forked(x)
    BY <1>1, <2>1 DEF Kin, JobHeld, Forked
  <2> QED BY <2>1, <2>2, <2>3, <2>4, <2>5
<1>3. ASSUME FromParent(x, kind)
      PROVE  /\ down[x] # <<>> /\ Head(down[x]) \in Frame /\ Head(down[x])[1] = kind
             /\ DownOk(x, Head(down[x])) /\ Head(down[x]) \in ToSet(down[x])
             /\ Serves(x) /\ ~cut[x] /\ Forked(x) /\ st[x] # "dead"
  <2>1. /\ down[x] # <<>> /\ Head(down[x])[1] = kind /\ Serves(x) /\ ~cut[x]
    BY <1>3 DEF FromParent
  <2>2. Head(down[x]) \in Frame /\ Head(down[x]) \in ToSet(down[x])
    BY <1>1, <2>1, PopIs
  <2>3. DownOk(x, Head(down[x]))
    BY <1>1, <2>2 DEF Framed
  <2>5. Forked(x) /\ st[x] # "dead"
    BY <2>1 DEF Serves, Running, Forked
  <2> QED BY <2>1, <2>2, <2>3, <2>5
<1> QED BY <1>2, <1>3

(* Agents that speak have a link.                                           *)
LEMMA UpwardKeepsClosed ==
    ASSUME IInv, NEW x \in Processes, NEW t \in Seq(Frame), x # Root => Forked(x)
    PROVE  \A z \in Agents : link[z] \in {"none", "gone"} => Upward(up, x, t)[z] = <<>>
<1> SUFFICES ASSUME NEW z \in Agents, link[z] \in {"none", "gone"}
             PROVE  Upward(up, x, t)[z] = <<>>
  OBVIOUS
<1>1. up[z] = <<>> /\ up \in Pipes /\ Kin
  BY InvParts
<1>2. z # x \/ Orphan(z)
  BY <1>1, TreeTypes DEF Kin, Forked, Orphan
<1> QED BY <1>1, <1>2, UpwardIs

(* An agent takes its tool/run and asks for admission. *)
LEMMA TakeRunKeeps ==
    ASSUME IInv, NEW x \in Agents, TakeRun(x)
    PROVE  IInv'
<1> DEFINE g == Admit(x)
           t == <<g>>
<1>1. /\ up \in Pipes /\ down \in Pipes /\ FromParent(x, "run")
      /\ st[x] = "idle" /\ st' = [st EXCEPT ![x] = "asking"] /\ down' = Popped(down, x)
      /\ up' = Upward(up, x, t) /\ x \in Processes
  BY InvParts, TreeTypes DEF TakeRun
<1>2. /\ t \in Seq(Frame) /\ ToSet(t) = {g} /\ g[1] = "admit" /\ g[2] = x
  <2>1. g \in Frame /\ g[1] = "admit" /\ g[2] = x
    BY FrameMade, FrameParts
  <2> HIDE DEF g
  <2> QED BY <2>1, OneFrame
<1> HIDE DEF t, g
<1>3. /\ down[x] # <<>> /\ Forked(x) /\ st[x] # "dead"
  BY <1>1, FromParts
<1>4. /\ down' \in Pipes /\ \A f : Fewer(down', down, f)
      /\ \A z \in Agents : \A f \in ToSet(down'[z]) : f \in ToSet(down[z])
  BY <1>1, <1>3, PopIs
<1>5. /\ up' \in Pipes
      /\ \A z \in Agents : \A f \in ToSet(up'[z]) : f \in ToSet(up[z]) \/ (z = x /\ f = g)
      /\ \A f : f # g => Fewer(up', up, f)
  BY <1>1, <1>2, UpwardIs
<1>6. Quiet
  BY <1>2, <1>4, <1>5 DEF Quiet
<1>7. \A z \in Agents : link[z] \in {"none", "gone"} => up'[z] = <<>>
  BY <1>1, <1>2, <1>3, UpwardKeepsClosed
<1>8. /\ term' = term /\ cut' = cut /\ blocked' = blocked /\ fwd' = fwd
      /\ link' = link /\ UNCHANGED <<job, limit, rec, mail>>
  BY DEF TakeRun, job, registry
<1>9. /\ st' \in [Processes -> Stages] /\ st'[x] = "asking"
      /\ \A p \in Processes \ {x} : st'[p] = st[p]
  BY <1>1, StageParts DEF Stages
<1>10. Moves
  BY <1>1, <1>8, <1>9, TreeTypes DEF Moves, Sound, Asked, Began, Ending
<1>11. \A z \in Agents : \A f \in ToSet(up'[z]) : f \in ToSet(up[z]) \/ UpOk(z, f)'
  <2>1. UpOk(x, g)'
    BY <1>2, <1>9, LineHas DEF UpOk, Asked
  <2> QED BY <1>5, <2>1
<1>12. \A y \in Agents : Due(y)' => Due(y)
  BY <1>8, <1>9, TreeTypes DEF Due
<1> QED BY <1>4, <1>5, <1>6, <1>7, <1>8, <1>9, <1>10, <1>11, <1>12, InvParts, StageParts, LocalStep

(* An agent moves on and tells its parent: what it tells is true of where  *)
(* it is now.                                                              *)
LEMMA SpeakKeeps ==
    ASSUME IInv, NEW x \in Agents, Serves(x), NEW s \in Stages, NEW t \in Seq(Frame),
           up' = Upward(up, x, t), st' = [st EXCEPT ![x] = s],
           UNCHANGED <<term, cut, blocked, job, down, registry, mail>>,
           s \notin {"none", "dead"},
           Asked(x) => s # "idle", s = "asking" => st[x] = "asking",
           Began(x) => s \in {"live", "leaving"} /\ (Ending(x) => s # "live" \/ term[x]),
           s = "told" \/ (s = "live" /\ ~term[x]) => Due(x),
           \A f \in ToSet(t) : f[1] # "msg" /\ f[1] # "ack" /\ UpOk(x, f)'
    PROVE  IInv'
<1>1. /\ up \in Pipes /\ down \in Pipes /\ x \in Processes /\ Forked(x) /\ st[x] # "dead"
  BY InvParts, TreeTypes DEF Serves, Running, Forked
<1>2. /\ down' = down /\ term' = term /\ cut' = cut /\ blocked' = blocked /\ fwd' = fwd
      /\ link' = link /\ UNCHANGED <<job, limit, rec, mail>>
  BY DEF job, registry
<1>3. /\ up' \in Pipes
      /\ \A z \in Agents : \A f \in ToSet(up'[z]) : f \in ToSet(up[z]) \/ (z = x /\ f \in ToSet(t))
      /\ Quiet
  BY <1>1, <1>2, QuietUp
<1>4. \A z \in Agents : link[z] \in {"none", "gone"} => up'[z] = <<>>
  BY <1>1, UpwardKeepsClosed
<1>5. /\ st' \in [Processes -> Stages] /\ st'[x] = s
      /\ \A p \in Processes \ {x} : st'[p] = st[p]
  BY <1>1, StageParts
<1>6. Moves
  BY <1>1, <1>2, <1>5, TreeTypes DEF Moves, Sound, Asked, Began, Ending, Forked
<1>7. \A y \in Agents : Due(y)' => Due(y)
  BY <1>2, <1>5, TreeTypes DEF Due
<1>8. \A z \in Agents : \A f \in ToSet(up'[z]) : f \in ToSet(up[z]) \/ UpOk(z, f)'
  BY <1>3
<1> QED BY <1>1, <1>2, <1>3, <1>4, <1>5, <1>6, <1>7, <1>8, InvParts, StageParts, LocalStep

(* fyai_agents_enter returns: the first report of an agent that runs. *)
LEMMA EnterKeeps ==
    ASSUME IInv, NEW x \in Agents, Enter(x)
    PROVE  IInv'
<1> DEFINE g == Event(x, TRUE)
           t == <<g>>
           s == "live"
<1>1. /\ Serves(x) /\ st[x] = "told" /\ st' = [st EXCEPT ![x] = s] /\ up' = Upward(up, x, t)
      /\ UNCHANGED <<term, cut, blocked, job, down, registry, mail>>
  BY DEF Enter
<1>2. s \in Stages /\ s = "live"
  BY DEF Stages
<1>3. t \in Seq(Frame) /\ ToSet(t) = {g} /\ g[1] = "event" /\ g[2] = x /\ g[3] = TRUE
  <2>1. g \in Frame /\ g[1] = "event" /\ g[2] = x /\ g[3] = TRUE
    BY FrameMade, MoreParts
  <2> HIDE DEF g
  <2> QED BY <2>1, OneFrame
<1> HIDE DEF s, t, g
<1>4. st'[x] = s
  BY <1>1, TreeTypes, StageParts
<1>5. UpOk(x, g)'
  BY <1>2, <1>3, <1>4, LineHas DEF UpOk, Began
<1>6. ~Began(x) /\ Due(x)
  BY <1>1 DEF Began, Due
<1>7. \A f \in ToSet(t) : f[1] # "msg" /\ f[1] # "ack" /\ UpOk(x, f)'
  BY <1>3, <1>5
<1> QED BY <1>1, <1>2, <1>3, <1>6, <1>7, SpeakKeeps

(* The answer to tool/run is a frame. *)
LEMMA ResultFrame ==
    /\ <<"result">> \in Frame /\ <<<<"result">>>> \in Seq(Frame)
    /\ \A f \in ToSet(<<<<"result">>>>) : f = <<"result">> /\ f[1] = "result"
<1> DEFINE g == <<"result">>
<1>1. g \in Frame /\ g[1] = "result"
  BY FrameMade, FrameParts
<1> HIDE DEF g
<1>2. <<g>> \in Seq(Frame) /\ ToSet(<<g>>) = {g}
  BY <1>1, OneFrame
<1> QED BY <1>1, <1>2 DEF g

(* An agent that was asked to end before the answer came drops its         *)
(* request.                                                                *)
LEMMA GiveUpKeeps ==
    ASSUME IInv, NEW x \in Agents, GiveUp(x)
    PROVE  IInv'
<1> DEFINE t == <<<<"result">>>>
           s == "refused"
<1>1. /\ Serves(x) /\ st[x] = "asking" /\ st' = [st EXCEPT ![x] = s] /\ up' = Upward(up, x, t)
      /\ UNCHANGED <<term, cut, blocked, job, down, registry, mail>>
  BY DEF GiveUp
<1>2. s \in Stages /\ s = "refused"
  BY DEF Stages
<1>3. t \in Seq(Frame) /\ \A f \in ToSet(t) : f[1] = "result"
  BY ResultFrame
<1> HIDE DEF s, t
<1>4. \A f \in ToSet(t) : f[1] # "msg" /\ f[1] # "ack" /\ UpOk(x, f)'
  BY <1>3 DEF UpOk
<1>5. ~Began(x)
  BY <1>1 DEF Began
<1> QED BY <1>1, <1>2, <1>3, <1>4, <1>5, SpeakKeeps

(* fyai_agents_leave: the last report and the result. *)
LEMMA FinishTurnKeeps ==
    ASSUME IInv, NEW x \in Agents, FinishTurn(x)
    PROVE  IInv'
<1> DEFINE g == Event(x, FALSE)
           h == <<"result">>
           t == <<g, h>>
           s == "leaving"
<1>1. /\ Serves(x) /\ st[x] = "live" /\ st' = [st EXCEPT ![x] = s] /\ up' = Upward(up, x, t)
      /\ UNCHANGED <<term, cut, blocked, job, down, registry, mail>>
  BY DEF FinishTurn
<1>2. s \in Stages /\ s = "leaving"
  BY DEF Stages
<1>3. t \in Seq(Frame) /\ ToSet(t) = {g, h} /\ g[1] = "event" /\ g[2] = x /\ h[1] = "result"
  <2>1. g \in Frame /\ g[1] = "event" /\ g[2] = x /\ h \in Frame /\ h[1] = "result"
    BY FrameMade, MoreParts, ResultFrame, FrameParts
  <2> HIDE DEF g, h
  <2> QED BY <2>1, TwoFrames
<1> HIDE DEF s, t, g, h
<1>4. st'[x] = s
  BY <1>1, TreeTypes, StageParts
<1>5. UpOk(x, g)' /\ UpOk(x, h)'
  BY <1>2, <1>3, <1>4, LineHas DEF UpOk, Began, Ending
<1>6. \A f \in ToSet(t) : f[1] # "msg" /\ f[1] # "ack" /\ UpOk(x, f)'
  BY <1>3, <1>5
<1> QED BY <1>1, <1>2, <1>3, <1>6, SpeakKeeps

(* The pipes stay.                                                          *)
LEMMA StillStep ==
    ASSUME IInv, UNCHANGED <<job, pipes, registry, mail>>, Moves,
           st' \in [Processes -> Stages], term' \in [Processes -> BOOLEAN],
           cut' \in [Agents -> BOOLEAN], blocked' \in [Processes -> Processes],
           \A x \in Agents : Due(x)' => Due(x)
    PROVE  IInv'
<1>1. up' = up /\ down' = down /\ fwd' = fwd /\ UNCHANGED <<job, limit, rec, mail>>
  BY DEF pipes, registry
<1>2. up \in Pipes /\ down \in Pipes /\ \A z \in Agents : link[z] \in {"none", "gone"} => up[z] = <<>>
  BY InvParts
<1>3. Quiet
  BY <1>1, FewerSame DEF Quiet
<1>4. fwd' \in [Processes -> SUBSET Frame]
  BY <1>1, InvParts
<1> QED BY <1>1, <1>2, <1>3, <1>4, LocalStep

(* The progress timer ends an agent without a parent, or reports. *)
LEMMA TickKeeps ==
    ASSUME IInv, NEW x \in Agents, Tick(x)
    PROVE  IInv'
<1>1. Serves(x) /\ st[x] = "live" /\ UNCHANGED <<st, cut, blocked, job, down, registry, mail>>
  BY DEF Tick
<1>2. CASE cut[x]
  <2>1. up' = up /\ term' = [term EXCEPT ![x] = TRUE]
    BY <1>2 DEF Tick
  <2>2. term' \in [Processes -> BOOLEAN] /\ \A p \in Processes : term'[p] = TRUE \/ term'[p] = term[p]
    BY <2>1, StageParts, TreeTypes
  <2>3. st' = st /\ cut' = cut /\ blocked' = blocked /\ link' = link
    BY <1>1 DEF job
  <2>4. Moves
    BY <2>2, <2>3, TreeTypes DEF Moves, Sound, Asked, Began, Ending
  <2>5. \A y \in Agents : Due(y)' => Due(y)
    BY <2>2, <2>3, TreeTypes DEF Due
  <2>6. UNCHANGED <<job, pipes, registry, mail>>
    BY <1>1, <2>1 DEF pipes
  <2> QED BY <2>2, <2>3, <2>4, <2>5, <2>6, StageParts, StillStep
<1>3. CASE ~cut[x]
  <2> DEFINE g == Event(x, FALSE)
             t == <<g>>
             s == st[x]
  <2>1. up' = Upward(up, x, t) /\ term' = term /\ term[x]
    BY <1>3 DEF Tick
  <2>2. s \in Stages /\ s = "live" /\ st' = [st EXCEPT ![x] = s]
    BY <1>1, StageParts DEF Stages
  <2>3. t \in Seq(Frame) /\ ToSet(t) = {g} /\ g[1] = "event" /\ g[2] = x
    <3>1. g \in Frame /\ g[1] = "event" /\ g[2] = x
      BY FrameMade, MoreParts
    <3> HIDE DEF g
    <3> QED BY <3>1, OneFrame
  <2> HIDE DEF t, g, s
  <2>4. st'[x] = "live" /\ term'[x]
    BY <1>1, <2>1
  <2>5. UpOk(x, g)'
    BY <2>3, <2>4, LineHas DEF UpOk, Began, Ending
  <2>6. \A f \in ToSet(t) : f[1] # "msg" /\ f[1] # "ack" /\ UpOk(x, f)'
    BY <2>3, <2>5
  <2>7. UNCHANGED <<term, cut, blocked, job, down, registry, mail>>
    BY <1>1, <2>1
  <2> QED BY <1>1, <2>1, <2>2, <2>3, <2>6, <2>7, SpeakKeeps
<1> QED BY <1>2, <1>3

(* An agent is asked to end. *)
LEMMA TerminateKeeps ==
    ASSUME IInv, NEW x \in Agents, Terminate(x)
    PROVE  IInv'
<1>1. UNCHANGED <<job, pipes, registry, mail>> /\ term' = [term EXCEPT ![x] = TRUE]
  BY DEF Terminate
<1>2. term' \in [Processes -> BOOLEAN] /\ \A p \in Processes : term'[p] = TRUE \/ term'[p] = term[p]
  BY <1>1, StageParts, TreeTypes
<1>3. st' = st /\ cut' = cut /\ blocked' = blocked /\ link' = link
  BY DEF Terminate, job
<1>4. Moves
  BY <1>2, <1>3, TreeTypes DEF Moves, Sound, Asked, Began, Ending
<1>5. \A y \in Agents : Due(y)' => Due(y)
  BY <1>2, <1>3, TreeTypes DEF Due
<1> QED BY <1>1, <1>2, <1>3, <1>4, <1>5, StageParts, StillStep

(* waitpid returns. *)
LEMMA ReapKeeps ==
    ASSUME IInv, NEW p \in Processes, Reap(p)
    PROVE  IInv'
<1>1. UNCHANGED <<job, pipes, registry, mail>> /\ blocked' = [blocked EXCEPT ![p] = Root]
  BY DEF Reap
<1>2. blocked' \in [Processes -> Processes]
  BY <1>1, StageParts, TreeTypes
<1>3. st' = st /\ cut' = cut /\ term' = term /\ link' = link
  BY DEF Reap, job
<1>4. Moves
  BY <1>3, TreeTypes DEF Moves, Sound, Asked, Began, Ending
<1>5. \A y \in Agents : Due(y)' => Due(y)
  BY <1>3, TreeTypes DEF Due
<1> QED BY <1>1, <1>2, <1>3, <1>4, <1>5, StageParts, StillStep

(* A frame is never read from a closed link. *)
LEMMA PopClosed ==
    ASSUME IInv, NEW x \in Agents, up[x] # <<>>
    PROVE  \A z \in Agents : link[z] \in {"none", "gone"} => Popped(up, x)[z] = <<>>
<1>1. up \in Pipes /\ \A z \in Agents : link[z] \in {"none", "gone"} => up[z] = <<>>
  BY InvParts
<1> QED BY <1>1, PopIs

(* What an agent tells its parent is not put in a closed link. *)
LEMMA UpwardClosed ==
    ASSUME IInv, NEW q \in Pipes, NEW x \in Processes, NEW t \in Seq(Frame), x # Root => Forked(x),
           \A z \in Agents : link[z] \in {"none", "gone"} => q[z] = <<>>
    PROVE  \A z \in Agents : link[z] \in {"none", "gone"} => Upward(q, x, t)[z] = <<>>
<1> SUFFICES ASSUME NEW z \in Agents, link[z] \in {"none", "gone"}
             PROVE  Upward(q, x, t)[z] = <<>>
  OBVIOUS
<1>1. q[z] = <<>> /\ Kin
  BY InvParts
<1>2. z # x \/ Orphan(z)
  BY <1>1, TreeTypes DEF Kin, Forked, Orphan
<1> QED BY <1>1, <1>2, UpwardIs

(* A handler that moves no agent and touches no message.                    *)
LEMMA RelayStep ==
    ASSUME IInv, UNCHANGED <<process, link, fg, limit, rec, mail>>,
           out' \in [Agents -> BOOLEAN],
           up' \in Pipes, down' \in Pipes, Quiet,
           \A z \in Agents : link[z] \in {"none", "gone"} => up'[z] = <<>>,
           \A z \in Agents : \A f \in ToSet(up'[z]) : f \in ToSet(up[z]) \/ UpOk(z, f),
           \A z \in Agents : \A f \in ToSet(down'[z]) : f \in ToSet(down[z]) \/ DownOk(z, f),
           fwd' \in [Processes -> SUBSET Frame],
           \A p \in Processes : \A f \in fwd'[p] :
              f \in fwd[p] \/ \E y \in Below(p) : f = Admit(y) /\ Asked(y)
    PROVE  IInv'
<1>1. /\ st' = st /\ term' = term /\ cut' = cut /\ blocked' = blocked
      /\ link' = link /\ fg' = fg /\ limit' = limit /\ rec' = rec
      /\ env' = env /\ msg' = msg /\ got' = got
  BY DEF process, mail
<1>2. TypeOK /\ Kin
  BY InvParts
<1>3. Onward
  BY <1>1 DEF Onward, Forked, Sound, Asked, Began, Ending
<1>4. \A p \in Processes : \A f \in fwd'[p] :
        f \in fwd[p] \/ (f[1] = "admit" /\ f[2] \in Below(p) /\ f = Admit(f[2]) /\ Asked(f[2]))
  BY FrameParts
<1>5. TypeOK'
  <2>1. \A z \in Agents : link'[z] \in {"none", "gone"} => up'[z] = <<>>
    BY <1>1
  <2>2. \A p \in Processes : fwd'[p] \subseteq
        ({Admit(y) : y \in Below(p)} \cup {Message(m) : m \in {n \in Messages : To(n)' \in Below(p)}})
    BY <1>3, <1>4, FwdTypes
  <2> QED BY <1>1, <1>2, <2>1, <2>2 DEF TypeOK, Pipes
<1>6. Kin'
  BY <1>1, <1>2, <1>3, KinKept
<1>7. /\ \A z \in Agents, f \in Frame : UpOk(z, f) => UpOk(z, f)'
      /\ \A z \in Agents, f \in Frame : DownOk(z, f) => DownOk(z, f)'
  BY <1>1 DEF UpOk, DownOk, Asked, Began, Ending, To, Connected
<1>8. /\ \A z \in Agents : \A f \in ToSet(up'[z]) : f \in ToSet(up[z]) \/ UpOk(z, f)'
      /\ \A z \in Agents : \A f \in ToSet(down'[z]) : f \in ToSet(down[z]) \/ DownOk(z, f)'
  <2>1. \A z \in Agents : up'[z] \in Seq(Frame) /\ down'[z] \in Seq(Frame)
    BY DEF Pipes
  <2>2. \A z \in Agents : ToSet(up'[z]) \subseteq Frame /\ ToSet(down'[z]) \subseteq Frame
    BY <2>1, FramesIn
  <2> QED BY <1>7, <2>2
<1>9. \A p \in Processes : \A f \in fwd'[p] : f \in fwd[p] \/ FwdOk(f)'
  BY <1>1, <1>4 DEF FwdOk, Asked
<1>10. \A y \in Agents : Due(y)' => Due(y)
  BY <1>1 DEF Due
<1>11. UNCHANGED mail
  OBVIOUS
<1> QED BY <1>1, <1>3, <1>5, <1>6, <1>8, <1>9, <1>10, <1>11, QuietStep

(* The parent gets the answer to tool/run. *)
LEMMA ServeResultKeeps ==
    ASSUME IInv, NEW x \in Agents, ServeResult(x)
    PROVE  IInv'
<1>1. /\ FromChild(x, "result") /\ out' = [out EXCEPT ![x] = FALSE] /\ up' = Popped(up, x)
      /\ UNCHANGED <<process, link, fg, down, registry, mail>>
  BY DEF ServeResult
<1>2. up \in Pipes /\ down \in Pipes /\ TypeOK /\ fwd \in [Processes -> SUBSET Frame]
  BY InvParts
<1>3. up[x] # <<>>
  BY <1>1, FromParts
<1>4. /\ up' \in Pipes /\ \A f : Fewer(up', up, f)
      /\ \A z \in Agents : \A f \in ToSet(up'[z]) : f \in ToSet(up[z])
  BY <1>1, <1>2, <1>3, PopIs
<1>5. \A z \in Agents : link[z] \in {"none", "gone"} => up'[z] = <<>>
  BY <1>1, <1>3, PopClosed
<1>6. down' = down /\ fwd' = fwd /\ UNCHANGED <<process, link, fg, limit, rec, mail>>
  BY <1>1 DEF registry
<1>7. Quiet
  BY <1>4, <1>6, FewerSame DEF Quiet
<1>8. out' \in [Agents -> BOOLEAN]
  BY <1>1, <1>2 DEF TypeOK
<1> QED BY <1>2, <1>4, <1>5, <1>6, <1>7, <1>8, RelayStep

(* An agent passes the admission of a descendant on. *)
LEMMA ServeAdmitPasses ==
    ASSUME IInv, NEW x \in Agents, ServeAdmit(x), Parent[x] # Root
    PROVE  IInv'
<1> DEFINE p == Parent[x]
           y == Head(up[x])[2]
           g == Admit(y)
           t == <<g>>
           q == Popped(up, x)
<1>1. /\ FromChild(x, "admit") /\ fwd' = [fwd EXCEPT ![p] = @ \cup {g}]
      /\ up' = Upward(q, p, t) /\ UNCHANGED <<rec, down, limit, process, job, mail>>
  BY DEF ServeAdmit
<1>2. up \in Pipes /\ down \in Pipes /\ TypeOK /\ fwd \in [Processes -> SUBSET Frame]
  BY InvParts
<1>3. /\ up[x] # <<>> /\ Head(up[x]) \in Frame /\ Head(up[x])[1] = "admit"
      /\ UpOk(x, Head(up[x])) /\ Serves(p)
  BY <1>1, FromParts
<1>4. y \in Agents /\ x \in Line[y] /\ Asked(y)
  BY <1>3, FrameKinds DEF UpOk
<1>5. p \in Processes /\ p \in Line[y] /\ y \in Below(p) /\ p \in Agents
  BY <1>4, ParentBelow, TreeTypes
<1>6. Forked(p)
  BY <1>3 DEF Serves, Running, Forked
<1>7. t \in Seq(Frame) /\ ToSet(t) = {g} /\ g[1] = "admit" /\ g[2] = y
  <2> HIDE DEF y
  <2>1. g \in Frame /\ g[1] = "admit" /\ g[2] = y
    BY <1>4, FrameMade, FrameParts
  <2> HIDE DEF g
  <2> QED BY <2>1, OneFrame
<1>8. /\ q \in Pipes /\ \A f : Fewer(q, up, f)
      /\ \A z \in Agents : ToSet(q[z]) \subseteq ToSet(up[z])
      /\ \A z \in Agents : link[z] \in {"none", "gone"} => q[z] = <<>>
  BY <1>2, <1>3, PopIs, PopClosed
<1>g. g = Admit(y)
  OBVIOUS
<1> HIDE DEF q, t, g, y, p
<1>9. /\ up' \in Pipes
      /\ \A z \in Agents : \A f \in ToSet(up'[z]) : f \in ToSet(q[z]) \/ (z = p /\ f = g)
      /\ \A f : f # g => Fewer(up', q, f)
      /\ \A z \in Agents : link[z] \in {"none", "gone"} => up'[z] = <<>>
  <2>1. /\ up' \in Pipes
        /\ \A z \in Agents : ToSet(up'[z]) \subseteq ToSet(q[z]) \cup (IF z = p THEN ToSet(t) ELSE {})
        /\ \A f : f \notin ToSet(t) => Fewer(up', q, f)
    BY <1>1, <1>5, <1>7, <1>8, UpwardIs
  <2>2. \A z \in Agents : link[z] \in {"none", "gone"} => up'[z] = <<>>
    BY <1>1, <1>5, <1>6, <1>7, <1>8, UpwardClosed
  <2> QED BY <1>7, <2>1, <2>2
<1>10. \A f : f # g => Fewer(up', up, f)
  BY <1>8, <1>9, FewerOver
<1>11. down' = down /\ UNCHANGED <<process, link, fg, limit, rec, mail>> /\ out' \in [Agents -> BOOLEAN]
  BY <1>1, <1>2 DEF job, TypeOK
<1>12. Quiet
  BY <1>7, <1>10, <1>11, FewerSame DEF Quiet
<1>13. \A z \in Agents : \A f \in ToSet(up'[z]) : f \in ToSet(up[z]) \/ UpOk(z, f)
  <2>1. UpOk(p, g)
    BY <1>4, <1>5, <1>7 DEF UpOk
  <2> QED BY <1>8, <1>9, <2>1
<1>14. \A r \in Processes : \A f \in fwd'[r] :
          f \in fwd[r] \/ \E w \in Below(r) : f = Admit(w) /\ Asked(w)
  <2>2. \A r \in Processes : fwd'[r] \subseteq fwd[r] \cup (IF r = p THEN {g} ELSE {})
    BY <1>1, <1>2
  <2> QED BY <1>g, <1>4, <1>5, <2>2
<1>15. fwd' \in [Processes -> SUBSET Frame]
  <2>1. g \in Frame
    BY <1>g, <1>4, FrameMade
  <2> QED BY <1>1, <1>2, <2>1
<1> QED BY <1>2, <1>9, <1>11, <1>12, <1>13, <1>14, <1>15, RelayStep

(* The root decides on an admission: the record it makes is within the     *)
(* limit, and it is there before the answer is.                            *)
LEMMA ServeAdmitDecides ==
    ASSUME IInv, NEW x \in Agents, ServeAdmit(x), Parent[x] = Root
    PROVE  IInv'
<1>0. FromChild(x, "admit")
  BY DEF ServeAdmit
<1>2. up \in Pipes /\ down \in Pipes /\ TypeOK /\ fwd \in [Processes -> SUBSET Frame]
      /\ Kin /\ Framed /\ Counted
  BY InvParts
<1>3. /\ up[x] # <<>> /\ Head(up[x]) \in Frame /\ Head(up[x])[1] = "admit"
      /\ UpOk(x, Head(up[x]))
  BY <1>0, FromParts
<1>a. PICK y \in Agents : y = Head(up[x])[2]
  BY <1>3, FrameKinds
<1> DEFINE room == Cardinality({z \in Agents : rec[Root][z] = "active"}) < limit
<1>c. room \in BOOLEAN
  OBVIOUS
<1> HIDE DEF room
<1>b. PICK ok \in BOOLEAN : ok = room
  BY <1>c, Zenon
<1>4. y \in Agents /\ x \in Line[y] /\ Asked(y)
  BY <1>3, <1>a DEF UpOk
<1>ok. /\ ok \in BOOLEAN /\ (ok <=> Cardinality(Active) < limit)
  BY <1>b DEF Active, room
<1> DEFINE g == Admitted(y, ok)
           t == <<g>>
<1>1. /\ rec' = IF ok THEN [rec EXCEPT ![Root][y] = "active"] ELSE rec
      /\ up' = Popped(up, x) /\ down' = Downward(down, x, t)
      /\ UNCHANGED <<fwd, limit, process, job, mail>>
  BY <1>a, <1>b DEF ServeAdmit, room
<1>5. g \in Frame /\ g[1] = "admitted" /\ g[2] = y /\ g[3] = ok
  BY <1>4, <1>ok, FrameMade, FrameParts
<1> HIDE DEF g
<1>6. t \in Seq(Frame) /\ ToSet(t) = {g}
  BY <1>5, OneFrame
<1> HIDE DEF t
<1>7. /\ st' = st /\ term' = term /\ cut' = cut /\ blocked' = blocked
      /\ link' = link /\ out' = out /\ fg' = fg /\ limit' = limit /\ fwd' = fwd
      /\ env' = env /\ msg' = msg /\ got' = got
  BY <1>1 DEF process, job, mail
<1>8. /\ up' \in Pipes /\ \A f : Fewer(up', up, f)
      /\ \A z \in Agents : \A f \in ToSet(up'[z]) : f \in ToSet(up[z])
      /\ \A z \in Agents : link[z] \in {"none", "gone"} => up'[z] = <<>>
  BY <1>1, <1>2, <1>3, PopIs, PopClosed
<1>9. /\ down' \in Pipes /\ \A f : f # g => Fewer(down', down, f)
      /\ \A z \in Agents : \A f \in ToSet(down'[z]) : f \in ToSet(down[z]) \/ (z = x /\ f = g)
  BY <1>1, <1>2, <1>6, DownwardIs
<1>10. /\ rec' \in [Processes -> [Agents -> {"none", "active", "ended"}]]
       /\ \A p \in Processes, w \in Agents : rec[p][w] = "active" => rec'[p][w] = "active"
       /\ \A p \in Processes, w \in Agents : rec'[p][w] = "active" => rec[p][w] = "active" \/ w = y
       /\ ok => rec'[Root][y] = "active"
       /\ ~ok => rec' = rec
  <2>1. rec \in [Processes -> [Agents -> {"none", "active", "ended"}]] /\ Root \in Processes
    BY <1>2, TreeTypes DEF TypeOK
  <2>2. CASE ok
    <3>1. rec' = [rec EXCEPT ![Root][y] = "active"]
      BY <1>1, <2>2
    <3> QED BY <1>4, <2>1, <2>2, <3>1
  <2>3. CASE ~ok
    BY <1>1, <2>1, <2>3
  <2> QED BY <2>2, <2>3
<1>11. Onward
  <2>1. \A w \in Agents :
          /\ Forked(w) => Forked(w)' /\ (Sound(w)' => Sound(w))
          /\ Asked(w) => Asked(w)' /\ (st'[w] = "asking" => st[w] = "asking")
          /\ Began(w) => Began(w)' /\ (Ending(w) => Ending(w)')
    BY <1>7 DEF Forked, Sound, Asked, Began, Ending
  <2> QED BY <1>7, <1>10, <2>1, TreeTypes DEF Onward
<1>12. TypeOK'
  <2>1. \A z \in Agents : link'[z] \in {"none", "gone"} => up'[z] = <<>>
    BY <1>7, <1>8
  <2>2. \A p \in Processes : fwd'[p] \subseteq
        ({Admit(w) : w \in Below(p)} \cup {Message(m) : m \in {n \in Messages : To(n)' \in Below(p)}})
    BY <1>7, <1>11, FwdTypes
  <2> QED BY <1>2, <1>7, <1>8, <1>9, <1>10, <2>1, <2>2 DEF TypeOK, Pipes
<1>13. Kin'
  <2>1. Forked(y)
    BY <1>4 DEF Asked, Forked
  <2> QED BY <1>2, <1>7, <1>10, <1>11, <2>1, KinKept
<1>14. Framed'
  <2>1. DownOk(x, g)'
    <3>1. Asked(y)'
      BY <1>4, <1>7 DEF Asked
    <3> QED BY <1>4, <1>5, <1>10, <3>1 DEF DownOk
  <2> QED BY <1>2, <1>7, <1>8, <1>9, <1>11, <1>12, <2>1, FramedKept DEF IInv
<1>15. Counted'
  <2>1. Active \in SUBSET Agents /\ IsFiniteSet(Active) /\ Cardinality(Active) \in Nat
        /\ IsFiniteSet(Active \cup {y})
        /\ Cardinality(Active \cup {y}) =
              IF y \in Active THEN Cardinality(Active) ELSE Cardinality(Active) + 1
    <3>1. Active \in SUBSET Agents
      BY DEF Active
    <3> QED BY <3>1, TreeTypes, FS_Subset, FS_CardinalityType, FS_AddElement
  <2>2. limit \in Nat /\ Cardinality(Active) <= limit
    BY <1>2, TreeTypes DEF TypeOK, Counted
  <2>3. Active' \subseteq Active \cup {y} /\ (~ok => Active' = Active)
    BY <1>10, TreeTypes DEF Active
  <2>4. Cardinality(Active') <= limit'
    <3>1. CASE ok
      <4>1. Cardinality(Active') <= Cardinality(Active \cup {y}) /\ Cardinality(Active') \in Nat
            /\ Cardinality(Active \cup {y}) \in Nat
        BY <2>1, <2>3, FS_Subset, FS_CardinalityType
      <4>2. Cardinality(Active) < limit
        BY <1>ok, <3>1
      <4> QED BY <1>7, <2>1, <2>2, <4>1, <4>2
    <3>2. CASE ~ok
      BY <1>7, <2>2, <2>3, <3>2
    <3> QED BY <3>1, <3>2
  <2>5. \A w \in Agents : Due(w)' /\ Connected(w)' => rec'[Root][w] = "active"
    BY <1>2, <1>7, <1>10, TreeTypes DEF Counted, Due, Connected
  <2> QED BY <2>4, <2>5 DEF Counted
<1>16. Quiet
  BY <1>5, <1>8, <1>9 DEF Quiet
<1>17. \A n \in Messages : Receipt(n)'
  BY <1>2, <1>7, <1>11, <1>16, QuietReceipts DEF IInv
<1> QED BY <1>12, <1>13, <1>14, <1>15, <1>17 DEF IInv

(* An agent gets the answer to its own admission, or passes down that of   *)
(* another; told yes it has its record.                                    *)
LEMMA ServeAdmittedKeeps ==
    ASSUME IInv, NEW x \in Agents, ServeAdmitted(x)
    PROVE  IInv'
<1> DEFINE h == Head(down[x])
           y == h[2]
           ok == h[3]
           q == Popped(down, x)
<1>1. /\ FromParent(x, "admitted") /\ UNCHANGED <<term, cut, blocked, job, limit, rec, mail>>
  BY DEF ServeAdmitted
<1>2. up \in Pipes /\ down \in Pipes /\ TypeOK /\ fwd \in [Processes -> SUBSET Frame] /\ Kin
      /\ \A z \in Agents : link[z] \in {"none", "gone"} => up[z] = <<>>
  BY InvParts
<1>3. /\ down[x] # <<>> /\ h \in Frame /\ h[1] = "admitted" /\ DownOk(x, h) /\ Forked(x)
  BY <1>1, FromParts
<1>4. /\ y \in Agents /\ ok \in BOOLEAN /\ h = Admitted(y, ok) /\ x \in Line[y] /\ Asked(y)
      /\ ok = TRUE /\ st[y] = "asking" /\ Connected(y) => rec[Root][y] = "active"
  BY <1>3, FrameKinds DEF DownOk
<1>5. /\ q \in Pipes /\ \A f : Fewer(q, down, f)
      /\ \A z \in Agents : ToSet(q[z]) \subseteq ToSet(down[z])
  BY <1>2, <1>3, PopIs
<1>6. /\ term' = term /\ cut' = cut /\ blocked' = blocked /\ link' = link /\ out' = out
      /\ UNCHANGED <<job, limit, rec, mail>>
  BY <1>1 DEF job
<1>7. CASE y = x /\ st[x] = "asking"
  <2> DEFINE s == IF ok THEN "told" ELSE "refused"
             t == <<<<"result">>>>
  <2>1. /\ st' = [st EXCEPT ![x] = s] /\ down' = q /\ fwd' = fwd
        /\ up' = IF ok THEN up ELSE Upward(up, x, t)
    BY <1>7 DEF ServeAdmitted
  <2>2. s \in {"told", "refused"} /\ (s = "told" => ok = TRUE)
    BY <1>4
  <2>3. t \in Seq(Frame) /\ \A f \in ToSet(t) : f = <<"result">> /\ f[1] = "result"
    BY ResultFrame
  <2> HIDE DEF s, t, q, ok, y, h
  <2>4. /\ st' \in [Processes -> Stages] /\ st'[x] = s
        /\ \A p \in Processes \ {x} : st'[p] = st[p]
    BY <2>1, <2>2, StageParts, TreeTypes DEF Stages
  <2>5. /\ up' \in Pipes
        /\ \A z \in Agents : \A f \in ToSet(up'[z]) : f \in ToSet(up[z]) \/ f[1] = "result"
        /\ \A f : f[1] = "msg" \/ f[1] = "ack" => Fewer(up', up, f)
        /\ \A z \in Agents : link[z] \in {"none", "gone"} => up'[z] = <<>>
    <3>1. CASE ok
      <4>1. up' = up
        BY <2>1, <3>1
      <4> QED BY <1>2, <4>1, FewerSame
    <3>2. CASE ~ok
      <4>1. up' = Upward(up, x, t) /\ x \in Processes
        BY <2>1, <3>2, TreeTypes
      <4>2. /\ up' \in Pipes
            /\ \A z \in Agents : ToSet(up'[z]) \subseteq ToSet(up[z]) \cup (IF z = x THEN ToSet(t) ELSE {})
            /\ \A f : f \notin ToSet(t) => Fewer(up', up, f)
        BY <1>2, <2>3, <4>1, UpwardIs
      <4>3. \A z \in Agents : link[z] \in {"none", "gone"} => up'[z] = <<>>
        BY <1>3, <2>3, <4>1, UpwardKeepsClosed
      <4> QED BY <2>3, <4>2, <4>3
    <3> QED BY <3>1, <3>2
  <2>6. Moves
    BY <1>6, <1>7, <2>2, <2>4, TreeTypes DEF Moves, Sound, Asked, Began, Ending
  <2>7. Quiet
    BY <1>5, <2>1, <2>5 DEF Quiet
  <2>8. \A z \in Agents : \A f \in ToSet(up'[z]) : f \in ToSet(up[z]) \/ UpOk(z, f)'
    BY <2>5 DEF UpOk
  <2>9. \A w \in Agents : Due(w)' /\ Connected(w)' => Due(w) \/ rec[Root][w] = "active"
    <3>1. ASSUME NEW w \in Agents, w # x, Due(w)' PROVE Due(w)
      BY <1>6, <2>4, <3>1, TreeTypes DEF Due
    <3>2. ASSUME Due(x)', Connected(x)' PROVE rec[Root][x] = "active"
      <4>1. s = "told"
        BY <2>2, <2>4, <3>2 DEF Due
      <4>2. Connected(x)
        <5>1. \A z \in Line[x] : z \in Agents /\ Sound(z)'
          BY <3>2, TreeTypes, LineHas DEF Connected, Sound
        <5>2. \A z \in Line[x] : Sound(z)
          BY <2>6, <5>1 DEF Moves
        <5> QED BY <5>2, TreeTypes, ConnectedIs
      <4> QED BY <1>4, <1>7, <2>2, <4>1, <4>2
    <3> QED BY <3>1, <3>2
  <2>10. /\ \A z \in Agents : \A f \in ToSet(down'[z]) : f \in ToSet(down[z]) \/ DownOk(z, f)'
         /\ down' \in Pipes
    BY <1>5, <2>1
  <2> QED BY <1>2, <1>6, <2>1, <2>4, <2>5, <2>6, <2>7, <2>8, <2>9, <2>10, StageParts, LocalStep
<1>8. CASE ~(y = x /\ st[x] = "asking")
  <2> DEFINE v == Via(x, y)
             t == <<h>>
  <2>1. /\ fwd' = [fwd EXCEPT ![x] = @ \ {Admit(y)}] /\ st' = st /\ up' = up
        /\ down' = IF Admit(y) \in fwd[x] THEN Downward(q, v, t) ELSE q
    BY <1>4, <1>8 DEF ServeAdmitted
  <2>2. t \in Seq(Frame) /\ ToSet(t) = {h}
    <3> HIDE DEF h
    <3> QED BY <1>3, OneFrame
  <2>3. ASSUME Admit(y) \in fwd[x] PROVE v \in Agents /\ v \in Line[y]
    <3> DEFINE f == Admit(y)
    <3> HIDE DEF y
    <3>1. f \in fwd[x] /\ f[1] = "admit" /\ f[2] = y /\ x \in Processes
      BY <2>3, FrameParts, TreeTypes
    <3> HIDE DEF f
    <3>2. y \in Below(x)
      BY <1>2, <3>1, FwdFrames
    <3> QED BY <3>1, <3>2, ViaIs
  <2>a. ASSUME Admit(y) \in fwd[x] PROVE DownOk(v, h)
    BY <1>3, <1>4, <2>3, <2>a DEF DownOk
  <2> HIDE DEF v, t, q, ok, y, h
  <2>4. /\ down' \in Pipes
        /\ \A z \in Agents : \A f \in ToSet(down'[z]) : f \in ToSet(down[z]) \/ DownOk(z, f)
        /\ \A f : f # h => Fewer(down', down, f)
    <3>1. CASE Admit(y) \in fwd[x]
      <4>1. down' = Downward(q, v, t) /\ v \in Agents /\ DownOk(v, h)
        BY <2>1, <2>3, <2>a, <3>1
      <4>2. /\ down' \in Pipes
            /\ \A z \in Agents : ToSet(down'[z]) \subseteq ToSet(q[z]) \cup (IF z = v THEN ToSet(t) ELSE {})
            /\ \A f : f \notin ToSet(t) => Fewer(down', q, f)
        BY <1>5, <2>2, <4>1, DownwardIs
      <4>3. \A f : f # h => Fewer(down', down, f)
        BY <1>5, <2>2, <4>2, FewerOver
      <4> QED BY <1>5, <2>2, <4>1, <4>2, <4>3
    <3>2. CASE Admit(y) \notin fwd[x]
      BY <1>5, <2>1, <3>2
    <3> QED BY <3>1, <3>2
  <2>5. Quiet
    BY <1>3, <2>1, <2>4, FewerSame DEF Quiet
  <2>6. /\ fwd' \in [Processes -> SUBSET Frame]
        /\ \A p \in Processes : \A f \in fwd'[p] : f \in fwd[p]
    BY <1>2, <2>1
  <2>7. UNCHANGED <<process, link, fg, limit, rec, mail>> /\ out' \in [Agents -> BOOLEAN]
    BY <1>1, <1>2, <1>6, <2>1 DEF process, job, TypeOK
  <2> QED BY <1>2, <2>1, <2>4, <2>5, <2>6, <2>7, RelayStep
<1> QED BY <1>7, <1>8

(* An agent that lost its parent: its messages up are refused, and the     *)
(* admissions it passed on are answered no.                                *)
LEMMA LoseParentKeeps ==
    ASSUME IInv, NEW x \in Agents, LoseParent(x)
    PROVE  IInv'
<1> DEFINE asked == {y \in Agents : Admit(y) \in fwd[x]}
           own == {m \in Messages : msg[m] = "sent" /\ From(m) = x /\ x \notin Line[To(m)]}
           T(z) == {Admitted(y, FALSE) : y \in {v \in asked : z \in Line[v]}}
<1>1. /\ Serves(x) /\ cut' = [cut EXCEPT ![x] = TRUE]
      /\ st' = [st EXCEPT ![x] = IF @ = "asking" THEN "refused" ELSE @]
      /\ msg' = AllRefused(own)
      /\ fwd' = [fwd EXCEPT ![x] = @ \ {Admit(y) : y \in asked}]
      /\ down' = [z \in Agents |-> IF z = x THEN <<>>
                                   ELSE down[z] \o (IF Parent[z] # x THEN <<>> ELSE SetToSeq(T(z)))]
      /\ term' = term /\ blocked' = blocked /\ up' = up /\ limit' = limit /\ rec' = rec
      /\ env' = env /\ got' = got /\ UNCHANGED job
  BY DEF LoseParent
<1>2. /\ up \in Pipes /\ down \in Pipes /\ TypeOK /\ fwd \in [Processes -> SUBSET Frame] /\ Kin
      /\ Framed /\ x \in Processes
      /\ \A z \in Agents : link[z] \in {"none", "gone"} => up[z] = <<>>
  BY InvParts, TreeTypes
<1>3. link' = link /\ out' = out /\ fg' = fg
  BY <1>1 DEF job
<1>4. Forked(x) /\ st[x] # "dead"
  BY <1>1 DEF Serves, Running, Forked
<1>5. /\ st' \in [Processes -> Stages]
      /\ st'[x] = IF st[x] = "asking" THEN "refused" ELSE st[x]
      /\ \A p \in Processes \ {x} : st'[p] = st[p]
      /\ cut' \in [Agents -> BOOLEAN] /\ cut'[x]
      /\ \A z \in Agents \ {x} : cut'[z] = cut[z]
  BY <1>1, <1>2, StageParts, TreeTypes DEF Stages
<1>6. /\ \A n \in Messages : msg'[n] = IF n \in own THEN "refused" ELSE msg[n]
      /\ \A n \in own : msg[n] = "sent"
  BY <1>1 DEF AllRefused
<1>7. \A y \in asked : y \in Agents /\ Asked(y)
  <2> SUFFICES ASSUME NEW y \in asked PROVE y \in Agents /\ Asked(y)
    OBVIOUS
  <2>1. y \in Agents /\ Admit(y) \in fwd[x]
    OBVIOUS
  <2>2. FwdOk(Admit(y))
    BY <1>2, <2>1 DEF Framed
  <2>3. Admit(y)[1] = "admit" /\ Admit(y)[2] = y
    BY FrameParts
  <2> QED BY <2>1, <2>2, <2>3 DEF FwdOk
<1>8. ASSUME NEW z \in Agents
      PROVE  /\ down'[z] \in Seq(Frame)
             /\ \A f \in ToSet(down'[z]) :
                    \/ f \in ToSet(down[z])
                    \/ f[1] = "admitted" /\ z \in Line[f[2]] /\ f[2] \in asked /\ f[3] = FALSE
             /\ \A f : f[1] = "msg" \/ f[1] = "ack" => Less(down'[z], down[z], f)
  <2>1. down[z] \in Seq(Frame)
    BY <1>2 DEF Pipes
  <2>2. CASE z = x
    <3>1. down'[z] = <<>>
      BY <1>1, <2>2
    <3> QED BY <3>1, NoFrames
  <2>3. CASE z # x /\ Parent[z] # x
    <3>1. down'[z] = down[z] \o <<>>
      BY <1>1, <2>3
    <3>2. down'[z] = down[z]
      BY <2>1, <3>1, ConcatEmptySeq
    <3> QED BY <2>1, <3>2, LessSame
  <2>4. CASE z # x /\ Parent[z] = x
    <3> DEFINE S == T(z)
               t == SetToSeq(S)
    <3>1. down'[z] = down[z] \o t
      BY <1>1, <2>4
    <3>2. {v \in asked : z \in Line[v]} \in SUBSET Agents
      OBVIOUS
    <3>3. S \subseteq Frame /\ IsFiniteSet(S)
      <4> HIDE DEF asked
      <4> QED BY <3>2, ManyFrames
    <3>4. \A f \in S : f[1] = "admitted" /\ z \in Line[f[2]] /\ f[2] \in asked /\ f[3] = FALSE
      <4> HIDE DEF asked
      <4> SUFFICES ASSUME NEW f \in S
                   PROVE  f[1] = "admitted" /\ z \in Line[f[2]] /\ f[2] \in asked /\ f[3] = FALSE
        OBVIOUS
      <4>1. PICK y \in {v \in asked : z \in Line[v]} : f = Admitted(y, FALSE)
        OBVIOUS
      <4>2. f[1] = "admitted" /\ f[2] = y /\ f[3] = FALSE
        BY <4>1, MoreParts
      <4> QED BY <4>1, <4>2
    <3> HIDE DEF S
    <3>5. t \in Seq(Frame) /\ ToSet(t) \subseteq S
      BY <3>3, FramesOf
    <3> HIDE DEF t
    <3>6. /\ down'[z] \in Seq(Frame) /\ ToSet(down'[z]) = ToSet(down[z]) \cup ToSet(t)
          /\ \A f : f \notin ToSet(t) => Less(down'[z], down[z], f)
      BY <2>1, <3>1, <3>5, FramesMore
    <3> HIDE DEF asked
    <3> QED BY <3>4, <3>5, <3>6
  <2> QED BY <2>2, <2>3, <2>4
<1>9. \A n \in own : n \in Messages /\ From(n) = x /\ msg[n] = "sent"
  OBVIOUS
<1>f. /\ \A p \in Processes : \A f \in fwd'[p] : f \in fwd[p]
      /\ fwd' \in [Processes -> SUBSET Frame]
  BY <1>1, <1>2
<1>d. DOMAIN down' = Agents /\ DOMAIN msg' = Messages
  BY <1>1 DEF AllRefused
<1>m. msg' \in [Messages -> {"none", "held", "sent", "queued", "refused", "cancelled", "lost"}]
  BY <1>1, <1>2 DEF AllRefused, TypeOK
<1>k. down' = [z \in Agents |-> down'[z]]
  BY <1>1
<1> HIDE DEF asked, own, T
<1>10. /\ down' \in Pipes
       /\ \A f : f[1] = "msg" \/ f[1] = "ack" => Fewer(down', down, f)
  BY <1>8, <1>k DEF Pipes, Fewer
<1>11. Quiet
  BY <1>1, <1>10, FewerSame DEF Quiet
<1>12. \A y \in Agents :
         /\ st'[y] = "none" <=> st[y] = "none"
         /\ Forked(y) => Forked(y)' /\ (Sound(y)' => Sound(y))
         /\ Asked(y) => Asked(y)' /\ (st'[y] = "asking" => st[y] = "asking")
         /\ Began(y) => Began(y)' /\ (Ending(y) => Ending(y)')
  BY <1>1, <1>3, <1>5, TreeTypes DEF Forked, Sound, Asked, Began, Ending
<1>13. Onward
  BY <1>1, <1>6, <1>9, <1>12 DEF Onward
<1>14. TypeOK'
  <2>1. \A z \in Agents : link'[z] \in {"none", "gone"} => up'[z] = <<>>
    BY <1>1, <1>2, <1>3
  <2>2. \A p \in Processes : fwd'[p] \subseteq
        ({Admit(w) : w \in Below(p)} \cup {Message(m) : m \in {n \in Messages : To(n)' \in Below(p)}})
    BY <1>f, <1>13, FwdTypes
  <2> QED BY <1>1, <1>2, <1>3, <1>5, <1>10, <1>f, <1>m, <2>1, <2>2 DEF TypeOK, Pipes, Stages
<1>15. Kin'
  BY <1>1, <1>2, <1>3, <1>12, <1>13, KinKept
<1>16. \A z \in Agents : \A f \in ToSet(down'[z]) : f \in ToSet(down[z]) \/ DownOk(z, f)'
  <2>1. ASSUME NEW z \in Agents, NEW f, f[1] = "admitted", z \in Line[f[2]], f[2] \in asked, f[3] = FALSE
        PROVE  DownOk(z, f)'
    <3>1. Asked(f[2])'
      BY <1>7, <1>12, <2>1
    <3> QED BY <2>1, <3>1 DEF DownOk
  <2> QED BY <1>8, <2>1
<1>17. \A n \in Messages : Receipt(n)'
  <2>1. ASSUME NEW n \in Messages
        PROVE  \/ msg'[n] = msg[n]
               \/ /\ msg[n] # "none" /\ msg'[n] = "refused"
                  /\ Has(Message(n)) \/ got[n] = 1 => Severed(n)'
    <3>1. CASE n \notin own
      BY <1>6, <3>1
    <3>2. CASE n \in own
      <4>1. From(n)' = x
        BY <1>1, <1>9, <3>2 DEF From
      <4>2. x \in Line[x] /\ ~Connected(x)'
        BY <1>5, LineHas DEF Connected
      <4>3. Severed(n)'
        BY <4>1, <4>2 DEF Severed
      <4> QED BY <1>6, <3>2, <4>3
    <3> QED BY <3>1, <3>2
  <2> QED BY <1>1, <1>2, <1>11, <1>13, <2>1, QuietReceipts DEF IInv
<1>18. \A y \in Agents : Due(y)' => Due(y)
  BY <1>1, <1>5, TreeTypes DEF Due
<1>19. Active' \subseteq Active
  BY <1>1 DEF Active
<1> QED BY <1>1, <1>f, <1>13, <1>14, <1>15, <1>16, <1>17, <1>18, <1>19, StepKeeps

(* A process is gone, with some of what it wrote: its messages have no     *)
(* sender left to be told.                                                 *)
LEMMA GoneKeeps ==
    ASSUME IInv, NEW x \in Agents, Running(x), NEW written \in 0 .. Len(up[x]), Gone(x, written)
    PROVE  IInv'
<1>1. /\ st' = [st EXCEPT ![x] = "dead"]
      /\ term' = [term EXCEPT ![x] = FALSE] /\ cut' = [cut EXCEPT ![x] = FALSE]
      /\ blocked' = [blocked EXCEPT ![x] = Root]
      /\ msg' = [m \in Messages |-> IF From(m) = x /\ msg[m] # "none" THEN "lost" ELSE msg[m]]
      /\ rec' = [rec EXCEPT ![x] = [y \in Agents |-> "none"]]
      /\ fwd' = [fwd EXCEPT ![x] = {}]
      /\ up' = [y \in Agents |->
                  IF y = x THEN SubSeq(up[x], 1, written)
                  ELSE IF Parent[y] = x THEN <<>> ELSE up[y]]
      /\ limit' = limit /\ env' = env /\ got' = got /\ UNCHANGED job
  BY DEF Gone
<1>2. /\ up \in Pipes /\ down \in Pipes /\ TypeOK /\ fwd \in [Processes -> SUBSET Frame] /\ Kin
      /\ Framed /\ x \in Processes /\ x # Root
      /\ \A z \in Agents : link[z] \in {"none", "gone"} => up[z] = <<>>
  BY InvParts, TreeTypes
<1>3. link' = link /\ out' = out /\ fg' = fg
  BY <1>1 DEF job
<1>4. Forked(x) /\ st[x] # "dead"
  BY DEF Running, Forked
<1>5. /\ st' \in [Processes -> Stages] /\ st'[x] = "dead"
      /\ \A p \in Processes \ {x} : st'[p] = st[p]
      /\ cut' \in [Agents -> BOOLEAN] /\ term' \in [Processes -> BOOLEAN]
      /\ blocked' \in [Processes -> Processes]
      /\ \A z \in Agents \ {x} : cut'[z] = cut[z] /\ term'[z] = term[z]
      /\ rec' \in [Processes -> [Agents -> {"none", "active", "ended"}]]
      /\ rec'[Root] = rec[Root]
      /\ \A p \in Processes, y \in Agents : rec'[p][y] = "active" => rec[p][y] = "active"
      /\ msg' \in [Messages -> {"none", "held", "sent", "queued", "refused", "cancelled", "lost"}]
      /\ \A n \in Messages : msg'[n] = msg[n] \/ (msg'[n] = "lost" /\ msg[n] # "none")
  <2>1. /\ st' \in [Processes -> Stages] /\ st'[x] = "dead"
        /\ \A p \in Processes \ {x} : st'[p] = st[p]
        /\ cut' \in [Agents -> BOOLEAN] /\ term' \in [Processes -> BOOLEAN]
        /\ blocked' \in [Processes -> Processes]
        /\ \A z \in Agents \ {x} : cut'[z] = cut[z] /\ term'[z] = term[z]
    BY <1>1, <1>2, StageParts, TreeTypes DEF Stages
  <2>2. /\ rec' \in [Processes -> [Agents -> {"none", "active", "ended"}]]
        /\ rec'[Root] = rec[Root]
        /\ \A p \in Processes, y \in Agents : rec'[p][y] = "active" => rec[p][y] = "active"
    <3>1. rec \in [Processes -> [Agents -> {"none", "active", "ended"}]]
      BY <1>2 DEF TypeOK
    <3> QED BY <1>1, <1>2, <3>1, TreeTypes
  <2>3. /\ msg' \in [Messages -> {"none", "held", "sent", "queued", "refused", "cancelled", "lost"}]
        /\ \A n \in Messages : msg'[n] = msg[n] \/ (msg'[n] = "lost" /\ msg[n] # "none")
    <3>1. msg \in [Messages -> {"none", "held", "sent", "queued", "refused", "cancelled", "lost"}]
      BY <1>2 DEF TypeOK
    <3> QED BY <1>1, <3>1
  <2> QED BY <2>1, <2>2, <2>3
<1>6. ASSUME NEW z \in Agents
      PROVE  /\ up'[z] \in Seq(Frame) /\ ToSet(up'[z]) \subseteq ToSet(up[z])
             /\ \A f : Less(up'[z], up[z], f)
             /\ link[z] \in {"none", "gone"} => up'[z] = <<>>
  <2>1. up[z] \in Seq(Frame) /\ (link[z] \in {"none", "gone"} => up[z] = <<>>)
    BY <1>2 DEF Pipes
  <2>2. CASE z = x
    <3>1. up'[z] = SubSeq(up[z], 1, written) /\ written \in 0 .. Len(up[z])
      BY <1>1, <2>2
    <3>2. /\ SubSeq(up[z], 1, written) \in Seq(Frame)
          /\ ToSet(SubSeq(up[z], 1, written)) \subseteq ToSet(up[z])
          /\ \A f : Less(SubSeq(up[z], 1, written), up[z], f)
      BY <2>1, <3>1, FramesFirst
    <3>3. ASSUME up[z] = <<>> PROVE SubSeq(up[z], 1, written) = <<>>
      <4>1. written < 1 /\ written \in Int
        BY <3>1, <3>3
      <4> QED BY <4>1, SubSeqEmpty
    <3> QED BY <2>1, <3>1, <3>2, <3>3
  <2>3. CASE z # x /\ Parent[z] = x
    <3>1. up'[z] = <<>>
      BY <1>1, <2>3
    <3> QED BY <3>1, NoFrames
  <2>4. CASE z # x /\ Parent[z] # x
    <3>1. up'[z] = up[z]
      BY <1>1, <2>4
    <3> QED BY <2>1, <3>1, LessSame
  <2> QED BY <2>2, <2>3, <2>4
<1>7. PICK kept \in [ChildrenOf(x) -> 0 .. 1] :
         down' = [y \in Agents |->
                    IF y \in ChildrenOf(x)
                    THEN IF kept[y] = 0 THEN <<>> ELSE down[y]
                    ELSE down[y]]
  BY DEF Gone
<1>8. ASSUME NEW z \in Agents
      PROVE  /\ down'[z] \in Seq(Frame) /\ ToSet(down'[z]) \subseteq ToSet(down[z])
             /\ \A f : Less(down'[z], down[z], f)
  <2>1. down[z] \in Seq(Frame)
    BY <1>2 DEF Pipes
  <2>2. down'[z] = <<>> \/ down'[z] = down[z]
    BY <1>7
  <2>3. CASE down'[z] = <<>>
    BY <2>3, NoFrames
  <2>4. CASE down'[z] = down[z]
    BY <2>1, <2>4, LessSame
  <2> QED BY <2>2, <2>3, <2>4
<1>9. up' = [z \in Agents |-> up'[z]] /\ down' = [z \in Agents |-> down'[z]]
  BY <1>1, <1>7
<1>10. up' \in Pipes /\ down' \in Pipes /\ \A f : Fewer(up', up, f) /\ Fewer(down', down, f)
  BY <1>6, <1>8, <1>9 DEF Pipes, Fewer
<1>11. Quiet
  BY <1>10 DEF Quiet
<1>f. /\ \A p \in Processes : \A f \in fwd'[p] : f \in fwd[p]
      /\ fwd' \in [Processes -> SUBSET Frame]
  BY <1>1, <1>2
<1>12. \A y \in Agents :
         /\ st'[y] = "none" <=> st[y] = "none"
         /\ Forked(y) => Forked(y)' /\ (Sound(y)' => Sound(y))
         /\ Asked(y) => Asked(y)' /\ (st'[y] = "asking" => st[y] = "asking")
         /\ Began(y) => Began(y)' /\ (Ending(y) => Ending(y)')
  BY <1>3, <1>4, <1>5, TreeTypes DEF Forked, Sound, Asked, Began, Ending
<1>13. Onward
  BY <1>1, <1>5, <1>12 DEF Onward
<1>14. TypeOK'
  <2>1. \A z \in Agents : link'[z] \in {"none", "gone"} => up'[z] = <<>>
    BY <1>3, <1>6
  <2>2. \A p \in Processes : fwd'[p] \subseteq
        ({Admit(w) : w \in Below(p)} \cup {Message(m) : m \in {n \in Messages : To(n)' \in Below(p)}})
    BY <1>f, <1>13, FwdTypes
  <2> QED BY <1>1, <1>2, <1>3, <1>5, <1>10, <1>f, <2>1, <2>2 DEF TypeOK, Pipes, Stages
<1>15. Kin'
  BY <1>2, <1>3, <1>5, <1>12, <1>13, KinKept
<1>17. \A n \in Messages : Receipt(n)'
  BY <1>1, <1>2, <1>5, <1>11, <1>13, QuietReceipts DEF IInv
<1>18. \A y \in Agents : Due(y)' => Due(y)
  BY <1>5, TreeTypes DEF Due
<1>19. Active' \subseteq Active
  BY <1>5 DEF Active
<1>20. /\ \A z \in Agents : \A f \in ToSet(up'[z]) : f \in ToSet(up[z])
       /\ \A z \in Agents : \A f \in ToSet(down'[z]) : f \in ToSet(down[z])
  BY <1>6, <1>8
<1> QED BY <1>1, <1>f, <1>13, <1>14, <1>15, <1>17, <1>18, <1>19, <1>20, StepKeeps

(* An agent that has ended exits. *)
LEMMA ExitKeeps ==
    ASSUME IInv, NEW x \in Agents, Exit(x)
    PROVE  IInv'
<1>1. Running(x) /\ Gone(x, Len(up[x]))
  BY DEF Exit, Serves
<1>2. Len(up[x]) \in 0 .. Len(up[x])
  <2>1. up[x] \in Seq(Frame)
    BY InvParts DEF Pipes
  <2> QED BY <2>1
<1> QED BY <1>1, <1>2, GoneKeeps

(* An agent is killed. *)
LEMMA CrashKeeps ==
    ASSUME IInv, NEW x \in Agents, Crash(x)
    PROVE  IInv'
<1>1. Running(x) /\ \E n \in 0 .. Len(up[x]) : Gone(x, n)
  BY DEF Crash
<1> QED BY <1>1, GoneKeeps


(* Where a message is. *)
Mails == {"none", "held", "sent", "queued", "refused", "cancelled", "lost"}

(* The handler of a message goes onward if it takes no message back. *)
LEMMA MailOnward ==
    ASSUME UNCHANGED <<process, job, rec, env>>,
           \A n \in Messages :
              /\ msg[n] # "none" => msg'[n] # "none"
              /\ msg[n] \notin {"none", "held"} => msg'[n] \notin {"none", "held"}
    PROVE  Onward
<1>1. /\ st' = st /\ term' = term /\ cut' = cut /\ blocked' = blocked
      /\ link' = link /\ out' = out /\ fg' = fg /\ rec' = rec /\ env' = env
  BY DEF process, job
<1> QED BY <1>1 DEF Onward, Forked, Sound, Asked, Began, Ending, Due, Connected

(* A message that the step does not touch.                                  *)
LEMMA OtherReceipt ==
    ASSUME TypeOK, Kin, Onward, NEW n \in Messages, Receipt(n),
           msg'[n] = msg[n], env'[n] = env[n], got'[n] = got[n],
           \A f \in {Message(n), Ack(n, TRUE), Ack(n, FALSE)} :
              Fewer(up', up, f) /\ Fewer(down', down, f)
    PROVE  Receipt(n)'
<1>1. /\ Fewer(up', up, Message(n)) /\ Fewer(down', down, Message(n))
      /\ Fewer(up', up, Ack(n, TRUE)) /\ Fewer(down', down, Ack(n, TRUE))
      /\ Fewer(up', up, Ack(n, FALSE)) /\ Fewer(down', down, Ack(n, FALSE))
  OBVIOUS
<1>2. One(Message(n))' /\ (Has(Message(n))' => Has(Message(n)))
  <2> DEFINE f == Message(n)
  <2>1. One(f)
    BY DEF Receipt
  <2> HIDE DEF f
  <2>2. One(f)' /\ (Has(f)' => Has(f))
    BY <1>1, <2>1, OneStays, HasStays DEF f
  <2> QED BY <2>2 DEF f
<1>3. Has(Ack(n, TRUE))' => Has(Ack(n, TRUE))
  <2> DEFINE f == Ack(n, TRUE)
  <2> HIDE DEF f
  <2>2. Has(f)' => Has(f)
    BY <1>1, HasStays DEF f
  <2> QED BY <2>2 DEF f
<1>4. Has(Ack(n, FALSE))' => Has(Ack(n, FALSE))
  <2> DEFINE f == Ack(n, FALSE)
  <2> HIDE DEF f
  <2>2. Has(f)' => Has(f)
    BY <1>1, HasStays DEF f
  <2> QED BY <2>2 DEF f
<1> HIDE DEF Receipt
<1>5. msg[n] = "queued" => msg[n] = "queued" \/ got[n] = 1
  OBVIOUS
<1> QED BY <1>2, <1>3, <1>4, ReceiptKept

(* A handler of a message or of an answer to one.                           *)
LEMMA MailStep ==
    ASSUME IInv, Onward, UNCHANGED <<process, job, limit, rec, env>>,
           up' \in Pipes, down' \in Pipes,
           \A z \in Agents : link[z] \in {"none", "gone"} => up'[z] = <<>>,
           \A z \in Agents : \A f \in ToSet(up'[z]) : f \in ToSet(up[z]) \/ UpOk(z, f)',
           \A z \in Agents : \A f \in ToSet(down'[z]) : f \in ToSet(down[z]) \/ DownOk(z, f)',
           fwd' \in [Processes -> SUBSET Frame],
           \A p \in Processes : \A f \in fwd'[p] :
              f \in fwd[p] \/ \E n \in Messages : /\ f = Message(n) /\ To(n) \in Below(p)
                                                  /\ msg'[n] \notin {"none", "held"},
           msg' \in [Messages -> Mails], got' \in [Messages -> Nat],
           \A n \in Messages : Receipt(n)'
    PROVE  IInv'
<1>1. /\ st' = st /\ term' = term /\ cut' = cut /\ blocked' = blocked
      /\ link' = link /\ out' = out /\ fg' = fg /\ rec' = rec /\ env' = env /\ limit' = limit
  BY DEF process, job
<1>2. TypeOK /\ Kin
  BY InvParts
<1>3. \A p \in Processes : \A f \in fwd'[p] :
        f \in fwd[p] \/ (/\ f[1] = "msg" /\ f[2] \in Messages /\ To(f[2])' \in Below(p)
                         /\ f = Message(f[2]) /\ FwdOk(f)')
  <2> SUFFICES ASSUME NEW p \in Processes, NEW f \in fwd'[p], f \notin fwd[p]
               PROVE  /\ f[1] = "msg" /\ f[2] \in Messages /\ To(f[2])' \in Below(p)
                      /\ f = Message(f[2]) /\ FwdOk(f)'
    OBVIOUS
  <2>1. PICK n \in Messages : f = Message(n) /\ To(n) \in Below(p) /\ msg'[n] \notin {"none", "held"}
    OBVIOUS
  <2>2. f[1] = "msg" /\ f[2] = n
    BY <2>1, FrameParts
  <2>3. To(n)' = To(n)
    BY <1>1 DEF To
  <2> QED BY <2>1, <2>2, <2>3 DEF FwdOk
<1>4. TypeOK'
  <2>1. \A z \in Agents : link'[z] \in {"none", "gone"} => up'[z] = <<>>
    BY <1>1
  <2>2. \A p \in Processes : fwd'[p] \subseteq
        ({Admit(y) : y \in Below(p)} \cup {Message(m) : m \in {n \in Messages : To(n)' \in Below(p)}})
    BY <1>3, FwdTypes
  <2> QED BY <1>1, <1>2, <2>1, <2>2 DEF TypeOK, Pipes, Mails
<1>5. Kin'
  BY <1>1, <1>2, KinKept
<1>6. /\ \A x \in Agents : Due(x)' => Due(x)
      /\ Active' \subseteq Active
  BY <1>1 DEF Due, Active
<1> QED BY <1>1, <1>3, <1>4, <1>5, <1>6, StepKeeps

(* An answer is read by the one who asked, or goes on.                      *)
LEMMA AnswerStep ==
    ASSUME IInv, UNCHANGED <<process, job, limit, rec, env, got>>,
           NEW m \in Messages, NEW ok \in BOOLEAN, Has(Ack(m, ok)),
           up' \in Pipes, down' \in Pipes,
           \A z \in Agents : link[z] \in {"none", "gone"} => up'[z] = <<>>,
           \A z \in Agents : \A f \in ToSet(up'[z]) : f \in ToSet(up[z]) \/ f = Ack(m, ok),
           \A z \in Agents : \A f \in ToSet(down'[z]) : f \in ToSet(down[z]),
           \A f : f # Ack(m, ok) => Fewer(up', up, f) /\ Fewer(down', down, f),
           fwd' \in [Processes -> SUBSET Frame],
           \A p \in Processes : \A f \in fwd'[p] : f \in fwd[p],
           \/ msg' = msg
           \/ msg[m] = "sent" /\ msg' = [msg EXCEPT ![m] = Told(m, ok)]
    PROVE  IInv'
<1>1. TypeOK /\ Kin /\ msg \in [Messages -> Mails] /\ got \in [Messages -> Nat]
      /\ \A n \in Messages : Receipt(n)
  BY InvParts DEF TypeOK, Mails, IInv
<1>2. /\ msg' \in [Messages -> Mails] /\ got' \in [Messages -> Nat]
      /\ \A n \in Messages : n # m => msg'[n] = msg[n]
      /\ msg'[m] = msg[m] \/ (msg[m] = "sent" /\ msg'[m] = Told(m, ok))
      /\ Told(m, ok) = IF ok THEN "queued" ELSE "refused"
  BY <1>1 DEF Told, Mails
<1>3. Onward
  BY <1>2, MailOnward
<1>4. Ack(m, ok)[1] = "ack" /\ Ack(m, ok)[2] = m /\ Ack(m, ok)[3] = ok
  BY FrameParts
<1>5. \A z \in Agents : \A f \in ToSet(up'[z]) : f \in ToSet(up[z]) \/ UpOk(z, f)'
  BY <1>4 DEF UpOk
<1>6. ASSUME NEW n \in Messages, n # m PROVE Receipt(n)'
  <2>1. /\ Message(n)[1] = "msg" /\ Ack(n, TRUE)[2] = n /\ Ack(n, FALSE)[2] = n
    BY FrameParts, MoreParts
  <2>2. \A f \in {Message(n), Ack(n, TRUE), Ack(n, FALSE)} :
              Fewer(up', up, f) /\ Fewer(down', down, f)
    BY <1>4, <1>6, <2>1
  <2>3. Receipt(n) /\ msg'[n] = msg[n] /\ env'[n] = env[n] /\ got'[n] = got[n]
    BY <1>1, <1>2, <1>6
  <2> QED BY <1>1, <1>3, <2>2, <2>3, OtherReceipt
<1>7. Receipt(m)'
  <2>1. Receipt(m) /\ env'[m] = env[m] /\ got'[m] = got[m]
    BY <1>1
  <2>2. One(Message(m))' /\ (Has(Message(m))' => Has(Message(m)))
    <3> DEFINE f == Message(m)
    <3>1. One(f) /\ f[1] = "msg"
      BY <2>1, FrameParts DEF Receipt
    <3> HIDE DEF f
    <3>2. Fewer(up', up, f) /\ Fewer(down', down, f)
      BY <1>4, <3>1
    <3>3. One(f)' /\ (Has(f)' => Has(f))
      BY <3>1, <3>2, OneStays, HasStays
    <3> QED BY <3>3 DEF f
  <2>3. /\ Has(Ack(m, TRUE))' => Has(Ack(m, TRUE))
        /\ Has(Ack(m, FALSE))' => Has(Ack(m, FALSE))
    <3>1. ASSUME NEW f, Has(f)', f[1] = "ack" PROVE Has(f)
      <4>1. CASE f = Ack(m, ok)
        BY <4>1
      <4>2. CASE f # Ack(m, ok)
        BY <3>1, <4>2, HasStays
      <4> QED BY <4>1, <4>2
    <3>2. Ack(m, TRUE)[1] = "ack" /\ Ack(m, FALSE)[1] = "ack"
      BY MoreParts
    <3> DEFINE g == Ack(m, TRUE)
               h == Ack(m, FALSE)
    <3>3. g[1] = "ack" /\ h[1] = "ack"
      BY <3>2
    <3> HIDE DEF g, h
    <3>4. (Has(g)' => Has(g)) /\ (Has(h)' => Has(h))
      BY <3>1, <3>3
    <3> QED BY <3>4 DEF g, h
  <2>4. /\ ok => Has(Ack(m, TRUE))
        /\ ~ok => Has(Ack(m, FALSE))
    <3>1. CASE ok = TRUE
      BY <3>1
    <3>2. CASE ok = FALSE
      BY <3>2
    <3> QED BY <3>1, <3>2
  <2>5. Has(Ack(m, TRUE)) => got[m] = 1
    BY <2>1, Zenon DEF Receipt
  <2>6. msg'[m] = "queued" => msg[m] = "queued" \/ got[m] = 1
    BY <1>2, <2>4, <2>5
  <2>7. msg'[m] = "refused" => msg[m] = "refused" \/ Has(Ack(m, FALSE))
    BY <1>2, <2>4
  <2>8. /\ msg'[m] \in {"none", "held"} => msg[m] = msg'[m]
        /\ msg[m] = "none" => msg'[m] = "none"
    BY <1>2
  <2> HIDE DEF Receipt
  <2> QED BY <1>1, <1>3, <2>1, <2>2, <2>3, <2>6, <2>7, <2>8, ReceiptKept
<1> QED BY <1>2, <1>3, <1>5, <1>6, <1>7, MailStep

(* A message is queued for the model of its target, or is not.              *)
LEMMA DeliverStep ==
    ASSUME IInv, UNCHANGED <<process, job, limit, rec, fwd, env, msg>>,
           NEW m \in Messages, NEW ok \in BOOLEAN, Has(Message(m)),
           up' \in Pipes, down' \in Pipes,
           \A z \in Agents : Message(m) \notin ToSet(up'[z]) /\ Message(m) \notin ToSet(down'[z]),
           \A z \in Agents : link[z] \in {"none", "gone"} => up'[z] = <<>>,
           \A z \in Agents : \A f \in ToSet(up'[z]) : f \in ToSet(up[z]) \/ f = Ack(m, ok),
           \A z \in Agents : \A f \in ToSet(down'[z]) : f \in ToSet(down[z]) \/ f = Ack(m, ok),
           \A f : f # Ack(m, ok) => Fewer(up', up, f) /\ Fewer(down', down, f),
           got' = IF ok THEN [got EXCEPT ![m] = @ + 1] ELSE got
    PROVE  IInv'
<1>1. TypeOK /\ Kin /\ msg \in [Messages -> Mails] /\ got \in [Messages -> Nat]
      /\ fwd \in [Processes -> SUBSET Frame]
      /\ \A n \in Messages : Receipt(n)
  BY InvParts DEF TypeOK, Mails, IInv
<1>2. /\ got' \in [Messages -> Nat]
      /\ \A n \in Messages : n # m => got'[n] = got[n]
      /\ got'[m] = IF ok THEN got[m] + 1 ELSE got[m]
  BY <1>1
<1>3. Onward
  BY MailOnward
<1>4. Ack(m, ok)[1] = "ack" /\ Ack(m, ok)[2] = m /\ Ack(m, ok)[3] = ok
  BY FrameParts
<1>5. /\ \A z \in Agents : \A f \in ToSet(up'[z]) : f \in ToSet(up[z]) \/ UpOk(z, f)'
      /\ \A z \in Agents : \A f \in ToSet(down'[z]) : f \in ToSet(down[z]) \/ DownOk(z, f)'
  BY <1>4 DEF UpOk, DownOk
<1>6. ASSUME NEW n \in Messages, n # m PROVE Receipt(n)'
  <2>1. /\ Message(n)[1] = "msg" /\ Ack(n, TRUE)[2] = n /\ Ack(n, FALSE)[2] = n
    BY FrameParts, MoreParts
  <2>2. \A f \in {Message(n), Ack(n, TRUE), Ack(n, FALSE)} :
              Fewer(up', up, f) /\ Fewer(down', down, f)
    BY <1>4, <1>6, <2>1
  <2>3. Receipt(n) /\ msg'[n] = msg[n] /\ env'[n] = env[n] /\ got'[n] = got[n]
    BY <1>1, <1>2, <1>6
  <2> QED BY <1>1, <1>3, <2>2, <2>3, OtherReceipt
<1>7. Receipt(m)'
  <2>1. Receipt(m) /\ env'[m] = env[m] /\ msg'[m] = msg[m] /\ got[m] \in Nat
    BY <1>1
  <2>2. One(Message(m))' /\ ~Has(Message(m))'
    <3> DEFINE f == Message(m)
    <3>1. \A z \in Agents : f \notin ToSet(up'[z]) /\ f \notin ToSet(down'[z])
      OBVIOUS
    <3> HIDE DEF f
    <3>2. One(f)' /\ ~Has(f)'
      BY <3>1, OneNowhere
    <3> QED BY <3>2 DEF f
  <2>3. got[m] = 0 /\ msg[m] \notin {"none", "held"}
    <3>1. Has(Message(m)) => got[m] = 0
      BY <2>1, Zenon DEF Receipt
    <3> HIDE DEF Receipt
    <3> QED BY <2>1, <3>1, MessageOut
  <2>4. ASSUME NEW f, f # Ack(m, ok), Has(f)' PROVE Has(f)
    BY <2>4, HasStays
  <2>5. /\ Has(Ack(m, TRUE))' => Has(Ack(m, TRUE)) \/ (got'[m] = 1 /\ Has(Message(m)))
        /\ Has(Ack(m, FALSE))' =>
              \/ Has(Ack(m, FALSE))
              \/ /\ Has(Message(m)) \/ msg[m] \notin {"none", "held"}
                 /\ Has(Message(m))' \/ got'[m] = 1 => Severed(m)'
    <3> DEFINE g == Ack(m, TRUE)
               h == Ack(m, FALSE)
    <3>1. g[3] = TRUE /\ h[3] = FALSE
      BY MoreParts
    <3> HIDE DEF g, h
    <3>2. CASE ok = TRUE
      <4>0. h # Ack(m, ok)
        BY <1>4, <3>1, <3>2
      <4>a. got'[m] = got[m] + 1
        BY <1>2, <3>2
      <4>1. h # Ack(m, ok) /\ got'[m] = 1
        BY <2>3, <4>0, <4>a
      <4>2. Has(h)' => Has(h)
        BY <2>4, <4>1
      <4> QED BY <4>1, <4>2 DEF h
    <3>3. CASE ok = FALSE
      <4>1. g # Ack(m, ok) /\ got'[m] = 0
        BY <1>2, <1>4, <2>3, <3>1, <3>3
      <4>2. Has(g)' => Has(g)
        BY <2>4, <4>1
      <4>3. ~(Has(Message(m))' \/ got'[m] = 1)
        BY <2>2, <4>1
      <4>4. msg[m] \notin {"none", "held"}
        BY <2>3
      <4>5. Has(Ack(m, TRUE))' => Has(Ack(m, TRUE))
        BY <4>2 DEF g
      <4> HIDE DEF Severed
      <4> QED BY <4>3, <4>4, <4>5, Zenon
    <3> QED BY <3>2, <3>3
  <2>6. /\ got'[m] = got[m] \/ (got'[m] = got[m] + 1 /\ Has(Message(m)) /\ ~Has(Message(m))')
        /\ Has(Message(m))' => Has(Message(m)) \/ (msg[m] = "held" /\ msg'[m] = "sent")
        /\ msg'[m] \in {"none", "held"} => msg[m] = msg'[m]
        /\ msg[m] = "none" => msg'[m] = "none"
        /\ msg'[m] = "queued" => msg[m] = "queued" \/ got[m] = 1
        /\ msg'[m] = "refused" => msg[m] = "refused"
    BY <1>2, <2>1, <2>2
  <2> HIDE DEF Receipt
  <2> QED BY <1>1, <1>3, <2>1, <2>2, <2>5, <2>6, ReceiptKept
<1>8. fwd' = fwd /\ msg' = msg
  OBVIOUS
<1>9. UNCHANGED <<process, job, limit, rec, env>>
  OBVIOUS
<1> QED BY <1>1, <1>2, <1>3, <1>5, <1>6, <1>7, <1>8, <1>9, MailStep

(* An answer from below, for this process or for the one above. *)
LEMMA ServeAckKeeps ==
    ASSUME IInv, NEW x \in Agents, ServeAck(x)
    PROVE  IInv'
<1> DEFINE p == Parent[x]
           h == Head(up[x])
           t == <<h>>
           q == Popped(up, x)
<1>0. FromChild(x, "ack")
  BY DEF ServeAck
<1>2. up \in Pipes /\ down \in Pipes /\ TypeOK /\ fwd \in [Processes -> SUBSET Frame]
  BY InvParts
<1>3. /\ up[x] # <<>> /\ h \in Frame /\ h[1] = "ack" /\ h \in ToSet(up[x])
      /\ p \in Processes /\ Serves(p)
  BY <1>0, FromParts
<1>4. h[2] \in Messages /\ h[3] \in BOOLEAN /\ h = Ack(h[2], h[3])
  BY <1>3, FrameKinds
<1>5. PICK m \in Messages, ok \in BOOLEAN : m = h[2] /\ ok = h[3] /\ h = Ack(m, ok)
  BY <1>4
<1>1. /\ \/ msg' = msg
         \/ msg[m] = "sent" /\ msg' = [msg EXCEPT ![m] = Told(m, ok)]
      /\ fwd' = [fwd EXCEPT ![p] = @ \ {Message(m)}]
      /\ up' = Upward(q, p, t) \/ up' = q
      /\ UNCHANGED <<down, limit, rec, env, got, process, job>>
  BY <1>5 DEF ServeAck
<1>6. p # Root => Forked(p)
  BY <1>3 DEF Serves, Running, Forked
<1>7. t \in Seq(Frame) /\ ToSet(t) = {h}
  <2> HIDE DEF h
  <2> QED BY <1>3, OneFrame
<1>8. /\ q \in Pipes /\ \A f : Fewer(q, up, f)
      /\ \A z \in Agents : ToSet(q[z]) \subseteq ToSet(up[z])
      /\ \A z \in Agents : link[z] \in {"none", "gone"} => q[z] = <<>>
  BY <1>2, <1>3, PopIs, PopClosed
<1>a. h \in ToSet(up[x]) /\ h = Ack(m, ok) /\ p \in Processes
  BY <1>3, <1>5
<1> HIDE DEF q, t, h, p
<1>9. Has(Ack(m, ok))
  BY <1>a DEF Has
<1>10. /\ up' \in Pipes
       /\ \A z \in Agents : \A f \in ToSet(up'[z]) : f \in ToSet(up[z]) \/ f = h
       /\ \A f : f # h => Fewer(up', up, f)
       /\ \A z \in Agents : link[z] \in {"none", "gone"} => up'[z] = <<>>
  <2>1. CASE up' = q
    BY <1>8, <2>1
  <2>2. CASE up' = Upward(q, p, t)
    <3>1. /\ up' \in Pipes
          /\ \A z \in Agents : ToSet(up'[z]) \subseteq ToSet(q[z]) \cup (IF z = p THEN ToSet(t) ELSE {})
          /\ \A f : f \notin ToSet(t) => Fewer(up', q, f)
      BY <1>a, <1>7, <1>8, <2>2, UpwardIs
    <3>2. \A z \in Agents : link[z] \in {"none", "gone"} => up'[z] = <<>>
      BY <1>a, <1>6, <1>7, <1>8, <2>2, UpwardClosed
    <3>3. \A f : f # h => Fewer(up', up, f)
      BY <1>7, <1>8, <3>1, FewerOver
    <3> QED BY <1>7, <1>8, <3>1, <3>2, <3>3
  <2> QED BY <1>1, <2>1, <2>2
<1>11. down' = down /\ \A f : Fewer(down', down, f)
  BY <1>1, FewerSame
<1>12. /\ fwd' \in [Processes -> SUBSET Frame]
       /\ \A r \in Processes : \A f \in fwd'[r] : f \in fwd[r]
  BY <1>1, <1>2
<1>13. UNCHANGED <<process, job, limit, rec, env, got>>
  BY <1>1
<1>14. /\ up' \in Pipes
       /\ \A z \in Agents : \A f \in ToSet(up'[z]) : f \in ToSet(up[z]) \/ f = Ack(m, ok)
       /\ \A f : f # Ack(m, ok) => Fewer(up', up, f)
  BY <1>a, <1>10
<1> QED BY <1>1, <1>2, <1>9, <1>10, <1>11, <1>12, <1>13, <1>14, AnswerStep

(* An answer from above, to a message to the parent. *)
LEMMA ServeParentAckKeeps ==
    ASSUME IInv, NEW x \in Agents, ServeParentAck(x)
    PROVE  IInv'
<1> DEFINE h == Head(down[x])
<1>0. FromParent(x, "ack")
  BY DEF ServeParentAck
<1>2. up \in Pipes /\ down \in Pipes /\ TypeOK /\ fwd \in [Processes -> SUBSET Frame]
      /\ \A z \in Agents : link[z] \in {"none", "gone"} => up[z] = <<>>
  BY InvParts
<1>3. down[x] # <<>> /\ h \in Frame /\ h[1] = "ack" /\ h \in ToSet(down[x])
  BY <1>0, FromParts
<1>4. h[2] \in Messages /\ h[3] \in BOOLEAN /\ h = Ack(h[2], h[3])
  BY <1>3, FrameKinds
<1>5. PICK m \in Messages, ok \in BOOLEAN : m = h[2] /\ ok = h[3] /\ h = Ack(m, ok)
  BY <1>4
<1>1. /\ \/ msg' = msg
         \/ msg[m] = "sent" /\ msg' = [msg EXCEPT ![m] = Told(m, ok)]
      /\ down' = Popped(down, x)
      /\ UNCHANGED <<up, env, got, process, job, registry>>
  BY <1>5 DEF ServeParentAck
<1>9. Has(Ack(m, ok))
  BY <1>3, <1>5 DEF Has
<1>10. /\ down' \in Pipes
       /\ \A z \in Agents : \A f \in ToSet(down'[z]) : f \in ToSet(down[z])
       /\ \A f : Fewer(down', down, f)
  BY <1>1, <1>2, <1>3, PopIs
<1>11. up' = up /\ \A f : Fewer(up', up, f)
  BY <1>1, FewerSame
<1>12. fwd' = fwd /\ UNCHANGED <<process, job, limit, rec, env, got>>
  BY <1>1 DEF registry
<1> HIDE DEF h
<1> QED BY <1>1, <1>2, <1>9, <1>10, <1>11, <1>12, AnswerStep

(* A message from a child is queued for the model or not, and answered so. *)
LEMMA ServeChildMessageKeeps ==
    ASSUME IInv, NEW x \in Agents, ServeChildMessage(x)
    PROVE  IInv'
<1> DEFINE p == Parent[x]
           h == Head(up[x])
           q == Popped(up, x)
<1>0. FromChild(x, "msg")
  BY DEF ServeChildMessage
<1>2. up \in Pipes /\ down \in Pipes /\ TypeOK /\ \A n \in Messages : Receipt(n)
  BY InvParts DEF IInv
<1>3. up[x] # <<>> /\ h \in Frame /\ h[1] = "msg" /\ h \in ToSet(up[x])
  BY <1>0, FromParts
<1>4. h[2] \in Messages /\ h = Message(h[2])
  BY <1>3, FrameKinds
<1>5. PICK m \in Messages : m = h[2] /\ h = Message(m)
  BY <1>4
<1> DEFINE sender == rec[p][x] = "active" /\ \A y \in Below(x) : rec[p][y] # "active"
           good == sender /\ ~(env[m].ask /\ x \in fg /\ ~JobDone(x))
<1>c. good \in BOOLEAN
  OBVIOUS
<1> HIDE DEF good
<1>b. PICK ok \in BOOLEAN : ok = good
  BY <1>c, Zenon
<1> DEFINE g == Ack(m, ok)
           t == <<g>>
<1>1. /\ got' = IF ok THEN [got EXCEPT ![m] = @ + 1] ELSE got
      /\ up' = q /\ down' = Downward(down, x, t)
      /\ UNCHANGED <<env, msg, process, job, registry>>
  BY <1>5, <1>b DEF ServeChildMessage, good
<1>6. g \in Frame /\ g[1] = "ack"
  BY FrameMade, FrameParts
<1>g. g = Ack(m, ok)
  OBVIOUS
<1> HIDE DEF g
<1>7. t \in Seq(Frame) /\ ToSet(t) = {g}
  BY <1>6, OneFrame
<1>8. /\ q \in Pipes /\ \A f : Fewer(q, up, f)
      /\ \A z \in Agents : ToSet(q[z]) \subseteq ToSet(up[z])
      /\ \A z \in Agents : link[z] \in {"none", "gone"} => q[z] = <<>>
  BY <1>2, <1>3, PopIs, PopClosed
<1>9. \A z \in Agents : h \notin ToSet(q[z]) /\ h \notin ToSet(down[z])
  <2>1. One(Message(m))
    BY <1>2, Zenon DEF Receipt
  <2>2. One(h) /\ up[x] # <<>> /\ Head(up[x]) = h
    BY <1>3, <1>5, <2>1
  <2> HIDE DEF h
  <2> QED BY <1>2, <2>2, TakenUp
<1>a. Has(Message(m))
  BY <1>3, <1>5 DEF Has
<1>d. h # g
  BY <1>3, <1>6
<1> HIDE DEF q, t, h, p
<1>10. /\ down' \in Pipes
       /\ \A z \in Agents : \A f \in ToSet(down'[z]) : f \in ToSet(down[z]) \/ f = g
       /\ \A f : f # g => Fewer(down', down, f)
  BY <1>1, <1>2, <1>7, DownwardIs
<1>11. \A z \in Agents : Message(m) \notin ToSet(up'[z]) /\ Message(m) \notin ToSet(down'[z])
  BY <1>1, <1>5, <1>9, <1>10, <1>d
<1>12. UNCHANGED <<process, job, limit, rec, fwd, env, msg>>
  BY <1>1 DEF registry
<1>13. /\ \A z \in Agents : \A f \in ToSet(up'[z]) : f \in ToSet(up[z]) \/ f = Ack(m, ok)
       /\ \A z \in Agents : \A f \in ToSet(down'[z]) : f \in ToSet(down[z]) \/ f = Ack(m, ok)
       /\ \A f : f # Ack(m, ok) => Fewer(up', up, f) /\ Fewer(down', down, f)
       /\ up' \in Pipes
       /\ \A z \in Agents : link[z] \in {"none", "gone"} => up'[z] = <<>>
  BY <1>1, <1>g, <1>8, <1>10
<1> QED BY <1>1, <1>a, <1>10, <1>11, <1>12, <1>13, DeliverStep

(* A receipt that is cancelled says nothing of its message. *)
LEMMA CancelMessageKeeps ==
    ASSUME IInv, NEW m \in Messages, CancelMessage(m)
    PROVE  IInv'
<1>1. /\ msg[m] \in {"held", "sent"} /\ msg' = [msg EXCEPT ![m] = "cancelled"]
      /\ UNCHANGED <<env, got, process, job, pipes, registry>>
  BY DEF CancelMessage
<1>2. /\ up \in Pipes /\ down \in Pipes /\ TypeOK /\ fwd \in [Processes -> SUBSET Frame] /\ Kin
      /\ \A z \in Agents : link[z] \in {"none", "gone"} => up[z] = <<>>
      /\ \A n \in Messages : Receipt(n)
      /\ msg \in [Messages -> Mails] /\ got \in [Messages -> Nat]
  BY InvParts DEF IInv, TypeOK, Mails
<1>3. /\ msg' \in [Messages -> Mails]
      /\ \A n \in Messages : n # m => msg'[n] = msg[n]
      /\ msg'[m] = "cancelled" /\ msg[m] # "none"
  BY <1>1, <1>2 DEF Mails
<1>4. up' = up /\ down' = down /\ fwd' = fwd /\ env' = env /\ got' = got
      /\ UNCHANGED <<process, job, limit, rec, env>>
  BY <1>1 DEF pipes, registry
<1>5. Onward
  BY <1>1, <1>3, <1>4, MailOnward
<1>6. Quiet
  BY <1>4, FewerSame DEF Quiet
<1>7. \A n \in Messages : Receipt(n)'
  BY <1>2, <1>3, <1>4, <1>5, <1>6, QuietReceipts
<1> QED BY <1>2, <1>3, <1>4, <1>5, <1>7, MailStep

(* A message from the parent is queued, refused, or passed on down. *)
LEMMA ServeMessageKeeps ==
    ASSUME IInv, NEW x \in Agents, ServeMessage(x)
    PROVE  IInv'
<1> DEFINE h == Head(down[x])
           q == Popped(down, x)
<1>0. FromParent(x, "msg")
  BY DEF ServeMessage
<1>2. /\ up \in Pipes /\ down \in Pipes /\ TypeOK /\ fwd \in [Processes -> SUBSET Frame] /\ Kin
      /\ \A z \in Agents : link[z] \in {"none", "gone"} => up[z] = <<>>
      /\ \A n \in Messages : Receipt(n)
      /\ msg \in [Messages -> Mails] /\ got \in [Messages -> Nat]
  BY InvParts DEF IInv, TypeOK, Mails
<1>3. /\ down[x] # <<>> /\ h \in Frame /\ h[1] = "msg" /\ h \in ToSet(down[x])
      /\ DownOk(x, h) /\ Forked(x) /\ x \in Processes
  BY <1>0, FromParts, TreeTypes
<1>4. h[2] \in Messages /\ h = Message(h[2]) /\ x \in Line[To(h[2])]
  BY <1>3, FrameKinds DEF DownOk
<1>5. PICK m \in Messages : m = h[2] /\ h = Message(m) /\ x \in Line[To(m)]
  BY <1>4
<1>6. PICK y \in Agents : y = To(m)
  <2>1. To(m) \in Processes /\ To(m) # Root
    BY <1>2, <1>5, LineHas DEF TypeOK, To
  <2> QED BY <2>1, TreeTypes
<1>8. /\ q \in Pipes /\ \A f : Fewer(q, down, f)
      /\ \A z \in Agents : ToSet(q[z]) \subseteq ToSet(down[z])
  BY <1>2, <1>3, PopIs
<1>9. \A z \in Agents : h \notin ToSet(q[z]) /\ h \notin ToSet(up[z])
  <2>1. One(Message(m))
    BY <1>2, Zenon DEF Receipt
  <2>2. One(h) /\ down[x] # <<>> /\ Head(down[x]) = h
    BY <1>3, <1>5, <2>1
  <2> HIDE DEF h
  <2> QED BY <1>2, <2>2, TakenDown
<1>10. Has(Message(m))
  BY <1>3, <1>5 DEF Has
<1>11. Receipt(m) /\ got[m] = 0 /\ msg[m] \notin {"none", "held"}
  <2>1. Has(Message(m)) => got[m] = 0
    BY <1>2, Zenon DEF Receipt
  <2> HIDE DEF Receipt
  <2> QED BY <1>2, <1>10, <2>1, MessageOut
<1>12. UNCHANGED <<process, job, limit, rec, env, msg>>
  BY DEF ServeMessage
<1>13. CASE ~(y # x /\ rec[x][y] = "active")
  <2> DEFINE mine == y = x /\ Entered(x)
  <2>1. mine \in BOOLEAN
    OBVIOUS
  <2> HIDE DEF mine
  <2>2. PICK ok \in BOOLEAN : ok = mine
    BY <2>1, Zenon
  <2> DEFINE g == Ack(m, ok)
             t == <<g>>
  <2>3. /\ got' = IF ok THEN [got EXCEPT ![m] = @ + 1] ELSE got
        /\ fwd' = fwd /\ down' = q /\ up' = Upward(up, x, t)
    BY <1>5, <1>6, <1>13, <2>2 DEF ServeMessage, mine
  <2>4. g \in Frame /\ g[1] = "ack"
    BY FrameMade, FrameParts
  <2>g. g = Ack(m, ok)
    OBVIOUS
  <2> HIDE DEF g
  <2>5. t \in Seq(Frame) /\ ToSet(t) = {g} /\ h # g
    BY <1>3, <2>4, OneFrame
  <2> HIDE DEF q, t, h
  <2>6. /\ up' \in Pipes
        /\ \A z \in Agents : \A f \in ToSet(up'[z]) : f \in ToSet(up[z]) \/ f = g
        /\ \A f : f # g => Fewer(up', up, f)
        /\ \A z \in Agents : link[z] \in {"none", "gone"} => up'[z] = <<>>
    <3>1. /\ up' \in Pipes
          /\ \A z \in Agents : ToSet(up'[z]) \subseteq ToSet(up[z]) \cup (IF z = x THEN ToSet(t) ELSE {})
          /\ \A f : f \notin ToSet(t) => Fewer(up', up, f)
      BY <1>2, <1>3, <2>3, <2>5, UpwardIs
    <3>2. \A z \in Agents : link[z] \in {"none", "gone"} => up'[z] = <<>>
      BY <1>3, <2>3, <2>5, UpwardKeepsClosed
    <3> QED BY <2>5, <3>1, <3>2
  <2>7. \A z \in Agents : Message(m) \notin ToSet(up'[z]) /\ Message(m) \notin ToSet(down'[z])
    BY <1>5, <1>9, <2>3, <2>5, <2>6
  <2>8. UNCHANGED <<process, job, limit, rec, fwd, env, msg>>
    BY <1>12, <2>3
  <2>9. /\ \A z \in Agents : \A f \in ToSet(up'[z]) : f \in ToSet(up[z]) \/ f = Ack(m, ok)
        /\ \A z \in Agents : \A f \in ToSet(down'[z]) : f \in ToSet(down[z]) \/ f = Ack(m, ok)
        /\ \A f : f # Ack(m, ok) => Fewer(up', up, f) /\ Fewer(down', down, f)
        /\ down' \in Pipes
    BY <1>8, <2>g, <2>3, <2>6
  <2> QED BY <1>10, <2>3, <2>6, <2>7, <2>8, <2>9, DeliverStep
<1>14. CASE y # x /\ rec[x][y] = "active"
  <2>k. PICK k \in Frame : k = h
    BY <1>3
  <2> DEFINE v == Via(x, y)
             t == <<k>>
  <2>1. /\ got' = got /\ fwd' = [fwd EXCEPT ![x] = @ \cup {k}]
        /\ down' = Downward(q, v, t) /\ up' = up
    BY <1>5, <2>k, <1>6, <1>14 DEF ServeMessage
  <2>2. y \in Below(x) /\ v \in Line[y] /\ v \in Agents
    <3>1. y \in Below(x)
      BY <1>5, <2>k, <1>6, <1>14, BelowIs
    <3> QED BY <1>3, <2>k, <3>1, ViaIs
  <2>3. t \in Seq(Frame) /\ ToSet(t) = {k} /\ \A f : Single(t, f)
    BY OneFrame
  <2>4. DownOk(v, k)'
    <3>1. To(m)' = y
      BY <1>6, <1>12 DEF To
    <3> QED BY <1>3, <1>5, <2>k, <2>2, <3>1 DEF DownOk
  <2> HIDE DEF v, t, q, h
  <2>5. /\ down' \in Pipes
        /\ \A z \in Agents : ToSet(down'[z]) \subseteq ToSet(q[z]) \cup (IF z = v THEN {k} ELSE {})
        /\ \A f : f # k => Fewer(down', q, f)
        /\ Single(q[v], k) => Single(down'[v], k)
    BY <1>8, <1>9, <2>k, <2>1, <2>2, <2>3, DownwardIs
  <2>6. One(k)'
    <3>1. Single(down'[v], k)
      <4>1. q[v] \in Seq(Frame) /\ k \notin ToSet(q[v])
        BY <1>8, <1>9, <2>k, <2>2 DEF Pipes
      <4> QED BY <2>5, <4>1, NotThereSingle
    <3>2. up' \in Pipes
      BY <1>2, <2>1
    <3>3. \A z \in Agents : (z # v => k \notin ToSet(down'[z])) /\ k \notin ToSet(up'[z])
      BY <1>9, <2>k, <2>1, <2>5
    <3> QED BY <2>5, <3>1, <3>2, <3>3, OneDown
  <2>7. \A f : f # k => Fewer(up', up, f) /\ Fewer(down', down, f)
    <3>1. \A f : f # k => Fewer(down', down, f)
      BY <1>8, <2>5, FewerOver
    <3> QED BY <2>1, <3>1, FewerSame
  <2>8. Onward
    BY <1>12, MailOnward
  <2>9. ASSUME NEW n \in Messages, n # m PROVE Receipt(n)'
    <3>1. /\ Message(n)[2] = n /\ Ack(n, TRUE)[1] = "ack" /\ Ack(n, FALSE)[1] = "ack" /\ k[2] = m
      BY <1>5, <2>k, FrameParts, MoreParts
    <3>2. \A f \in {Message(n), Ack(n, TRUE), Ack(n, FALSE)} :
                Fewer(up', up, f) /\ Fewer(down', down, f)
      BY <1>3, <2>k, <2>7, <2>9, <3>1
    <3>3. Receipt(n) /\ msg'[n] = msg[n] /\ env'[n] = env[n] /\ got'[n] = got[n]
      BY <1>2, <1>12, <2>1
    <3> QED BY <1>2, <2>8, <3>2, <3>3, OtherReceipt
  <2>10. Receipt(m)'
    <3>1. env'[m] = env[m] /\ msg'[m] = msg[m] /\ got'[m] = got[m]
      BY <1>12, <2>1
    <3>2. One(Message(m))'
      BY <1>5, <2>k, <2>6
    <3>3. /\ Has(Ack(m, TRUE))' => Has(Ack(m, TRUE))
          /\ Has(Ack(m, FALSE))' => Has(Ack(m, FALSE))
      <4> DEFINE g == Ack(m, TRUE)
                 e == Ack(m, FALSE)
      <4>1. g[1] = "ack" /\ e[1] = "ack"
        BY MoreParts
      <4> HIDE DEF g, e
      <4>2. Fewer(up', up, g) /\ Fewer(down', down, g) /\ Fewer(up', up, e) /\ Fewer(down', down, e)
        BY <1>3, <2>k, <2>7, <4>1
      <4>3. (Has(g)' => Has(g)) /\ (Has(e)' => Has(e))
        BY <4>2, HasStays
      <4> QED BY <4>3 DEF g, e
    <3>4. /\ msg'[m] = "queued" => msg[m] = "queued" \/ got[m] = 1
          /\ msg'[m] = "refused" => msg[m] = "refused"
      BY <3>1
    <3> HIDE DEF Receipt
    <3> QED BY <1>2, <1>10, <1>11, <2>8, <3>1, <3>2, <3>3, <3>4, ReceiptKept
  <2>11. /\ fwd' \in [Processes -> SUBSET Frame]
         /\ \A p \in Processes : \A f \in fwd'[p] :
              f \in fwd[p] \/ \E n \in Messages : /\ f = Message(n) /\ To(n) \in Below(p)
                                                  /\ msg'[n] \notin {"none", "held"}
    <3>1. fwd' \in [Processes -> SUBSET Frame]
      BY <1>2, <1>3, <2>k, <2>1
    <3>2. \A p \in Processes : fwd'[p] \subseteq fwd[p] \cup (IF p = x THEN {k} ELSE {})
      BY <1>2, <2>1
    <3>3. k = Message(m) /\ To(m) \in Below(x) /\ msg'[m] \notin {"none", "held"}
      BY <1>5, <2>k, <1>6, <1>11, <1>12, <2>2
    <3> QED BY <3>1, <3>2, <3>3
  <2>12. /\ \A z \in Agents : \A f \in ToSet(up'[z]) : f \in ToSet(up[z])
         /\ \A z \in Agents : \A f \in ToSet(down'[z]) : f \in ToSet(down[z]) \/ DownOk(z, f)'
         /\ \A z \in Agents : link[z] \in {"none", "gone"} => up'[z] = <<>>
         /\ up' \in Pipes
    BY <1>2, <1>8, <2>1, <2>4, <2>5
  <2>13. msg' \in [Messages -> Mails] /\ got' \in [Messages -> Nat]
    BY <1>2, <1>12, <2>1
  <2>14. UNCHANGED <<process, job, limit, rec, env>>
    BY <1>12
  <2> QED BY <2>5, <2>8, <2>9, <2>10, <2>11, <2>12, <2>13, <2>14, MailStep
<1> QED BY <1>13, <1>14

(* agent_message and ask_parent: a message is sent or held. *)
LEMMA SendKeeps ==
    ASSUME IInv, NEW m \in Messages, NEW p \in Processes, NEW t \in Processes, NEW ask \in BOOLEAN,
           Send(m, p, t, ask)
    PROVE  IInv'
<1> DEFINE e == [from |-> p, to |-> t, ask |-> ask]
<1>1. /\ msg[m] = "none" /\ Acts(p) /\ env' = [env EXCEPT ![m] = e]
      /\ UNCHANGED <<got, process, job, registry>>
  BY DEF Send
<1>2. /\ up \in Pipes /\ down \in Pipes /\ TypeOK /\ fwd \in [Processes -> SUBSET Frame] /\ Kin
      /\ \A z \in Agents : link[z] \in {"none", "gone"} => up[z] = <<>>
      /\ \A n \in Messages : Receipt(n)
      /\ msg \in [Messages -> Mails] /\ got \in [Messages -> Nat]
      /\ env \in [Messages -> [from : Processes, to : Processes, ask : BOOLEAN]]
  BY InvParts DEF IInv, TypeOK, Mails
<1>3. /\ st' = st /\ term' = term /\ cut' = cut /\ blocked' = blocked
      /\ link' = link /\ out' = out /\ fg' = fg /\ rec' = rec /\ fwd' = fwd /\ limit' = limit
      /\ got' = got
  BY <1>1 DEF process, job, registry
<1>4. p # Root => Forked(p)
  BY <1>1 DEF Acts, Serves, Running, Forked
<1>5. /\ env' \in [Messages -> [from : Processes, to : Processes, ask : BOOLEAN]]
      /\ \A n \in Messages : n # m => env'[n] = env[n]
      /\ From(m)' = p /\ To(m)' = t
  <2>1. e \in [from : Processes, to : Processes, ask : BOOLEAN] /\ e.from = p /\ e.to = t
    OBVIOUS
  <2> HIDE DEF e
  <2> QED BY <1>1, <1>2, <2>1 DEF From, To
<1> HIDE DEF e
<1>6. PICK g \in Frame : g = Message(m)
  BY FrameMade
<1>7. g[1] = "msg" /\ g[2] = m
  BY <1>6, FrameParts
<1>8. Receipt(m) /\ got[m] = 0 /\ ~Has(g) /\ ~Has(Ack(m, TRUE)) /\ ~Has(Ack(m, FALSE))
  BY <1>1, <1>2, <1>6 DEF Receipt
<1>9. \A z \in Agents : g \notin ToSet(up[z]) /\ g \notin ToSet(down[z])
  BY <1>8 DEF Has
<1> DEFINE s == <<g>>
<1>10. s \in Seq(Frame) /\ ToSet(s) = {g} /\ \A f : Single(s, f)
  BY OneFrame
<1> DEFINE v == Via(p, t)
<1>11. \/ /\ p # Root /\ t = Parent[p] /\ up' = Upward(up, p, s)
          /\ msg' = [msg EXCEPT ![m] = "sent"] /\ down' = down
       \/ /\ t \in Below(p) /\ rec[p][t] = "active"
          /\ down' = Downward(down, v, s)
          /\ msg' = [msg EXCEPT ![m] = "sent"] /\ up' = up
       \/ /\ t \in ChildrenOf(p) /\ JobHeld(t)
          /\ msg' = [msg EXCEPT ![m] = "held"] /\ up' = up /\ down' = down
  BY <1>6 DEF Send
<1> HIDE DEF s
<1>12. /\ msg' \in [Messages -> Mails] /\ msg'[m] \in {"sent", "held"}
       /\ \A n \in Messages : n # m => msg'[n] = msg[n]
  BY <1>2, <1>11 DEF Mails
<1>13. /\ up' \in Pipes /\ down' \in Pipes
       /\ \A z \in Agents : \A f \in ToSet(up'[z]) : f \in ToSet(up[z]) \/ f = g
       /\ \A z \in Agents : \A f \in ToSet(down'[z]) :
             f \in ToSet(down[z]) \/ (f = g /\ z \in Line[t])
       /\ \A f : f # g => Fewer(up', up, f) /\ Fewer(down', down, f)
       /\ \A z \in Agents : link[z] \in {"none", "gone"} => up'[z] = <<>>
       /\ One(g)' /\ (msg'[m] = "held" => ~Has(g)')
       /\ t # Root => Forked(t)
  <2>1. CASE /\ p # Root /\ t = Parent[p] /\ up' = Upward(up, p, s)
             /\ msg' = [msg EXCEPT ![m] = "sent"] /\ down' = down
    <3>1. p \in Agents /\ up[p] \in Seq(Frame)
      BY <1>2, <2>1, TreeTypes DEF Pipes
    <3>2. /\ up' \in Pipes
          /\ \A z \in Agents : ToSet(up'[z]) \subseteq ToSet(up[z]) \cup (IF z = p THEN {g} ELSE {})
          /\ \A f : f # g => Fewer(up', up, f)
          /\ Single(up[p], g) => Single(up'[p], g)
      BY <1>2, <1>9, <1>10, <2>1, <3>1, UpwardIs
    <3>3. \A z \in Agents : link[z] \in {"none", "gone"} => up'[z] = <<>>
      BY <1>2, <1>4, <1>10, <2>1, UpwardClosed
    <3>4. Single(up'[p], g)
      BY <1>9, <3>1, <3>2, NotThereSingle
    <3>5. \A z \in Agents : (z # p => g \notin ToSet(up'[z])) /\ g \notin ToSet(down'[z])
      BY <1>9, <2>1, <3>2
    <3>6. down' \in Pipes /\ \A f : Fewer(down', down, f)
      BY <1>2, <2>1, FewerSame
    <3>7. One(g)'
      BY <3>2, <3>4, <3>5, <3>6, OneUp
    <3>8. t # Root => Forked(t)
      BY <1>2, <1>4, <2>1, <3>1 DEF Kin
    <3>9. msg'[m] = "sent"
      BY <1>2, <2>1
    <3> QED BY <1>9, <2>1, <3>2, <3>3, <3>6, <3>7, <3>8, <3>9
  <2>2. CASE /\ t \in Below(p) /\ rec[p][t] = "active"
             /\ down' = Downward(down, v, s)
             /\ msg' = [msg EXCEPT ![m] = "sent"] /\ up' = up
    <3>1. v \in Line[t] /\ v \in Agents /\ t \in Agents
      BY <2>2, ViaIs, BelowIs
    <3> HIDE DEF v
    <3>2. /\ down' \in Pipes
          /\ \A z \in Agents : ToSet(down'[z]) \subseteq ToSet(down[z]) \cup (IF z = v THEN {g} ELSE {})
          /\ \A f : f # g => Fewer(down', down, f)
          /\ Single(down[v], g) => Single(down'[v], g)
      BY <1>2, <1>9, <1>10, <2>2, <3>1, DownwardIs
    <3>3. down[v] \in Seq(Frame)
      BY <1>2, <3>1 DEF Pipes
    <3>4. Single(down'[v], g)
      BY <1>9, <3>1, <3>2, <3>3, NotThereSingle
    <3>5. \A z \in Agents : (z # v => g \notin ToSet(down'[z])) /\ g \notin ToSet(up'[z])
      BY <1>9, <2>2, <3>2
    <3>6. up' \in Pipes /\ \A f : Fewer(up', up, f)
      BY <1>2, <2>2, FewerSame
    <3>7. One(g)'
      BY <3>2, <3>4, <3>5, <3>6, OneDown
    <3>8. Forked(t)
      BY <1>2, <2>2, <3>1 DEF Kin
    <3>9. msg'[m] = "sent"
      BY <1>2, <2>2
    <3> QED BY <1>2, <2>2, <3>1, <3>2, <3>6, <3>7, <3>8, <3>9
  <2>3. CASE /\ t \in ChildrenOf(p) /\ JobHeld(t)
             /\ msg' = [msg EXCEPT ![m] = "held"] /\ up' = up /\ down' = down
    <3>1. Forked(t)
      BY <1>2, <2>3 DEF ChildrenOf, JobHeld, Kin, Forked
    <3>2. \A z \in Agents : g \notin ToSet(down'[z]) /\ g \notin ToSet(up'[z])
      BY <1>9, <2>3
    <3>3. up' \in Pipes /\ down' \in Pipes
      BY <1>2, <2>3
    <3>4. One(g)' /\ ~Has(g)'
      BY <3>2, <3>3, OneNowhere
    <3>5. \A f : Fewer(up', up, f) /\ Fewer(down', down, f)
      BY <2>3, FewerSame
    <3> QED BY <1>2, <2>3, <3>1, <3>3, <3>4, <3>5
  <2> QED BY <1>11, <2>1, <2>2, <2>3
<1> HIDE DEF v
<1>14. Onward
  <2>1. \A y \in Agents :
          /\ Forked(y) => Forked(y)' /\ (Sound(y)' => Sound(y))
          /\ Asked(y) => Asked(y)' /\ (st'[y] = "asking" => st[y] = "asking")
          /\ Began(y) => Began(y)' /\ (Ending(y) => Ending(y)')
    BY <1>3 DEF Forked, Sound, Asked, Began, Ending
  <2>2. \A n \in Messages :
          /\ msg[n] # "none" => env'[n] = env[n] /\ msg'[n] # "none"
          /\ msg[n] \notin {"none", "held"} => msg'[n] \notin {"none", "held"}
    BY <1>1, <1>5, <1>12
  <2> QED BY <1>3, <2>1, <2>2 DEF Onward
<1>15. TypeOK'
  <2>1. \A z \in Agents : link'[z] \in {"none", "gone"} => up'[z] = <<>>
    BY <1>3, <1>13
  <2>2. \A r \in Processes : fwd'[r] \subseteq
        ({Admit(y) : y \in Below(r)} \cup {Message(k) : k \in {n \in Messages : To(n)' \in Below(r)}})
    BY <1>3, <1>14, FwdTypes
  <2> QED BY <1>2, <1>3, <1>5, <1>12, <1>13, <2>1, <2>2 DEF TypeOK, Pipes, Mails
<1>16. Kin'
  BY <1>2, <1>3, <1>14, KinKept
<1>17. /\ \A z \in Agents : \A f \in ToSet(up'[z]) : f \in ToSet(up[z]) \/ UpOk(z, f)'
       /\ \A z \in Agents : \A f \in ToSet(down'[z]) : f \in ToSet(down[z]) \/ DownOk(z, f)'
  <2>1. \A z \in Agents : UpOk(z, g)'
    BY <1>7 DEF UpOk
  <2>2. \A z \in Agents : z \in Line[t] => DownOk(z, g)'
    BY <1>5, <1>7 DEF DownOk
  <2> QED BY <1>13, <2>1, <2>2
<1>18. ASSUME NEW n \in Messages PROVE Receipt(n)'
  <2>1. CASE n # m
    <3>1. /\ Message(n)[2] = n /\ Ack(n, TRUE)[1] = "ack" /\ Ack(n, FALSE)[1] = "ack"
      BY FrameParts, MoreParts
    <3>2. \A f \in {Message(n), Ack(n, TRUE), Ack(n, FALSE)} :
                Fewer(up', up, f) /\ Fewer(down', down, f)
      BY <1>7, <1>13, <2>1, <3>1
    <3>3. Receipt(n) /\ msg'[n] = msg[n] /\ env'[n] = env[n] /\ got'[n] = got[n]
      BY <1>2, <1>3, <1>5, <1>12, <2>1
    <3> QED BY <1>2, <1>14, <3>2, <3>3, OtherReceipt
  <2>2. CASE n = m
    <3>1. got'[m] = 0 /\ One(Message(m))' /\ (msg'[m] = "held" => ~Has(Message(m))')
      BY <1>3, <1>6, <1>8, <1>13
    <3>2. ~Has(Ack(m, TRUE))' /\ ~Has(Ack(m, FALSE))'
      <4> DEFINE a == Ack(m, TRUE)
                 b == Ack(m, FALSE)
      <4>1. a[1] = "ack" /\ b[1] = "ack"
        BY MoreParts
      <4> HIDE DEF a, b
      <4>2. Fewer(up', up, a) /\ Fewer(down', down, a) /\ Fewer(up', up, b) /\ Fewer(down', down, b)
        BY <1>7, <1>13, <4>1
      <4>3. (Has(a)' => Has(a)) /\ (Has(b)' => Has(b))
        BY <4>2, HasStays
      <4> QED BY <1>8, <4>3 DEF a, b
    <3>3. /\ From(m)' # Root => Forked(From(m))'
          /\ To(m)' # Root => Forked(To(m))'
      BY <1>3, <1>4, <1>5, <1>13 DEF Forked
    <3>4. Receipt(m)'
      <4>1. got'[m] <= 1 /\ got'[m] # 1
        BY <3>1
      <4>2. /\ msg'[m] # "queued" /\ msg'[m] # "refused" /\ msg'[m] # "none"
            /\ msg'[m] \in {"none", "held"} => msg'[m] = "held"
        BY <1>12
      <4> QED BY <3>1, <3>2, <3>3, <4>1, <4>2, Zenon DEF Receipt
    <3> QED BY <2>2, <3>4
  <2> QED BY <2>1, <2>2
<1>19. /\ \A y \in Agents : Due(y)' => Due(y)
       /\ Active' \subseteq Active
       /\ \A r \in Processes : \A f \in fwd'[r] : f \in fwd[r]
  BY <1>3 DEF Due, Active
<1> QED BY <1>3, <1>14, <1>15, <1>16, <1>17, <1>18, <1>19, StepKeeps

(* A report of an agent that has ended is dropped. *)
LEMMA ServeEventDrops ==
    ASSUME IInv, NEW x \in Agents, FromChild(x, "event"),
           up' = Popped(up, x), UNCHANGED <<rec, msg, down, limit, fwd, env, got, process, job>>
    PROVE  IInv'
<1>1. up \in Pipes /\ down \in Pipes /\ TypeOK /\ fwd \in [Processes -> SUBSET Frame]
  BY InvParts
<1>2. up[x] # <<>>
  BY FromParts
<1>3. /\ up' \in Pipes /\ \A f : Fewer(up', up, f)
      /\ \A z \in Agents : \A f \in ToSet(up'[z]) : f \in ToSet(up[z])
      /\ \A z \in Agents : link[z] \in {"none", "gone"} => up'[z] = <<>>
  BY <1>1, <1>2, PopIs, PopClosed
<1>4. Quiet
  BY <1>3, FewerSame DEF Quiet
<1>5. UNCHANGED <<process, link, fg, limit, rec, mail>> /\ out' \in [Agents -> BOOLEAN]
  BY <1>1 DEF job, mail, TypeOK
<1> QED BY <1>1, <1>3, <1>4, <1>5, RelayStep

(* A report makes or ends a record; messages that were held are sent, one  *)
(* time each. At the root it ends records and makes none.                  *)
LEMMA ServeEventKeeps ==
    ASSUME IInv, NEW x \in Agents, ServeEvent(x)
    PROVE  IInv'
<1> DEFINE h == Head(up[x])
           q == Popped(up, x)
<1>0. FromChild(x, "event")
  BY DEF ServeEvent
<1>2. /\ up \in Pipes /\ down \in Pipes /\ TypeOK /\ fwd \in [Processes -> SUBSET Frame] /\ Kin
      /\ \A n \in Messages : Receipt(n)
      /\ msg \in [Messages -> Mails]
      /\ rec \in [Processes -> [Agents -> {"none", "active", "ended"}]]
  BY InvParts DEF IInv, TypeOK, Mails
<1>3. /\ up[x] # <<>> /\ h \in Frame /\ h[1] = "event" /\ h \in ToSet(up[x]) /\ UpOk(x, h)
      /\ Parent[x] \in Processes /\ Serves(Parent[x])
  BY <1>0, FromParts
<1>4. /\ h[2] \in Agents /\ h[3] \in BOOLEAN /\ h = Event(h[2], h[3]) /\ x \in Line[h[2]]
      /\ Began(h[2]) /\ (h[3] = FALSE => Ending(h[2]))
  BY <1>3, FrameKinds DEF UpOk
<1>5. PICK p \in Processes, y \in Agents, live \in BOOLEAN :
        p = Parent[x] /\ y = h[2] /\ live = h[3]
  BY <1>3, <1>4
<1>6. /\ x \in Line[y] /\ Began(y) /\ (live = FALSE => Ending(y))
      /\ (p # Root => Forked(p)) /\ (p # Root => p \in Line[y])
  <2>1. p # Root => Forked(p)
    BY <1>3, <1>5 DEF Serves, Running, Forked
  <2>2. x \in Line[y] /\ Began(y) /\ (live = FALSE => Ending(y))
    BY <1>4, <1>5
  <2> HIDE DEF h
  <2> QED BY <1>5, <2>1, <2>2, ParentBelow
<1> DEFINE known == rec[p][y] = "active" \/ (p # Root /\ rec[p][y] = "none")
<1>7. CASE ~known
  <2>1. up' = q /\ UNCHANGED <<rec, msg, down, limit, fwd, env, got, process, job>>
    BY <1>5, <1>7 DEF ServeEvent
  <2> QED BY <1>0, <2>1, ServeEventDrops
<1>8. CASE known
  <2> DEFINE held0 == IF live THEN HeldFor(p, y) ELSE {}
  <2>a. held0 \in SUBSET Messages
    BY DEF HeldFor
  <2> HIDE DEF held0
  <2>b. PICK held \in SUBSET Messages : held = held0
    BY <2>a
  <2>c. \A n \in held : msg[n] = "held" /\ To(n) = y
    <3>1. held0 \subseteq HeldFor(p, y)
      BY DEF held0
    <3> QED BY <2>b, <3>1 DEF HeldFor
  <2> DEFINE g == Event(y, live)
             s == <<g>>
             M == {Message(n) : n \in held}
             t == SetToSeq(M)
             mode == IF live THEN "active" ELSE "ended"
  <2>1. /\ rec' = [rec EXCEPT ![p][y] = mode]
        /\ msg' = [n \in Messages |-> IF n \in held THEN "sent" ELSE msg[n]]
        /\ down' = Downward(down, x, t)
        /\ up' = Upward(q, p, s)
        /\ UNCHANGED <<limit, fwd, env, got, process, job>>
    BY <1>5, <1>8, <2>b DEF ServeEvent, held0
  <2>2. /\ st' = st /\ term' = term /\ cut' = cut /\ blocked' = blocked
        /\ link' = link /\ out' = out /\ fg' = fg /\ fwd' = fwd /\ limit' = limit
        /\ env' = env /\ got' = got
    BY <2>1 DEF process, job
  <2>3. mode \in {"active", "ended"} /\ (mode = "ended" => live = FALSE)
    OBVIOUS
  <2>4. g \in Frame /\ g[1] = "event" /\ g[2] = y /\ g[3] = live
    BY FrameMade, FrameParts
  <2> HIDE DEF g, mode
  <2>5. s \in Seq(Frame) /\ ToSet(s) = {g}
    BY <2>4, OneFrame
  <2>6. /\ t \in Seq(Frame)
        /\ \A f \in ToSet(t) : \E n \in held : f = Message(n)
        /\ \A f : Single(t, f)
    <3>1. M \subseteq Frame /\ IsFiniteSet(M)
      BY ManyFrames
    <3>2. \A f \in M : \E n \in held : f = Message(n)
      OBVIOUS
    <3> HIDE DEF M
    <3> QED BY <3>1, <3>2, FramesOf
  <2>7. /\ q \in Pipes /\ \A f : Fewer(q, up, f)
        /\ \A z \in Agents : ToSet(q[z]) \subseteq ToSet(up[z])
        /\ \A z \in Agents : link[z] \in {"none", "gone"} => q[z] = <<>>
    BY <1>2, <1>3, PopIs, PopClosed
  <2> HIDE DEF q, t, s, h
  <2>8. /\ up' \in Pipes
        /\ \A z \in Agents : \A f \in ToSet(up'[z]) : f \in ToSet(up[z]) \/ (z = p /\ f = g)
        /\ \A f : f # g => Fewer(up', up, f)
        /\ \A z \in Agents : link[z] \in {"none", "gone"} => up'[z] = <<>>
    <3>1. /\ up' \in Pipes
          /\ \A z \in Agents : ToSet(up'[z]) \subseteq ToSet(q[z]) \cup (IF z = p THEN ToSet(s) ELSE {})
          /\ \A f : f \notin ToSet(s) => Fewer(up', q, f)
      BY <2>1, <2>5, <2>7, UpwardIs
    <3>2. \A z \in Agents : link[z] \in {"none", "gone"} => up'[z] = <<>>
      BY <1>6, <2>1, <2>5, <2>7, UpwardClosed
    <3>3. \A f : f # g => Fewer(up', up, f)
      BY <2>5, <2>7, <3>1, FewerOver
    <3> QED BY <2>5, <2>7, <3>1, <3>2, <3>3
  <2>9. /\ down' \in Pipes
        /\ \A z \in Agents : ToSet(down'[z]) \subseteq ToSet(down[z]) \cup (IF z = x THEN ToSet(t) ELSE {})
        /\ \A f : f \notin ToSet(t) => Fewer(down', down, f)
        /\ \A f : f \notin ToSet(down[x]) /\ Single(down[x], f) => Single(down'[x], f)
    BY <1>2, <2>1, <2>6, DownwardIs
  <2>10. /\ msg' \in [Messages -> Mails]
         /\ \A n \in Messages : msg'[n] = IF n \in held THEN "sent" ELSE msg[n]
    BY <1>2, <2>1 DEF Mails
  <2>11. /\ rec' \in [Processes -> [Agents -> {"none", "active", "ended"}]]
         /\ \A r \in Processes, w \in Agents :
               rec'[r][w] = IF r = p /\ w = y THEN mode ELSE rec[r][w]
    BY <1>2, <2>1, <2>3
  <2>12. Onward
    <3>1. \A w \in Agents :
            /\ Forked(w) => Forked(w)' /\ (Sound(w)' => Sound(w))
            /\ Asked(w) => Asked(w)' /\ (st'[w] = "asking" => st[w] = "asking")
            /\ Began(w) => Began(w)' /\ (Ending(w) => Ending(w)')
      BY <2>2 DEF Forked, Sound, Asked, Began, Ending
    <3>2. ASSUME NEW w \in Agents, rec[Root][w] = "active", st'[w] = "asking" \/ Due(w)'
          PROVE  rec'[Root][w] = "active"
      <4>1. CASE w = y
        <5>1. live = TRUE
          BY <1>6, <2>2, <3>2, <4>1 DEF Began, Ending, Due
        <5> QED BY <2>3, <2>11, <3>2, <5>1, TreeTypes
      <4>2. CASE w # y
        BY <2>11, <3>2, <4>2, TreeTypes
      <4> QED BY <4>1, <4>2
    <3>3. \A n \in Messages :
            /\ msg[n] # "none" => env'[n] = env[n] /\ msg'[n] # "none"
            /\ msg[n] \notin {"none", "held"} => msg'[n] \notin {"none", "held"}
      BY <2>c, <2>2, <2>10
    <3> QED BY <3>1, <3>2, <3>3 DEF Onward
  <2>13. TypeOK'
    <3>1. \A z \in Agents : link'[z] \in {"none", "gone"} => up'[z] = <<>>
      BY <2>2, <2>8
    <3>2. \A r \in Processes : fwd'[r] \subseteq
          ({Admit(w) : w \in Below(r)} \cup {Message(k) : k \in {n \in Messages : To(n)' \in Below(r)}})
      BY <2>2, <2>12, FwdTypes
    <3> QED BY <1>2, <2>2, <2>8, <2>9, <2>10, <2>11, <3>1, <3>2 DEF TypeOK, Pipes, Mails
  <2>14. Kin'
    <3>1. Forked(y)
      BY <1>6 DEF Began, Forked
    <3> QED BY <1>2, <2>2, <2>11, <2>12, <3>1, KinKept
  <2>15. /\ \A z \in Agents : \A f \in ToSet(up'[z]) : f \in ToSet(up[z]) \/ UpOk(z, f)'
         /\ \A z \in Agents : \A f \in ToSet(down'[z]) : f \in ToSet(down[z]) \/ DownOk(z, f)'
    <3>1. p \in Agents => UpOk(p, g)'
      <4>1. Began(y)' /\ (live = FALSE => Ending(y)')
        BY <1>6, <2>2 DEF Began, Ending
      <4> QED BY <1>6, <2>4, <4>1, TreeTypes DEF UpOk
    <3>2. ASSUME NEW f \in ToSet(t) PROVE DownOk(x, f)'
      <4>1. PICK n \in held : f = Message(n)
        BY <2>6
      <4>2. f[1] = "msg" /\ f[2] = n /\ To(n)' = y
        BY <2>c, <2>2, <4>1, FrameParts DEF To
      <4> QED BY <1>6, <4>2 DEF DownOk
    <3> QED BY <2>8, <2>9, <3>1, <3>2
  <2>16. ASSUME NEW n \in Messages PROVE Receipt(n)'
    <3>1. PICK f \in Frame, a \in Frame, b \in Frame :
             f = Message(n) /\ a = Ack(n, TRUE) /\ b = Ack(n, FALSE)
      BY FrameMade
    <3>2. f[1] = "msg" /\ f[2] = n /\ a[1] = "ack" /\ b[1] = "ack"
      BY <3>1, FrameParts, MoreParts
    <3>3. \A k \in held : Message(k)[1] = "msg" /\ Message(k)[2] = k
      BY FrameParts
    <3>4. /\ Fewer(up', up, f) /\ Fewer(up', up, a) /\ Fewer(up', up, b)
          /\ Fewer(down', down, a) /\ Fewer(down', down, b)
          /\ n \notin held => Fewer(down', down, f)
      <4>1. f # g /\ a # g /\ b # g
        BY <2>4, <3>2
      <4>2. a \notin ToSet(t) /\ b \notin ToSet(t) /\ (n \notin held => f \notin ToSet(t))
        BY <2>6, <3>2, <3>3
      <4> QED BY <2>8, <2>9, <4>1, <4>2
    <3>5. Receipt(n) /\ env'[n] = env[n] /\ got'[n] = got[n]
      BY <1>2, <2>2
    <3>6. CASE n \notin held
      BY <1>2, <2>10, <2>12, <3>1, <3>4, <3>5, <3>6, OtherReceipt
    <3>7. CASE n \in held
      <4>1. msg[n] = "held" /\ msg'[n] = "sent"
        BY <2>c, <2>10, <3>7
      <4>2. ~Has(f) /\ ~Has(a) /\ ~Has(b)
        BY <3>1, <3>5, <4>1, Zenon DEF Receipt
      <4>3. \A z \in Agents : f \notin ToSet(up[z]) /\ f \notin ToSet(down[z])
        BY <4>2 DEF Has
      <4>4. Single(down'[x], f)
        <5>1. down[x] \in Seq(Frame)
          BY <1>2 DEF Pipes
        <5> QED BY <2>9, <4>3, <5>1, NotThereSingle
      <4>5. \A z \in Agents : (z # x => f \notin ToSet(down'[z])) /\ f \notin ToSet(up'[z])
        BY <2>4, <2>8, <2>9, <3>2, <4>3
      <4>6. One(f)'
        BY <2>8, <2>9, <4>4, <4>5, OneDown
      <4>7. ~Has(a)' /\ ~Has(b)'
        BY <3>4, <4>2, HasStays
      <4> HIDE DEF Receipt
      <4>8. One(Message(n))' /\ ~Has(Ack(n, TRUE))' /\ ~Has(Ack(n, FALSE))'
        BY <3>1, <4>6, <4>7
      <4>9. msg'[n] # "queued" /\ msg'[n] # "refused" /\ msg'[n] \notin {"none", "held"}
        BY <4>1
      <4> QED BY <1>2, <2>12, <3>5, <4>1, <4>8, <4>9, ReceiptKept
    <3> QED BY <3>6, <3>7
  <2>17. /\ \A w \in Agents : Due(w)' => Due(w)
         /\ \A r \in Processes : \A f \in fwd'[r] : f \in fwd[r]
    BY <2>2 DEF Due
  <2>18. Active' \subseteq Active
    BY <1>8, <2>11, TreeTypes DEF Active
  <2> QED BY <2>2, <2>12, <2>13, <2>14, <2>15, <2>16, <2>17, <2>18, StepKeeps
<1> QED BY <1>7, <1>8


(* The link of x goes to state c: the messages R are refused, and so are,   *)
(* to the process above, the forwards F; q is what can still be read.       *)
Severs(x, c, R, F, q) ==
    /\ JobHeld(x) /\ Serves(Parent[x])
    /\ link' = [link EXCEPT ![x] = c] /\ out' \in [Agents -> BOOLEAN]
    /\ msg' = AllRefused(R)
    /\ \A n \in R : x \in Line[To(n)] /\ msg[n] \in {"held", "sent"}
    /\ \A n \in F : x \in Line[To(n)] /\ msg[n] \notin {"none", "held"}
    /\ \A f : Fewer(q, up, f)
    /\ \A z \in Agents : ToSet(q[z]) \subseteq ToSet(up[z])
    /\ \A z \in Agents : link[z] \in {"none", "gone"} => q[z] = <<>>
    /\ c = "gone" => q[x] = <<>>
    /\ up' = Upward(q, Parent[x], Refusals(F))
    /\ down' \in Pipes /\ \A f : Fewer(down', down, f)
    /\ \A z \in Agents : ToSet(down'[z]) \subseteq ToSet(down[z])
    /\ fwd' \in [Processes -> SUBSET Frame] /\ \A r \in Processes : fwd'[r] \subseteq fwd[r]
    /\ rec' \in [Processes -> [Agents -> {"none", "active", "ended"}]]
    /\ \A r \in Processes, w \in Agents :
          /\ rec'[r][w] = "active" => rec[r][w] = "active"
          /\ x \notin Line[w] => rec'[r][w] = rec[r][w]
    /\ term' \in [Processes -> BOOLEAN] /\ blocked' \in [Processes -> Processes]
    /\ \A w \in Agents : (Ending(w) => Ending(w)') /\ (Due(w)' => Due(w))
    /\ UNCHANGED <<st, cut, fg, limit, env, got>>

(* Closing a link keeps IInv: the records that end are those of agents     *)
(* below it, and whoever is told of a refusal is told because of this      *)
(* link.                                                                   *)
LEMMA LinkLost ==
    ASSUME IInv, NEW x \in Agents, NEW c \in {"closed", "gone"}, NEW R \in SUBSET Messages,
           NEW F \in SUBSET Messages, NEW q \in Pipes, Severs(x, c, R, F, q)
    PROVE  IInv'
<1>0. /\ JobHeld(x) /\ Serves(Parent[x])
      /\ link' = [link EXCEPT ![x] = c] /\ out' \in [Agents -> BOOLEAN]
      /\ msg' = AllRefused(R)
      /\ \A n \in R : x \in Line[To(n)] /\ msg[n] \in {"held", "sent"}
      /\ \A n \in F : x \in Line[To(n)] /\ msg[n] \notin {"none", "held"}
      /\ \A f : Fewer(q, up, f)
      /\ \A z \in Agents : ToSet(q[z]) \subseteq ToSet(up[z])
      /\ \A z \in Agents : link[z] \in {"none", "gone"} => q[z] = <<>>
      /\ c = "gone" => q[x] = <<>>
      /\ up' = Upward(q, Parent[x], Refusals(F))
      /\ down' \in Pipes /\ \A f : Fewer(down', down, f)
      /\ \A z \in Agents : ToSet(down'[z]) \subseteq ToSet(down[z])
      /\ fwd' \in [Processes -> SUBSET Frame] /\ \A r \in Processes : fwd'[r] \subseteq fwd[r]
      /\ rec' \in [Processes -> [Agents -> {"none", "active", "ended"}]]
      /\ \A r \in Processes, w \in Agents :
            /\ rec'[r][w] = "active" => rec[r][w] = "active"
            /\ x \notin Line[w] => rec'[r][w] = rec[r][w]
      /\ term' \in [Processes -> BOOLEAN] /\ blocked' \in [Processes -> Processes]
      /\ \A w \in Agents : (Ending(w) => Ending(w)') /\ (Due(w)' => Due(w))
      /\ UNCHANGED <<st, cut, fg, limit, env, got>>
  BY DEF Severs
<1> USE <1>0
<1>1. st' = st /\ cut' = cut /\ fg' = fg /\ limit' = limit /\ env' = env /\ got' = got
  OBVIOUS
<1>2. /\ up \in Pipes /\ down \in Pipes /\ TypeOK /\ Kin
      /\ \A n \in Messages : Receipt(n)
      /\ msg \in [Messages -> Mails]
  BY InvParts DEF IInv, TypeOK, Mails
<1>3. /\ link[x] \notin {"none", "gone"}
      /\ link' \in [Agents -> {"none", "open", "closed", "gone"}] /\ link'[x] = c
      /\ \A z \in Agents \ {x} : link'[z] = link[z]
  BY <1>2 DEF JobHeld, TypeOK
<1>4. PICK p \in Processes : p = Parent[x]
  BY TreeTypes
<1>5. p # x /\ (p # Root => Forked(p))
  BY <1>4, NoLoop DEF Serves, Running, Forked
<1> DEFINE t == Refusals(F)
<1>6. /\ t \in Seq(Frame)
      /\ \A f \in ToSet(t) : \E n \in F : f = Ack(n, FALSE)
  <2> DEFINE S == {Ack(n, FALSE) : n \in F}
  <2>1. S \subseteq Frame /\ IsFiniteSet(S)
    BY ManyFrames
  <2>2. t = SetToSeq(S)
    BY DEF Refusals
  <2>3. \A f \in S : \E n \in F : f = Ack(n, FALSE)
    OBVIOUS
  <2> HIDE DEF S, t
  <2> QED BY <2>1, <2>2, <2>3, FramesOf
<1>7. up' = Upward(q, p, t)
  BY <1>4
<1> HIDE DEF t
<1>8. /\ up' \in Pipes
      /\ \A z \in Agents : \A f \in ToSet(up'[z]) : f \in ToSet(up[z]) \/ f \in ToSet(t)
      /\ \A f : f \notin ToSet(t) => Fewer(up', up, f)
      /\ \A z \in Agents : link'[z] \in {"none", "gone"} => up'[z] = <<>>
  <2>1. /\ up' \in Pipes
        /\ \A z \in Agents : ToSet(up'[z]) \subseteq ToSet(q[z]) \cup (IF z = p THEN ToSet(t) ELSE {})
        /\ \A f : f \notin ToSet(t) => Fewer(up', q, f)
        /\ up'[x] = q[x]
    BY <1>5, <1>6, <1>7, UpwardIs
  <2>2. \A z \in Agents : link[z] \in {"none", "gone"} => up'[z] = <<>>
    BY <1>5, <1>6, <1>7, UpwardClosed
  <2>3. \A f : f \notin ToSet(t) => Fewer(up', up, f)
    BY <2>1, FewerOver
  <2> QED BY <1>3, <2>1, <2>2, <2>3
<1>9. /\ msg' \in [Messages -> Mails]
      /\ \A n \in Messages : msg'[n] = IF n \in R THEN "refused" ELSE msg[n]
  BY <1>2 DEF AllRefused, Mails
<1>10. \A w \in Processes : x \in Line[w] => ~Connected(w)'
  BY <1>3 DEF Connected
<1>11. Onward
  <2>1. \A w \in Agents :
          /\ Forked(w) => Forked(w)' /\ (Sound(w)' => Sound(w))
          /\ Asked(w) => Asked(w)' /\ (st'[w] = "asking" => st[w] = "asking")
          /\ Began(w) => Began(w)' /\ (Ending(w) => Ending(w)')
    BY <1>1, <1>3 DEF Forked, Sound, Asked, Began
  <2>2. ASSUME NEW w \in Agents, rec[Root][w] = "active", Connected(w)'
        PROVE  rec'[Root][w] = "active"
    <3>1. x \notin Line[w] /\ Root \in Processes
      BY <1>10, <2>2, TreeTypes
    <3>2. rec'[Root][w] = rec[Root][w]
      BY <3>1
    <3> QED BY <2>2, <3>2
  <2>3. \A n \in Messages :
          /\ msg[n] # "none" => env'[n] = env[n] /\ msg'[n] # "none"
          /\ msg[n] \notin {"none", "held"} => msg'[n] \notin {"none", "held"}
    BY <1>1, <1>9
  <2> QED BY <2>1, <2>2, <2>3 DEF Onward
<1>12. TypeOK'
  <2>1. \A r \in Processes : \A f \in fwd'[r] : f \in fwd[r]
    OBVIOUS
  <2>2. \A r \in Processes : fwd'[r] \subseteq
        ({Admit(w) : w \in Below(r)} \cup {Message(k) : k \in {n \in Messages : To(n)' \in Below(r)}})
    BY <1>11, <2>1, FwdTypes
  <2>3. /\ st \in [Processes -> {"none", "idle", "asking", "told", "live",
                                "refused", "leaving", "dead"}]
        /\ cut \in [Agents -> BOOLEAN] /\ fg \subseteq Agents /\ limit \in Limits
        /\ env \in [Messages -> [from : Processes, to : Processes, ask : BOOLEAN]]
        /\ got \in [Messages -> Nat]
    BY <1>2 DEF TypeOK
  <2>4. up' \in [Agents -> Seq(Frame)] /\ down' \in [Agents -> Seq(Frame)]
    BY <1>8 DEF Pipes
  <2>5. msg' \in [Messages -> {"none", "held", "sent", "queued", "refused", "cancelled", "lost"}]
    BY <1>9 DEF Mails
  <2>6. \A z \in Agents : link'[z] \in {"none", "gone"} => up'[z] = <<>>
    BY <1>8
  <2>7. /\ fwd' \in [Processes -> SUBSET Frame]
        /\ rec' \in [Processes -> [Agents -> {"none", "active", "ended"}]]
        /\ term' \in [Processes -> BOOLEAN] /\ blocked' \in [Processes -> Processes]
        /\ out' \in [Agents -> BOOLEAN]
        /\ link' \in [Agents -> {"none", "open", "closed", "gone"}]
    BY <1>3
  <2>8. /\ st' \in [Processes -> {"none", "idle", "asking", "told", "live",
                                "refused", "leaving", "dead"}]
        /\ cut' \in [Agents -> BOOLEAN] /\ fg' \subseteq Agents /\ limit' \in Limits
        /\ env' \in [Messages -> [from : Processes, to : Processes, ask : BOOLEAN]]
        /\ got' \in [Messages -> Nat]
    BY <1>1, <2>3
  <2> QED BY <2>2, <2>4, <2>5, <2>6, <2>7, <2>8, Zenon DEF TypeOK
<1>13. Kin'
  <2>1. \A z \in Agents : /\ st'[z] = "none" <=> st[z] = "none"
                          /\ link'[z] = "none" <=> link[z] = "none"
    BY <1>1, <1>3
  <2>2. \A r \in Processes, w \in Agents : rec'[r][w] = "active" => rec[r][w] = "active"
    OBVIOUS
  <2> QED BY <1>2, <1>11, <2>1, <2>2, KinKept
<1>14. \A f \in ToSet(t) : f[1] = "ack" /\ f[2] \in F /\ f = Ack(f[2], FALSE)
  <2> SUFFICES ASSUME NEW f \in ToSet(t)
               PROVE  f[1] = "ack" /\ f[2] \in F /\ f = Ack(f[2], FALSE)
    OBVIOUS
  <2>1. PICK n \in F : f = Ack(n, FALSE)
    BY <1>6
  <2>2. f[1] = "ack" /\ f[2] = n
    BY <2>1, MoreParts
  <2> QED BY <2>1, <2>2
<1>15. /\ \A z \in Agents : \A f \in ToSet(up'[z]) : f \in ToSet(up[z]) \/ UpOk(z, f)'
       /\ \A z \in Agents : \A f \in ToSet(down'[z]) : f \in ToSet(down[z])
  <2>1. \A z \in Agents : \A f \in ToSet(t) : UpOk(z, f)'
    <3> SUFFICES ASSUME NEW z \in Agents, NEW f \in ToSet(t) PROVE UpOk(z, f)'
      OBVIOUS
    <3>1. f[1] = "ack"
      BY <1>14
    <3> QED BY <3>1 DEF UpOk
  <2> QED BY <1>8, <2>1
<1>16. ASSUME NEW n \in Messages PROVE Receipt(n)'
  <2>1. PICK f \in Frame, a \in Frame, b \in Frame :
           f = Message(n) /\ a = Ack(n, TRUE) /\ b = Ack(n, FALSE)
    BY FrameMade
  <2>2. f[1] = "msg" /\ f[2] = n /\ a[1] = "ack" /\ b[1] = "ack" /\ b[2] = n /\ a[3] = TRUE
    <3>1. f[1] = "msg" /\ f[2] = n
      BY <2>1, FrameParts
    <3>2. a[1] = "ack" /\ a[3] = TRUE
      BY <2>1, MoreParts
    <3>3. b[1] = "ack" /\ b[2] = n /\ b[3] = FALSE
      BY <2>1, MoreParts
    <3> QED BY <3>1, <3>2, <3>3
  <2>3. /\ Fewer(up', up, f) /\ Fewer(up', up, a)
        /\ Fewer(down', down, f) /\ Fewer(down', down, a) /\ Fewer(down', down, b)
        /\ n \notin F => Fewer(up', up, b)
    <3>1. f \notin ToSet(t) /\ (n \notin F => b \notin ToSet(t))
      <4>1. ASSUME f \in ToSet(t) PROVE FALSE
        <5>1. f[1] = "ack"
          BY <1>14, <4>1
        <5> QED BY <2>2, <5>1
      <4>2. ASSUME b \in ToSet(t) PROVE n \in F
        <5>1. b[2] \in F
          BY <1>14, <4>2
        <5> QED BY <2>2, <5>1
      <4> QED BY <4>1, <4>2
    <3>2. a \notin ToSet(t)
      <4> SUFFICES ASSUME a \in ToSet(t) PROVE FALSE
        OBVIOUS
      <4>1. PICK k \in F : a = Ack(k, FALSE)
        BY <1>6
      <4>2. a[3] = FALSE /\ a[3] = TRUE
        BY <2>2, <4>1, MoreParts
      <4> QED BY <4>2
    <3> QED BY <1>8, <3>1, <3>2
  <2>4. Receipt(n) /\ env'[n] = env[n] /\ got'[n] = got[n]
    BY <1>1, <1>2
  <2>5. One(f)
    BY <2>1, <2>4, Zenon DEF Receipt
  <2>6. x \in Line[To(n)] => Severed(n)'
    <3> SUFFICES ASSUME x \in Line[To(n)] PROVE Severed(n)'
      OBVIOUS
    <3>1. To(n) \in Processes /\ To(n)' = To(n)
      BY <1>1, <1>2 DEF TypeOK, To
    <3>2. ~Connected(x)'
      BY <1>10, LineHas, TreeTypes
    <3> QED BY <3>1, <3>2 DEF Severed
  <2> HIDE DEF Receipt, Severed
  <2>7. One(f)' /\ (Has(f)' => Has(f)) /\ (Has(a)' => Has(a)) /\ (n \notin F => (Has(b)' => Has(b)))
    BY <2>3, <2>5, OneStays, HasStays
  <2>8. /\ One(Message(n))' /\ (Has(Message(n))' => Has(Message(n)))
        /\ Has(Ack(n, TRUE))' => Has(Ack(n, TRUE))
        /\ n \notin F => (Has(Ack(n, FALSE))' => Has(Ack(n, FALSE)))
    BY <2>1, <2>7
  <2>9. n \in F => Severed(n)' /\ msg[n] \notin {"none", "held"}
    BY <2>6
  <2>10. /\ msg'[n] \in {"none", "held"} => msg[n] = msg'[n]
         /\ msg[n] = "none" => msg'[n] = "none"
         /\ msg'[n] = "queued" => msg[n] = "queued"
         /\ msg'[n] = "refused" => msg[n] = "refused" \/ Severed(n)'
    BY <1>9, <2>6
  <2>11. Has(Ack(n, FALSE))' =>
              \/ Has(Ack(n, FALSE))
              \/ /\ Has(Message(n)) \/ msg[n] \notin {"none", "held"}
                 /\ Has(Message(n))' \/ got'[n] = 1 => Severed(n)'
    BY <2>8, <2>9, Zenon
  <2> QED BY <1>2, <1>11, <2>4, <2>8, <2>10, <2>11, ReceiptKept
<1>17. /\ Active' \subseteq Active
       /\ \A r \in Processes : \A f \in fwd'[r] : f \in fwd[r]
       /\ \A w \in Agents : Due(w)' => Due(w)
  BY TreeTypes DEF Active
<1> QED BY <1>1, <1>11, <1>12, <1>13, <1>15, <1>16, <1>17, StepKeeps

(* The messages that closing a link refuses are those for agents below it. *)
LEMMA ViaLink ==
    ASSUME IInv, NEW x \in Agents
    PROVE  LET p == Parent[x] IN
           /\ SentVia(p, x) \in SUBSET Messages /\ HeldFor(p, x) \in SUBSET Messages
           /\ ForwardedVia(p, x) \in SUBSET Messages
           /\ \A n \in HeldFor(p, x) \cup SentVia(p, x) :
                 x \in Line[To(n)] /\ msg[n] \in {"held", "sent"}
           /\ \A n \in ForwardedVia(p, x) : x \in Line[To(n)] /\ msg[n] \notin {"none", "held"}
<1> DEFINE p == Parent[x]
<1>1. p \in Processes /\ x \in Line[x] /\ Framed
  BY InvParts, LineHas, TreeTypes
<1> HIDE DEF p
<1>2. /\ SentVia(p, x) \in SUBSET Messages /\ HeldFor(p, x) \in SUBSET Messages
      /\ \A n \in HeldFor(p, x) \cup SentVia(p, x) :
            x \in Line[To(n)] /\ msg[n] \in {"held", "sent"}
  BY <1>1 DEF SentVia, HeldFor
<1>3. ASSUME NEW n \in ForwardedVia(p, x)
      PROVE  n \in Messages /\ x \in Line[To(n)] /\ msg[n] \notin {"none", "held"}
  <2>1. n \in Messages /\ x \in Line[To(n)] /\ Message(n) \in fwd[p]
    BY DEF ForwardedVia
  <2>2. PICK f \in fwd[p] : f = Message(n)
    BY <2>1
  <2>3. FwdOk(f) /\ f[1] = "msg" /\ f[2] = n
    BY <1>1, <2>2, FrameParts DEF Framed
  <2> QED BY <2>1, <2>3 DEF FwdOk
<1> QED BY <1>2, <1>3 DEF p

(* The end of the pipe of a child, or a write to it that failed. *)
LEMMA LoseChildKeeps ==
    ASSUME IInv, NEW x \in Agents, LoseChild(x)
    PROVE  IInv'
<1> DEFINE R0 == SentVia(Parent[x], x)
           F0 == ForwardedVia(Parent[x], x)
<1>1. /\ JobHeld(x) /\ Serves(Parent[x])
      /\ link' = [link EXCEPT ![x] = "closed"]
      /\ out' = [out EXCEPT ![x] = FALSE]
      /\ msg' = AllRefused(R0)
      /\ fwd' = [fwd EXCEPT ![Parent[x]] = @ \ {Message(m) : m \in F0}]
      /\ up' = Upward(up, Parent[x], Refusals(F0))
      /\ down' = [down EXCEPT ![x] = <<>>]
      /\ UNCHANGED <<fg, env, got, limit, rec, process>>
  BY DEF LoseChild
<1>2. /\ R0 \in SUBSET Messages /\ \A n \in R0 : x \in Line[To(n)] /\ msg[n] \in {"held", "sent"}
      /\ F0 \in SUBSET Messages /\ \A n \in F0 : x \in Line[To(n)] /\ msg[n] \notin {"none", "held"}
  BY ViaLink
<1> HIDE DEF R0, F0
<1>3. PICK R \in SUBSET Messages, F \in SUBSET Messages : R = R0 /\ F = F0
  BY <1>2
<1>4. /\ up \in Pipes /\ down \in Pipes /\ TypeOK /\ fwd \in [Processes -> SUBSET Frame]
      /\ \A z \in Agents : link[z] \in {"none", "gone"} => up[z] = <<>>
  BY InvParts
<1>5. /\ down' \in Pipes /\ \A f : Fewer(down', down, f)
      /\ \A z \in Agents : ToSet(down'[z]) \subseteq ToSet(down[z])
  BY <1>1, <1>4, EmptiedIs
<1>6. /\ fwd' \in [Processes -> SUBSET Frame] /\ \A r \in Processes : fwd'[r] \subseteq fwd[r]
  BY <1>1, <1>4
<1>7. /\ st' = st /\ term' = term /\ cut' = cut /\ blocked' = blocked
      /\ UNCHANGED <<st, cut, fg, limit, env, got>>
  BY <1>1 DEF process
<1>8. \A w \in Agents : (Ending(w) => Ending(w)') /\ (Due(w)' => Due(w))
  BY <1>7 DEF Ending, Due
<1>9. /\ out' \in [Agents -> BOOLEAN] /\ term' \in [Processes -> BOOLEAN]
      /\ blocked' \in [Processes -> Processes]
      /\ rec' \in [Processes -> [Agents -> {"none", "active", "ended"}]]
      /\ rec' = rec
  BY <1>1, <1>4, <1>7 DEF TypeOK
<1>10. /\ \A n \in R : x \in Line[To(n)] /\ msg[n] \in {"held", "sent"}
       /\ \A n \in F : x \in Line[To(n)] /\ msg[n] \notin {"none", "held"}
       /\ msg' = AllRefused(R) /\ up' = Upward(up, Parent[x], Refusals(F))
  BY <1>1, <1>2, <1>3
<1>11. \A f : Fewer(up, up, f)
  BY FewerSame
<1>12. PICK c \in {"closed", "gone"} : c = "closed"
  OBVIOUS
<1>13. link' = [link EXCEPT ![x] = c] /\ c # "gone"
  BY <1>1, <1>12
<1>14. /\ c = "gone" => up[x] = <<>>
       /\ \A z \in Agents : ToSet(up[z]) \subseteq ToSet(up[z])
       /\ \A r \in Processes, w \in Agents :
            /\ rec'[r][w] = "active" => rec[r][w] = "active"
            /\ x \notin Line[w] => rec'[r][w] = rec[r][w]
       /\ up \in Pipes /\ JobHeld(x) /\ Serves(Parent[x])
  BY <1>1, <1>4, <1>9, <1>13
<1>15. Severs(x, c, R, F, up)
  BY <1>4, <1>5, <1>6, <1>7, <1>8, <1>9, <1>10, <1>11, <1>13, <1>14, Zenon DEF Severs
<1> QED BY <1>4, <1>15, LinkLost

(* What closing the link of a job does, whatever else the step does.        *)
LEMMA CloseKeeps ==
    ASSUME IInv, NEW x \in Agents, JobHeld(x), Serves(Parent[x]), CloseChannel(x),
           down' \in Pipes, \A f : Fewer(down', down, f),
           \A z \in Agents : ToSet(down'[z]) \subseteq ToSet(down[z]),
           term' \in [Processes -> BOOLEAN], blocked' \in [Processes -> Processes],
           \A w \in Agents : (Ending(w) => Ending(w)') /\ (Due(w)' => Due(w)),
           st' = st, cut' = cut
    PROVE  IInv'
<1> DEFINE R0 == HeldFor(Parent[x], x) \cup SentVia(Parent[x], x)
           F0 == ForwardedVia(Parent[x], x)
<1>1. /\ link' = [link EXCEPT ![x] = "gone"]
      /\ out' = [out EXCEPT ![x] = FALSE]
      /\ msg' = AllRefused(R0)
      /\ rec' = [rec EXCEPT ![Parent[x]] = [y \in Agents |->
                   IF x \in Line[y] /\ rec[Parent[x]][y] = "active" THEN "ended"
                   ELSE rec[Parent[x]][y]]]
      /\ fwd' = [fwd EXCEPT ![Parent[x]] = {f \in @ :
                   LET y == IF f[1] = "msg" THEN To(f[2]) ELSE f[2] IN x \notin Line[y]}]
      /\ up' = Upward([up EXCEPT ![x] = <<>>], Parent[x], Refusals(F0))
      /\ UNCHANGED <<fg, limit, env, got>>
  BY DEF CloseChannel
<1>2. /\ R0 \in SUBSET Messages /\ \A n \in R0 : x \in Line[To(n)] /\ msg[n] \in {"held", "sent"}
      /\ F0 \in SUBSET Messages /\ \A n \in F0 : x \in Line[To(n)] /\ msg[n] \notin {"none", "held"}
  BY ViaLink
<1> HIDE DEF R0, F0
<1>3. PICK R \in SUBSET Messages, F \in SUBSET Messages : R = R0 /\ F = F0
  BY <1>2
<1>4. /\ up \in Pipes /\ down \in Pipes /\ TypeOK /\ fwd \in [Processes -> SUBSET Frame]
      /\ \A z \in Agents : link[z] \in {"none", "gone"} => up[z] = <<>>
  BY InvParts
<1>5. PICK q \in Pipes : q = [up EXCEPT ![x] = <<>>]
  BY <1>4, EmptiedIs
<1>6. /\ q[x] = <<>> /\ \A z \in Agents \ {x} : q[z] = up[z]
      /\ \A z \in Agents : ToSet(q[z]) \subseteq ToSet(up[z])
      /\ \A f : Fewer(q, up, f)
  <2> DEFINE e == [up EXCEPT ![x] = <<>>]
  <2>0. up \in Pipes
    BY <1>4
  <2>1. e[x] = <<>>
    BY <2>0, EmptiedIs
  <2>3. \A z \in Agents \ {x} : e[z] = up[z]
    BY <2>0, EmptiedIs
  <2>4. \A z \in Agents : ToSet(e[z]) \subseteq ToSet(up[z])
    BY <2>0, EmptiedIs
  <2>5. \A f : Fewer(e, up, f)
    BY <2>0, EmptiedIs
  <2>2. q = e
    BY <1>5
  <2> HIDE DEF e
  <2> QED BY <2>1, <2>2, <2>3, <2>4, <2>5
<1>7. \A z \in Agents : link[z] \in {"none", "gone"} => q[z] = <<>>
  BY <1>4, <1>6
<1>8. /\ fwd' \in [Processes -> SUBSET Frame] /\ \A r \in Processes : fwd'[r] \subseteq fwd[r]
  <2> DEFINE keeps(f) == LET y == IF f[1] = "msg" THEN To(f[2]) ELSE f[2] IN x \notin Line[y]
  <2>1. fwd' = [fwd EXCEPT ![Parent[x]] = {f \in @ : keeps(f)}]
    BY <1>1
  <2> HIDE DEF keeps
  <2> QED BY <1>4, <2>1
<1>9. /\ rec' \in [Processes -> [Agents -> {"none", "active", "ended"}]]
      /\ \A r \in Processes, w \in Agents :
            /\ rec'[r][w] = "active" => rec[r][w] = "active"
            /\ x \notin Line[w] => rec'[r][w] = rec[r][w]
  <2>1. rec \in [Processes -> [Agents -> {"none", "active", "ended"}]]
    BY <1>4 DEF TypeOK
  <2> QED BY <1>1, <2>1
<1>10. /\ \A n \in R : x \in Line[To(n)] /\ msg[n] \in {"held", "sent"}
       /\ \A n \in F : x \in Line[To(n)] /\ msg[n] \notin {"none", "held"}
       /\ msg' = AllRefused(R) /\ up' = Upward(q, Parent[x], Refusals(F))
  BY <1>1, <1>2, <1>3, <1>5
<1>11. out' \in [Agents -> BOOLEAN] /\ UNCHANGED <<st, cut, fg, limit, env, got>>
  BY <1>1, <1>4 DEF TypeOK
<1>12. PICK c \in {"closed", "gone"} : c = "gone"
  OBVIOUS
<1>13. link' = [link EXCEPT ![x] = c]
  BY <1>1, <1>12
<1>14. c = "gone" => q[x] = <<>>
  BY <1>6
<1>15. JobHeld(x) /\ Serves(Parent[x]) /\ q \in Pipes
  OBVIOUS
<1>16. Severs(x, c, R, F, q)
  BY <1>6, <1>7, <1>8, <1>9, <1>10, <1>11, <1>13, <1>14, <1>15, Zenon DEF Severs
<1> QED BY <1>16, LinkLost

(* The group collects a job that is done. *)
LEMMA CollectKeeps ==
    ASSUME IInv, NEW x \in Agents, Collect(x)
    PROVE  IInv'
<1>1. /\ JobHeld(x) /\ Serves(Parent[x]) /\ CloseChannel(x)
      /\ down' = [down EXCEPT ![x] = <<>>] /\ UNCHANGED process
  BY DEF Collect
<1>2. down \in Pipes /\ TypeOK
  BY InvParts
<1>3. /\ down' \in Pipes /\ \A f : Fewer(down', down, f)
      /\ \A z \in Agents : ToSet(down'[z]) \subseteq ToSet(down[z])
  BY <1>1, <1>2, EmptiedIs
<1>4. /\ st' = st /\ term' = term /\ cut' = cut /\ blocked' = blocked
      /\ term' \in [Processes -> BOOLEAN] /\ blocked' \in [Processes -> Processes]
  BY <1>1, <1>2 DEF process, TypeOK
<1>5. \A w \in Agents : (Ending(w) => Ending(w)') /\ (Due(w)' => Due(w))
  BY <1>4 DEF Ending, Due
<1> QED BY <1>1, <1>3, <1>4, <1>5, CloseKeeps

(* A turn that is interrupted discards a job: the frames it had not        *)
(* written are lost.                                                       *)
LEMMA DiscardKeeps ==
    ASSUME IInv, NEW x \in Agents, Discard(x)
    PROVE  IInv'
<1>1. /\ JobHeld(x) /\ Serves(Parent[x]) /\ CloseChannel(x)
      /\ term' = [term EXCEPT ![x] = Running(x)]
      /\ blocked' = [blocked EXCEPT ![Parent[x]] = x]
      /\ UNCHANGED <<st, cut>>
  BY DEF Discard
<1>2. down \in Pipes /\ TypeOK /\ x \in Processes /\ down[x] \in Seq(Frame)
  BY InvParts, TreeTypes DEF Pipes
<1>3. PICK n \in {0, Len(down[x])} : down' = [down EXCEPT ![x] = SubSeq(@, 1, n)]
  BY DEF Discard
<1>4. /\ down' \in Pipes /\ \A f : Fewer(down', down, f)
      /\ \A z \in Agents : ToSet(down'[z]) \subseteq ToSet(down[z])
  <2> DEFINE s == SubSeq(down[x], 1, n)
  <2>1. n \in 0 .. Len(down[x])
    BY <1>2
  <2>2. s \in Seq(Frame) /\ ToSet(s) \subseteq ToSet(down[x]) /\ \A f : Less(s, down[x], f)
    BY <1>2, <2>1, FramesFirst
  <2>3. down' = [down EXCEPT ![x] = s]
    BY <1>3
  <2> HIDE DEF s
  <2>4. down' = Filled(down, x, s)
    BY <2>3 DEF Filled
  <2> QED BY <1>2, <2>2, <2>4, FilledIs
<1>5. /\ term \in [Processes -> BOOLEAN] /\ blocked \in [Processes -> Processes]
      /\ Running(x) \in BOOLEAN
  BY <1>2 DEF TypeOK, Running
<1>6. term' \in [Processes -> BOOLEAN] /\ blocked' \in [Processes -> Processes]
  BY <1>1, <1>2, <1>5
<1>7. \A w \in Agents : (Ending(w) => Ending(w)') /\ (Due(w)' => Due(w))
  <2> SUFFICES ASSUME NEW w \in Agents
               PROVE  (Ending(w) => Ending(w)') /\ (Due(w)' => Due(w))
    OBVIOUS
  <2>1. w \in Processes
    BY TreeTypes
  <2>2. CASE w # x
    <3>1. term'[w] = term[w] /\ st' = st
      BY <1>1, <2>1, <2>2, <1>5
    <3> QED BY <3>1 DEF Ending, Due
  <2>3. CASE w = x
    <3>1. st[x] = "live" => term'[x] = TRUE
      BY <1>1, <1>2, <1>5 DEF Running
    <3> QED BY <1>1, <2>3, <3>1 DEF Ending, Due
  <2> QED BY <2>2, <2>3
<1>8. st' = st /\ cut' = cut
  BY <1>1
<1> QED BY <1>1, <1>4, <1>6, <1>7, <1>8, CloseKeeps

(* The invariant holds when the root starts. *)
LEMMA AgentsInit ==
    ASSUME Init
    PROVE  IInv
<1>1. /\ st = [p \in Processes |-> IF p = Root THEN "live" ELSE "none"]
      /\ term = [p \in Processes |-> FALSE] /\ cut = [x \in Agents |-> FALSE]
      /\ blocked = [p \in Processes |-> Root]
      /\ link = [x \in Agents |-> "none"] /\ out = [x \in Agents |-> FALSE] /\ fg = {}
      /\ up = [x \in Agents |-> <<>>] /\ down = [x \in Agents |-> <<>>]
      /\ limit \in Limits
      /\ rec = [p \in Processes |-> [y \in Agents |-> "none"]]
      /\ fwd = [p \in Processes |-> {}]
      /\ env = [m \in Messages |-> [from |-> Root, to |-> Root, ask |-> FALSE]]
      /\ msg = [m \in Messages |-> "none"] /\ got = [m \in Messages |-> 0]
  BY DEF Init
<1>2. Root \in Processes /\ <<>> \in Seq(Frame) /\ ToSet(<<>>) = {}
  BY TreeTypes, NoFrames
<1>3. TypeOK
  <2>1. env \in [Messages -> [from : Processes, to : Processes, ask : BOOLEAN]]
    <3>1. [from |-> Root, to |-> Root, ask |-> FALSE] \in [from : Processes, to : Processes, ask : BOOLEAN]
      BY <1>2
    <3> QED BY <1>1, <3>1
  <2>2. up \in [Agents -> Seq(Frame)] /\ down \in [Agents -> Seq(Frame)]
        /\ \A x \in Agents : up[x] = <<>>
    BY <1>1, <1>2
  <2>3. fwd \in [Processes -> SUBSET Frame] /\ \A p \in Processes : fwd[p] = {}
    BY <1>1
  <2>4. rec \in [Processes -> [Agents -> {"none", "active", "ended"}]]
    BY <1>1
  <2> QED BY <1>1, <1>2, <2>1, <2>2, <2>3, <2>4 DEF TypeOK
<1>4. \A x \in Agents : st[x] = "none" /\ link[x] = "none" /\ up[x] = <<>> /\ down[x] = <<>>
  BY <1>1, TreeTypes
<1>5. \A p \in Processes : fwd[p] = {} /\ \A y \in Agents : rec[p][y] = "none"
  BY <1>1
<1>6. Framed
  BY <1>2, <1>4, <1>5 DEF Framed
<1>7. Kin
  BY <1>4, <1>5 DEF Kin, Forked
<1>8. Counted
  <2>1. Active = {}
    BY <1>2, <1>5 DEF Active
  <2>2. Cardinality(Active) = 0
    BY <2>1, FS_EmptySet
  <2>3. limit \in Nat
    BY <1>1, TreeTypes
  <2> QED BY <1>4, <2>2, <2>3 DEF Counted, Due
<1>9. ASSUME NEW n \in Messages PROVE Receipt(n)
  <2>1. up \in Pipes /\ down \in Pipes
    BY <1>1, <1>2 DEF Pipes
  <2>2. ASSUME NEW f PROVE One(f) /\ ~Has(f)
    <3>1. \A z \in Agents : f \notin ToSet(up[z]) /\ f \notin ToSet(down[z])
      BY <1>2, <1>4
    <3>2. \A z \in Agents : Single(up[z], f) /\ Single(down[z], f)
      BY <1>4, NoFrames
    <3> QED BY <3>1, <3>2 DEF One, Has
  <2>3. One(Message(n)) /\ ~Has(Message(n)) /\ ~Has(Ack(n, TRUE)) /\ ~Has(Ack(n, FALSE))
    BY <2>2
  <2>4. msg[n] = "none" /\ got[n] = 0 /\ got[n] <= 1
    BY <1>1
  <2> QED BY <2>3, <2>4 DEF Receipt
<1> QED BY <1>3, <1>6, <1>7, <1>8, <1>9 DEF IInv

(* A stutter keeps the invariant. *)
LEMMA AgentsStill ==
    ASSUME IInv, UNCHANGED vars
    PROVE  IInv'
<1>1. UNCHANGED <<job, pipes, registry, mail>> /\ UNCHANGED process
  BY DEF vars
<1>2. st' = st /\ term' = term /\ cut' = cut /\ blocked' = blocked
      /\ link' = link
  BY <1>1 DEF process, job
<1>3. Moves
  BY <1>2 DEF Moves, Sound, Asked, Began, Ending
<1>4. \A x \in Agents : Due(x)' => Due(x)
  BY <1>2 DEF Due
<1> QED BY <1>1, <1>2, <1>3, <1>4, StageParts, StillStep

(* Every step keeps the invariant: one lemma for each action. *)
LEMMA AgentsNext ==
    ASSUME IInv, [Next]_vars
    PROVE  IInv'
<1>1. CASE UNCHANGED vars
  BY <1>1, AgentsStill
<1>2. ASSUME NEW x \in Agents,
             \/ Fork(x) \/ Enter(x) \/ GiveUp(x) \/ Tick(x) \/ Terminate(x)
             \/ FinishTurn(x) \/ Exit(x) \/ Crash(x)
             \/ LoseChild(x) \/ LoseParent(x) \/ Collect(x) \/ Discard(x)
      PROVE  IInv'
  BY <1>2, ForkKeeps, EnterKeeps, GiveUpKeeps, TickKeeps, TerminateKeeps, FinishTurnKeeps,
     ExitKeeps, CrashKeeps, LoseChildKeeps, LoseParentKeeps, CollectKeeps, DiscardKeeps
<1>3. ASSUME NEW x \in Agents, Serve(x)
      PROVE  IInv'
  <2>1. ASSUME ServeAdmit(x) PROVE IInv'
    BY <2>1, ServeAdmitPasses, ServeAdmitDecides
  <2> QED BY <1>3, <2>1, ServeEventKeeps, ServeResultKeeps, ServeChildMessageKeeps, ServeAckKeeps
          DEF Serve
<1>4. ASSUME NEW x \in Agents, ServeParent(x)
      PROVE  IInv'
  BY <1>4, TakeRunKeeps, ServeAdmittedKeeps, ServeMessageKeeps, ServeParentAckKeeps DEF ServeParent
<1>5. ASSUME NEW m \in Messages, NEW p \in Processes, NEW t \in Processes, NEW ask \in BOOLEAN,
             Send(m, p, t, ask)
      PROVE  IInv'
  BY <1>5, SendKeeps
<1>6. ASSUME NEW m \in Messages, CancelMessage(m)
      PROVE  IInv'
  BY <1>6, CancelMessageKeeps
<1>7. ASSUME NEW p \in Processes, Reap(p)
      PROVE  IInv'
  BY <1>7, ReapKeeps
<1> QED BY <1>1, <1>2, <1>3, <1>4, <1>5, <1>6, <1>7 DEF Next

(* The invariant implies what the runs check. *)
LEMMA AgentsImplied ==
    ASSUME IInv
    PROVE  TypeOK /\ LiveAreCounted /\ ReceiptsTrue
<1>1. TypeOK /\ Counted /\ \A n \in Messages : Receipt(n)
  BY DEF IInv
<1>2. LiveAreCounted
  <2> DEFINE L == {x \in Agents : st[x] = "live" /\ ~term[x] /\ Connected(x)
                    /\ rec[Root][x] = "active"}
  <2>1. Active \in SUBSET Agents /\ L \subseteq Active
    BY DEF Active
  <2>2. /\ IsFiniteSet(Active) /\ IsFiniteSet(L) /\ Cardinality(L) <= Cardinality(Active)
        /\ Cardinality(L) \in Nat /\ Cardinality(Active) \in Nat
    <3> HIDE DEF L
    <3> QED BY <2>1, TreeTypes, FS_Subset, FS_CardinalityType
  <2>3. limit \in Nat /\ Cardinality(Active) <= limit
    BY <1>1, TreeTypes DEF TypeOK, Counted
  <2>4. Cardinality(L) <= limit
    <3> HIDE DEF L
    <3> QED BY <2>2, <2>3
  <2>5. \A x \in Agents : st[x] = "live" /\ ~term[x] /\ Connected(x) => rec[Root][x] = "active"
    BY <1>1 DEF Counted, Due
  <2> QED BY <2>4, <2>5 DEF LiveAreCounted
<1>3. ReceiptsTrue
  <2> SUFFICES ASSUME NEW n \in Messages
               PROVE  /\ got[n] <= 1
                      /\ msg[n] = "queued" => got[n] = 1
                      /\ msg[n] = "refused" /\ got[n] = 1
                           => \E y \in Line[From(n)] \cup Line[To(n)] : ~Connected(y)
    BY DEF ReceiptsTrue
  <2>1. Receipt(n)
    BY <1>1
  <2> QED BY <2>1, Zenon DEF Receipt, Severed
<1> QED BY <1>1, <1>2, <1>3

(* The agents always satisfy the inductive invariant: frames, records and  *)
(* receipts agree at every moment, whoever is killed and whatever is lost. *)
THEOREM AlwaysIInv == Spec => []IInv
<1>1. Init => IInv
  BY AgentsInit
<1>2. IInv /\ [Next]_vars => IInv'
  BY AgentsNext
<1> QED BY <1>1, <1>2, PTL DEF Spec

(* The agents always have their types; in particular a process has         *)
(* forwards for its descendants alone (fyai_tools.c), and reads nothing    *)
(* from a link that it closed (fyai_tool_job_close_channel).               *)
THEOREM AlwaysTypeOK == Spec => []TypeOK
<1>1. IInv => TypeOK
  BY AgentsImplied
<1> QED BY <1>1, AlwaysIInv, PTL

(* The limit counts every agent of the invocation: an agent that runs, was *)
(* not asked to end and has all its links to the root has an active record *)
(* there, and there are never more of those than agent/max_live_agents     *)
(* (fyai_agents.c).                                                        *)
THEOREM AlwaysLiveAreCounted == Spec => []LiveAreCounted
<1>1. IInv => LiveAreCounted
  BY AgentsImplied
<1> QED BY <1>1, AlwaysIInv, PTL

(* A receipt is true: whatever is killed, cut or discarded, a message is   *)
(* queued for the model of its target once at most; a sender that is told  *)
(* "queued" is told so of a message that was; one that is told "not        *)
(* queued" of a message that was has lost a link in between                *)
(* (fyai_agents.c, fyai_tools.c).                                          *)
THEOREM AlwaysReceiptsTrue == Spec => []ReceiptsTrue
<1>1. IInv => ReceiptsTrue
  BY AgentsImplied
<1> QED BY <1>1, AlwaysIInv, PTL
=============================================================================
