---------------------------- MODULE SseRelayProofs ----------------------------
(***************************************************************************)
(* Proofs about SseRelay, for answers of any length, lines split anywhere  *)
(* and connections that end anywhere: types, the order of the frames, the  *)
(* text of the last one, and that only what was abandoned is lost.         *)
(*                                                                         *)
(* Three invariants carry them.  RelayInv orders what is on its way as well*)
(* as what is shown: the data that waits to be read is in the order of the *)
(* events and later than everything shown, but for the first part of a line*)
(* and the rest of it, which carry one number.  TextInv: what is collected *)
(* is what was shown.  CompleteInv: while nothing was abandoned, what has  *)
(* arrived continues what was read line by line, and what was read is told *)
(* in full.                                                                *)
(*                                                                         *)
(* What FlattenSeq computes is shown without induction over data, by the   *)
(* set of positions up to which it holds (Counting).                       *)
(***************************************************************************)
EXTENDS SseRelay, SequenceTheorems, WellFoundedInduction, TLAPS

Numbers == 1..MaxEvents
Types   == {"start", "end", "reasoning", "text", "citation", "tool_use", "error", "empty"}
Frames  == [type : Types, text : Seq(Numbers)]
Line    == [what : {"event", "data"}, of : Event]
Piece   == [part : {"whole", "head", "tail"}, line : Line]

-------------------------------------------------------------------------------
(* What the client has got before the last frame.                            *)

ShownIn(o) == UNION {ToSet(o[i].text) : i \in DOMAIN o}

Ordered(o) ==
    /\ o \in Seq(Frames)
    /\ \A i \in DOMAIN o :
        /\ o[i].type # "end"
        /\ o[i].type = "start" <=> i = 1 /\ protocol \in Opening
    /\ \A i, j \in DOMAIN o :
          i < j => \A n \in ToSet(o[i].text), m \in ToSet(o[j].text) : n < m

(* A frame that shows nothing, or one event later than all shown. *)
LEMMA OneMore ==
    ASSUME NEW o, Ordered(o), protocol \in Opening => o # <<>>,
           NEW f \in Frames, f.type \notin {"start", "end"},
           \A n \in ShownIn(o), m \in ToSet(f.text) : n < m
    PROVE  /\ Ordered(Append(o, f))
           /\ ShownIn(Append(o, f)) = ShownIn(o) \cup ToSet(f.text)
           /\ Append(o, f) # <<>>
<1> DEFINE p == Append(o, f)
<1>1. /\ o \in Seq(Frames) /\ Len(o) \in Nat /\ DOMAIN o = 1..Len(o)
      /\ p \in Seq(Frames) /\ Len(p) = Len(o) + 1 /\ DOMAIN p = 1..(Len(o) + 1)
      /\ p[Len(o) + 1] = f
      /\ \A i \in 1..Len(o) : p[i] = o[i]
  BY AppendProperties, LenProperties DEF Ordered
<1> HIDE DEF p
<1>2. o # <<>> => Len(o) > 0
  BY <1>1
<1>3. ASSUME NEW i \in DOMAIN p
      PROVE  /\ p[i].type # "end"
             /\ p[i].type = "start" <=> i = 1 /\ protocol \in Opening
  <2>1. CASE i \in DOMAIN o
    BY <1>1, <2>1 DEF Ordered
  <2>2. CASE i \notin DOMAIN o
    BY <1>1, <1>2, <2>2
  <2> QED BY <2>1, <2>2
<1>4. ASSUME NEW i \in DOMAIN p, NEW j \in DOMAIN p, i < j,
             NEW n \in ToSet(p[i].text), NEW m \in ToSet(p[j].text)
      PROVE  n < m
  <2>1. i \in DOMAIN o /\ p[i] = o[i]
    BY <1>1, <1>4
  <2>2. CASE j \in DOMAIN o
    BY <1>1, <1>4, <2>1, <2>2 DEF Ordered
  <2>3. CASE j \notin DOMAIN o
    <3>1. p[j] = f
      BY <1>1, <2>3
    <3>2. n \in ShownIn(o)
      BY <1>4, <2>1 DEF ShownIn
    <3> QED BY <1>4, <3>1, <3>2
  <2> QED BY <2>2, <2>3
<1>5. ShownIn(p) = ShownIn(o) \cup ToSet(f.text)
  <2>1. ASSUME NEW n \in ShownIn(p) PROVE n \in ShownIn(o) \cup ToSet(f.text)
    <3>1. PICK i \in DOMAIN p : n \in ToSet(p[i].text)
      BY <2>1 DEF ShownIn
    <3> QED BY <1>1, <3>1 DEF ShownIn
  <2>2. ASSUME NEW n \in ShownIn(o) PROVE n \in ShownIn(p)
    <3>1. PICK i \in DOMAIN o : n \in ToSet(o[i].text)
      BY <2>2 DEF ShownIn
    <3> QED BY <1>1, <3>1 DEF ShownIn
  <2>3. ASSUME NEW n \in ToSet(f.text) PROVE n \in ShownIn(p)
    BY <1>1, <2>3 DEF ShownIn
  <2> QED BY <2>1, <2>2, <2>3
<1>6. p # <<>>
  BY <1>1
<1> QED BY <1>1, <1>3, <1>4, <1>5, <1>6 DEF Ordered, p

(* The frames of an event: none, or one that shows its number or nothing. *)
LEMMA ShownIs ==
    ASSUME NEW name, NEW e \in Event, protocol \in Protocols
    PROVE  \/ Shown(name, e) = <<>>
           \/ \E f \in Frames : /\ Shown(name, e) = <<f>>
                                /\ f.type \notin {"start", "end"}
                                /\ ToSet(f.text) \subseteq {e.n}
<1>1. e.n \in Numbers
  BY DEF Event, Numbers
<1>2. /\ <<>> \in Seq(Numbers) /\ <<e.n>> \in Seq(Numbers)
      /\ ToSet(<<>>) = {} /\ ToSet(<<e.n>>) = {e.n}
  BY <1>1 DEF ToSet
<1>3. Delta(e) \in {<<>>, <<e.n>>}
  BY DEF Delta
<1> DEFINE Fine(s) == \/ s = <<>>
                      \/ \E f \in Frames : /\ s = <<f>>
                                           /\ f.type \notin {"start", "end"}
                                           /\ ToSet(f.text) \subseteq {e.n}
<1>4. ASSUME NEW type \in Types \ {"start", "end"}, NEW text \in {<<>>, <<e.n>>}
      PROVE  Fine(<<Frame(type, text)>>)
  <2>1. Frame(type, text) \in Frames
    BY <1>2 DEF Frame, Frames
  <2>2. Frame(type, text).type = type /\ Frame(type, text).text = text
    BY DEF Frame
  <2>3. ToSet(Frame(type, text).text) \subseteq {e.n}
    BY <1>2, <2>2
  <2> QED BY <2>1, <2>2, <2>3
<1>5. /\ Fine(<<Frame("reasoning", Delta(e))>>)
      /\ Fine(<<Frame("text", Delta(e))>>)
      /\ Fine(<<Frame("citation", <<e.n>>)>>)
      /\ Fine(<<Frame("tool_use", <<e.n>>)>>)
      /\ Fine(<<Frame("error", <<e.n>>)>>)
      /\ Fine(<<>>)
  <2> HIDE DEF Fine
  <2>1. /\ {"reasoning", "text", "citation", "tool_use", "error"}
             \subseteq Types \ {"start", "end"}
    BY DEF Types
  <2>2. Fine(<<>>)
    BY DEF Fine
  <2> QED BY <1>3, <1>4, <2>1, <2>2
<1> HIDE DEF Fine
<1>6. Fine(OpenAiShown(name, e))
  BY <1>5 DEF OpenAiShown
<1>7. Fine(AnthropicShown(name, e))
  BY <1>5 DEF AnthropicShown
<1>8. Fine(ResponsesShown(name, e))
  BY <1>5 DEF ResponsesShown
<1>9. Fine(Shown(name, e))
  BY <1>5, <1>6, <1>7, <1>8, RelayAssumption DEF Shown
<1> QED BY <1>9 DEF Fine
-------------------------------------------------------------------------------
(* The invariant. *)

Typed ==
    /\ protocol \in Protocols
    /\ sent \in Seq(Event) /\ Len(sent) <= MaxEvents
    /\ half \in BOOLEAN /\ closed \in BOOLEAN /\ started \in BOOLEAN
    /\ finished \in BOOLEAN /\ saw \in BOOLEAN /\ abandoned \in BOOLEAN
    /\ net \in Seq(Piece)
    /\ pending \in Kinds \cup {"none"}
    /\ acc \in Seq(Numbers)
    /\ abandoned => protocol # "nonstream"

(* The lines to be sent are the last event's. *)
LinesInv ==
    /\ half => lines # <<>>
    /\ lines # <<>> => \E e \in Event :
        /\ e.n = Len(sent)
        /\ \/ lines = <<[what |-> "event", of |-> e], [what |-> "data", of |-> e]>>
           \/ lines = <<[what |-> "data", of |-> e]>>

(* A first part is followed by the rest of its line, or is the last to arrive.*)
HeadsInv ==
    \A i \in DOMAIN net : net[i].part = "head" =>
        /\ i < Len(net) => net[i + 1].part = "tail"
        /\ i = Len(net) => half

(* The last frame comes when the stream is finished; before it the frames are *)
(* in order, the opening one first.                                          *)
OutInv ==
    /\ finished => \E o, a : /\ Ordered(o) /\ a \in Seq(Numbers)
                             /\ out = Append(o, Frame("end", a))
                             /\ protocol \in Opening => o # <<>>
    /\ ~finished => Ordered(out)
    /\ protocol \in Opening => (started <=> out # <<>>)

IsData(j) == net[j].line.what = "data"
Num(j)    == net[j].line.of.n

(* The data that has arrived is in order, and later than what was shown. *)
OrderInv ==
    /\ \A n \in ShownIn(out) : n \in Numbers /\ n <= Len(sent)
    /\ ~closed /\ lines # <<>> => \A n \in ShownIn(out) : n < Len(sent)
    /\ \A j \in DOMAIN net : IsData(j) =>
        /\ Num(j) <= Len(sent)
        /\ \A n \in ShownIn(out) : n < Num(j)
        /\ \A i \in DOMAIN net : i < j /\ IsData(i) =>
              Num(i) < Num(j) \/ (j = i + 1 /\ net[i].part = "head")
        /\ ~closed /\ lines # <<>> =>
              \/ Num(j) < Len(sent)
              \/ j = Len(net) /\ net[j].part = "head" /\ half /\ Len(lines) = 1

RelayInv == Typed /\ LinesInv /\ HeadsInv /\ OutInv /\ (~finished => OrderInv)

(* What has arrived, piece by piece. *)
LEMMA NetIs ==
    ASSUME Typed
    PROVE  /\ Len(net) \in Nat /\ DOMAIN net = 1..Len(net)
           /\ Len(sent) \in Nat
           /\ \A j \in DOMAIN net :
                /\ net[j] \in Piece
                /\ net[j].line.of \in Event /\ Num(j) \in Numbers /\ Num(j) \in Nat
                /\ net[j].line.of.kind \in Kinds
                /\ net[j].line.what \in {"event", "data"}
<1>1. net \in Seq(Piece) /\ sent \in Seq(Event)
  BY DEF Typed
<1>2. \A j \in DOMAIN net : net[j] \in Piece
  BY <1>1
<1>3. MaxEvents \in Nat
  BY RelayAssumption
<1>4. \A e \in Event : e.n \in Numbers /\ e.n \in Nat /\ e.kind \in Kinds
  BY <1>3 DEF Event, Numbers
<1> QED BY <1>1, <1>2, <1>4, LenProperties DEF Piece, Line, Num

LEMMA InitRelay == Init => RelayInv
<1> SUFFICES ASSUME Init PROVE RelayInv
  OBVIOUS
<1>1. Typed
  <2>1. /\ <<>> \in Seq(Event) /\ <<>> \in Seq(Piece) /\ <<>> \in Seq(Numbers)
        /\ Len(<<>>) = 0
    OBVIOUS
  <2>2. Len(sent) <= MaxEvents
    BY <2>1, RelayAssumption DEF Init
  <2> QED BY <2>1, <2>2 DEF Init, Typed
<1>2. ShownIn(<<>>) = {} /\ Ordered(<<>>)
  BY DEF ShownIn, Ordered
<1> QED BY <1>1, <1>2 DEF Init, RelayInv, LinesInv, HeadsInv, OutInv, OrderInv

-------------------------------------------------------------------------------
(* The upstream. *)

LEMMA SendEventStep ==
    ASSUME RelayInv, NEW e \in Event, SendEvent(e)
    PROVE  RelayInv'
<1>1. /\ lines = <<>> /\ ~closed /\ ~finished /\ e.n = Len(sent) + 1
      /\ sent' = Append(sent, e)
      /\ lines' = <<[what |-> "event", of |-> e], [what |-> "data", of |-> e]>>
      /\ UNCHANGED <<protocol, half, net, closed, started, finished, pending, saw, acc,
                     out, abandoned>>
  BY DEF SendEvent, Open, reader
<1>2. sent \in Seq(Event) /\ Len(sent) \in Nat
  BY NetIs DEF RelayInv, Typed
<1>3. sent' \in Seq(Event) /\ Len(sent') = Len(sent) + 1
  BY <1>1, <1>2
<1>4. e.n <= MaxEvents
  BY RelayAssumption DEF Event
<1>5. Typed'
  BY <1>1, <1>3, <1>4 DEF RelayInv, Typed
<1>6. LinesInv'
  BY <1>1, <1>3 DEF RelayInv, LinesInv
<1>7. HeadsInv' /\ OutInv'
  BY <1>1 DEF RelayInv, HeadsInv, OutInv, Ordered
<1>8. ShownIn(out)' = ShownIn(out)
  BY <1>1 DEF ShownIn
<1>9. \A j \in DOMAIN net : /\ IsData(j)' = IsData(j) /\ Num(j)' = Num(j)
                            /\ Num(j) \in Nat
  BY <1>1, NetIs DEF IsData, Num, RelayInv
<1>10. OrderInv'
  BY <1>1, <1>2, <1>3, <1>8, <1>9 DEF RelayInv, OrderInv, Numbers
<1> QED BY <1>5, <1>6, <1>7, <1>10 DEF RelayInv

(* A piece of the first line of lines arrives. *)
LEMMA Arrives ==
    ASSUME RelayInv, ~closed, ~finished, lines # <<>>,
           NEW part \in {"whole", "head", "tail"},
           (part = "tail") <=> half,
           net' = Part(part),
           UNCHANGED <<protocol, sent, closed, reader, abandoned>>,
           IF part = "head" THEN half' = TRUE /\ lines' = lines
           ELSE half' = FALSE /\ lines' = Tail(lines)
    PROVE  RelayInv'
<1>1. PICK e \in Event :
        /\ e.n = Len(sent)
        /\ \/ lines = <<[what |-> "event", of |-> e], [what |-> "data", of |-> e]>>
           \/ lines = <<[what |-> "data", of |-> e]>>
  BY DEF RelayInv, LinesInv
<1> DEFINE new == [part |-> part, line |-> Head(lines)]
<1>2. /\ Head(lines) \in Line /\ Head(lines).of = e
      /\ (Head(lines).what = "data") <=> Len(lines) = 1
      /\ Len(lines) \in {1, 2}
      /\ Len(lines) = 1 => Tail(lines) = <<>>
      /\ Len(lines) = 2 => Tail(lines) = <<[what |-> "data", of |-> e]>>
  <2>1. CASE lines = <<[what |-> "event", of |-> e], [what |-> "data", of |-> e]>>
    <3>1. /\ Head(lines) = [what |-> "event", of |-> e] /\ Len(lines) = 2
          /\ Tail(lines) = <<[what |-> "data", of |-> e]>>
      BY <2>1
    <3> QED BY <3>1 DEF Line
  <2>2. CASE lines = <<[what |-> "data", of |-> e]>>
    <3>1. /\ Head(lines) = [what |-> "data", of |-> e] /\ Len(lines) = 1
          /\ Tail(lines) = <<>>
      BY <2>2
    <3> QED BY <3>1 DEF Line
  <2> QED BY <1>1, <2>1, <2>2
<1>3. new \in Piece /\ new.part = part /\ new.line = Head(lines)
  BY <1>2 DEF Piece
<1> HIDE DEF new
<1>n. /\ Len(net) \in Nat /\ DOMAIN net = 1..Len(net) /\ Len(sent) \in Nat
      /\ \A j \in DOMAIN net : Num(j) \in Nat
  BY NetIs DEF RelayInv
<1>4. /\ net' \in Seq(Piece) /\ Len(net') = Len(net) + 1
      /\ DOMAIN net' = 1..(Len(net) + 1)
      /\ net'[Len(net) + 1] = new
      /\ \A j \in 1..Len(net) : net'[j] = net[j]
  <2>1. net' = Append(net, new) /\ net \in Seq(Piece)
    BY DEF Part, new, RelayInv, Typed
  <2> QED BY <1>3, <2>1, AppendProperties, LenProperties
<1>u. UNCHANGED <<protocol, sent, closed, started, finished, pending, saw, acc, out,
                  abandoned>>
  BY DEF reader
<1>5. Typed'
  <2>1. half' \in BOOLEAN
    OBVIOUS
  <2> QED BY <1>4, <1>u, <2>1 DEF RelayInv, Typed
<1>6. LinesInv'
  <2>1. CASE part = "head"
    BY <1>1, <1>u, <2>1 DEF LinesInv
  <2>2. CASE part # "head"
    BY <1>1, <1>2, <1>u, <2>2 DEF LinesInv
  <2> QED BY <2>1, <2>2
<1>7. HeadsInv'
  <2> SUFFICES ASSUME NEW i \in DOMAIN net', net'[i].part = "head"
               PROVE  /\ i < Len(net') => net'[i + 1].part = "tail"
                      /\ i = Len(net') => half'
    BY DEF HeadsInv
  <2>1. CASE i = Len(net) + 1
    <3>1. part = "head"
      BY <1>3, <1>4, <2>1
    <3> QED BY <1>4, <1>n, <2>1, <3>1
  <2>2. CASE i = Len(net)
    <3>1. i \in DOMAIN net /\ net[i].part = "head"
      BY <1>4, <1>n, <2>2
    <3>2. half
      BY <1>n, <2>2, <3>1 DEF RelayInv, HeadsInv
    <3> QED BY <1>3, <1>4, <1>n, <2>2, <3>2
  <2>3. CASE i < Len(net)
    <3>1. i \in DOMAIN net /\ net[i].part = "head" /\ i + 1 \in 1..Len(net)
      BY <1>4, <1>n, <2>3
    <3>2. net[i + 1].part = "tail"
      BY <2>3, <3>1 DEF RelayInv, HeadsInv
    <3> QED BY <1>4, <1>n, <2>3, <3>1, <3>2
  <2> QED BY <1>4, <1>n, <2>1, <2>2, <2>3
<1>8. OutInv'
  BY <1>u DEF RelayInv, OutInv, Ordered
<1>9. OrderInv'
  <2>s. ShownIn(out)' = ShownIn(out)
    BY <1>u DEF ShownIn
  <2>o. OrderInv
    BY DEF RelayInv
  <2>1. \A n \in ShownIn(out) : n \in Numbers /\ n < Len(sent) /\ n <= Len(sent)
    BY <1>n, <2>o DEF OrderInv, Numbers
  <2>2. \A j \in DOMAIN net : IsData(j)' = IsData(j) /\ Num(j)' = Num(j)
                              /\ net'[j] = net[j]
    BY <1>4, <1>n DEF IsData, Num
  <2>3. net'[Len(net) + 1].line.what = "data"
            => Len(lines) = 1 /\ net'[Len(net) + 1].line.of.n = Len(sent)
    BY <1>1, <1>2, <1>3, <1>4
  <2> SUFFICES ASSUME NEW j \in DOMAIN net', IsData(j)'
        PROVE  /\ Num(j)' <= Len(sent)
               /\ \A n \in ShownIn(out) : n < Num(j)'
               /\ \A i \in DOMAIN net' : i < j /\ IsData(i)' =>
                     Num(i)' < Num(j)' \/ (j = i + 1 /\ net'[i].part = "head")
               /\ lines' # <<>> =>
                     \/ Num(j)' < Len(sent)
                     \/ j = Len(net') /\ net'[j].part = "head" /\ half' /\ Len(lines') = 1
    BY <1>u, <2>s, <2>1 DEF OrderInv
  <2>4. CASE j \in DOMAIN net
    <3>1. /\ IsData(j) /\ Num(j) <= Len(sent)
          /\ \A n \in ShownIn(out) : n < Num(j)
      BY <2>2, <2>4, <2>o DEF OrderInv
    <3>2. ASSUME NEW i \in DOMAIN net', i < j, IsData(i)'
          PROVE  Num(i)' < Num(j)' \/ (j = i + 1 /\ net'[i].part = "head")
      <4>1. i \in DOMAIN net /\ IsData(i)
        BY <1>4, <1>n, <2>2, <2>4, <3>2
      <4> QED BY <2>2, <2>4, <2>o, <3>1, <3>2, <4>1 DEF OrderInv
    <3>3. ASSUME lines' # <<>> PROVE Num(j) < Len(sent)
      <4>1. ~(j = Len(net) /\ net[j].part = "head" /\ half /\ Len(lines) = 1)
        <5>1. CASE part = "tail"
          BY <1>2, <3>3, <5>1
        <5>2. CASE part # "tail"
          BY <5>2
        <5> QED BY <5>1, <5>2
      <4> QED BY <2>4, <2>o, <3>1, <4>1 DEF OrderInv
    <3> QED BY <2>2, <2>4, <3>1, <3>2, <3>3
  <2>5. CASE j \notin DOMAIN net
    <3>1. j = Len(net) + 1
      BY <1>4, <1>n, <2>5
    <3>2. Len(lines) = 1 /\ Num(j)' = Len(sent)
      BY <2>3, <3>1 DEF IsData, Num
    <3>3. ASSUME NEW i \in DOMAIN net', i < j, IsData(i)'
          PROVE  Num(i)' < Num(j)' \/ (j = i + 1 /\ net'[i].part = "head")
      <4>1. i \in DOMAIN net /\ IsData(i)
        BY <1>4, <1>n, <2>2, <3>1, <3>3
      <4>2. Num(i) < Len(sent) \/ (i = Len(net) /\ net[i].part = "head")
        BY <2>o, <4>1 DEF OrderInv
      <4> QED BY <2>2, <3>1, <3>2, <4>1, <4>2
    <3>4. ASSUME lines' # <<>>
          PROVE  j = Len(net') /\ net'[j].part = "head" /\ half' /\ Len(lines') = 1
      <4>1. part = "head"
        BY <1>2, <3>2, <3>4
      <4> QED BY <1>3, <1>4, <3>1, <3>2, <4>1
    <3> QED BY <1>n, <2>1, <3>2, <3>3, <3>4
  <2> QED BY <2>4, <2>5
<1> QED BY <1>5, <1>6, <1>7, <1>8, <1>9, <1>u DEF RelayInv

(* A line, or the first part of one, is sent. *)
LEMMA SendStep ==
    ASSUME RelayInv, SendLine \/ SendHead
    PROVE  RelayInv'
<1>0. half \in BOOLEAN
  BY DEF RelayInv, Typed
<1>1. CASE SendLine
  <2>1. CASE ~half /\ net' = Part("whole")
    BY <1>1, <2>1, Arrives DEF SendLine, Open
  <2>2. CASE half /\ net' = Part("tail")
    BY <1>1, <2>2, Arrives DEF SendLine, Open
  <2> QED BY <1>1, <2>1, <2>2 DEF SendLine
<1>2. CASE SendHead
  BY <1>2, Arrives DEF SendHead, Open
<1> QED BY <1>1, <1>2

(* The connection ends: nothing of the invariant is lost by it. *)
LEMMA CloseStep ==
    ASSUME RelayInv, Close
    PROVE  RelayInv'
<1>1. /\ closed' = TRUE
      /\ UNCHANGED <<protocol, sent, lines, half, net, started, finished, pending, saw,
                     acc, out, abandoned>>
  BY DEF Close, reader
<1>2. ShownIn(out)' = ShownIn(out)
  BY <1>1 DEF ShownIn
<1>3. OrderInv => OrderInv'
  BY <1>1, <1>2 DEF OrderInv, IsData, Num
<1> QED BY <1>1, <1>3 DEF RelayInv, Typed, LinesInv, HeadsInv, OutInv, Ordered

-------------------------------------------------------------------------------
(* The reader. *)

(* The first k pieces are read. *)
Taken(k) ==
    /\ k \in {1, 2} /\ k <= Len(net)
    /\ net' = IF k = 1 THEN Tail(net) ELSE Tail(Tail(net))
    /\ UNCHANGED <<protocol, upstream>>

(* What is left when one or two pieces are read. *)
LEMMA TakenIs ==
    ASSUME RelayInv, NEW k, Taken(k)
    PROVE  /\ net' \in Seq(Piece) /\ Len(net') = Len(net) - k
           /\ DOMAIN net' = 1..(Len(net) - k)
           /\ \A j \in 1..(Len(net) - k) :
                /\ j + k \in DOMAIN net /\ net'[j] = net[j + k]
                /\ IsData(j)' = IsData(j + k) /\ Num(j)' = Num(j + k)
           /\ HeadsInv'
<1>1. net \in Seq(Piece) /\ Len(net) \in Nat /\ DOMAIN net = 1..Len(net)
  BY NetIs DEF RelayInv, Typed
<1>2. ASSUME NEW q \in Seq(Piece), Len(q) >= 1
      PROVE  /\ Tail(q) \in Seq(Piece) /\ Len(Tail(q)) = Len(q) - 1
             /\ \A j \in 1..(Len(q) - 1) : Tail(q)[j] = q[j + 1]
  <2>1. q # <<>>
    BY <1>2
  <2>2. /\ Tail(q) \in Seq(Piece) /\ Len(Tail(q)) = Len(q) - 1
        /\ \A j \in 1..Len(Tail(q)) : Tail(q)[j] = q[j + 1]
    BY <2>1, HeadTailProperties
  <2> QED BY <2>2
<1>3. /\ net' \in Seq(Piece) /\ Len(net') = Len(net) - k
      /\ \A j \in 1..(Len(net) - k) : net'[j] = net[j + k]
  <2>1. CASE k = 1
    BY <1>1, <1>2, <2>1 DEF Taken
  <2>2. CASE k = 2
    <3> DEFINE r == Tail(net)
    <3>0. Len(net) >= 1
      BY <1>1, <2>2 DEF Taken
    <3>1. /\ r \in Seq(Piece) /\ Len(r) = Len(net) - 1
          /\ \A j \in 1..(Len(net) - 1) : r[j] = net[j + 1]
      BY <1>1, <1>2, <3>0
    <3> HIDE DEF r
    <3>2. Len(net) >= 2
      BY <2>2 DEF Taken
    <3>3. /\ Tail(r) \in Seq(Piece) /\ Len(Tail(r)) = Len(r) - 1
          /\ \A j \in 1..(Len(r) - 1) : Tail(r)[j] = r[j + 1]
      <4>1. Len(r) >= 1
        BY <1>1, <3>1, <3>2
      <4> QED BY <1>2, <3>1, <4>1
    <3>4. net' = Tail(r)
      BY <2>2 DEF Taken, r
    <3>5. ASSUME NEW j \in 1..(Len(net) - 2) PROVE net'[j] = net[j + 2]
      <4>1. j \in 1..(Len(r) - 1) /\ j + 1 \in 1..(Len(net) - 1) /\ (j + 1) + 1 = j + 2
        BY <1>1, <3>1
      <4>2. r[j + 1] = net[(j + 1) + 1]
        BY <3>1, <4>1
      <4> QED BY <3>3, <3>4, <4>1, <4>2
    <3>6. net' \in Seq(Piece) /\ Len(net') = Len(net) - 2
      <4>1. Len(Tail(r)) = (Len(net) - 1) - 1
        BY <3>1, <3>3
      <4>2. (Len(net) - 1) - 1 = Len(net) - 2
        BY <1>1
      <4> QED BY <3>3, <3>4, <4>1, <4>2, Zenon
    <3> QED BY <2>2, <3>5, <3>6
  <2> QED BY <2>1, <2>2 DEF Taken
<1>4. DOMAIN net' = 1..(Len(net) - k)
  BY <1>3, LenProperties
<1>5. k \in Nat /\ k >= 1 /\ k <= Len(net)
  BY DEF Taken
<1>6. ASSUME NEW j \in 1..(Len(net) - k)
      PROVE  /\ j + k \in DOMAIN net /\ net'[j] = net[j + k]
             /\ IsData(j)' = IsData(j + k) /\ Num(j)' = Num(j + k)
  BY <1>1, <1>3, <1>5 DEF IsData, Num
<1>7. HeadsInv'
  <2> SUFFICES ASSUME NEW i \in DOMAIN net', net'[i].part = "head"
               PROVE  /\ i < Len(net') => net'[i + 1].part = "tail"
                      /\ i = Len(net') => half'
    BY DEF HeadsInv
  <2>1. i + k \in DOMAIN net /\ net[i + k].part = "head" /\ i \in 1..(Len(net) - k)
    BY <1>4, <1>6
  <2>2. half' = half
    BY DEF Taken, upstream
  <2>3. /\ i + k < Len(net) => net[i + k + 1].part = "tail"
        /\ i + k = Len(net) => half
    BY <2>1 DEF RelayInv, HeadsInv
  <2>4. ASSUME i < Len(net') PROVE net'[i + 1].part = "tail"
    <3>1. i + 1 \in 1..(Len(net) - k) /\ i + k < Len(net) /\ (i + 1) + k = i + k + 1
      BY <1>1, <1>3, <1>5, <2>1, <2>4
    <3> QED BY <1>6, <2>3, <3>1
  <2>5. ASSUME i = Len(net') PROVE half'
    <3>1. i + k = Len(net)
      BY <1>1, <1>3, <1>5, <2>5
    <3> QED BY <2>2, <2>3, <3>1
  <2> QED BY <2>4, <2>5
<1> QED BY <1>3, <1>4, <1>6, <1>7

(* What is left is in order, and later than what was shown of what was read. *)
LEMMA OrderStays ==
    ASSUME RelayInv, ~finished, NEW k, Taken(k), NEW X,
           ShownIn(out)' \subseteq ShownIn(out) \cup X,
           \A x \in X : /\ x \in Numbers /\ x <= Len(sent)
                        /\ ~closed /\ lines # <<>> => x < Len(sent)
                        /\ \A j \in DOMAIN net : j > k /\ IsData(j) => x < Num(j)
    PROVE  OrderInv'
<1>1. OrderInv
  BY DEF RelayInv
<1>2. UNCHANGED <<sent, lines, half, closed>>
  BY DEF Taken, upstream
<1>3. Len(net) \in Nat /\ DOMAIN net = 1..Len(net) /\ Len(sent) \in Nat
      /\ \A j \in DOMAIN net : Num(j) \in Nat
  BY NetIs DEF RelayInv
<1>4. k \in Nat /\ k >= 1 /\ k <= Len(net)
  BY <1>3 DEF Taken
<1>5. ASSUME NEW n \in ShownIn(out)'
      PROVE  /\ n \in Numbers /\ n <= Len(sent)
             /\ ~closed /\ lines # <<>> => n < Len(sent)
             /\ \A j \in DOMAIN net : j > k /\ IsData(j) => n < Num(j)
  <2>1. CASE n \in ShownIn(out)
    BY <1>1, <2>1 DEF OrderInv
  <2>2. CASE n \in X
    BY <2>2
  <2> QED BY <2>1, <2>2
<1>6. ASSUME NEW j \in DOMAIN net', IsData(j)'
      PROVE  /\ Num(j)' <= Len(sent)
             /\ \A n \in ShownIn(out)' : n < Num(j)'
             /\ \A i \in DOMAIN net' : i < j /\ IsData(i)' =>
                   Num(i)' < Num(j)' \/ (j = i + 1 /\ net'[i].part = "head")
             /\ ~closed /\ lines # <<>> =>
                   \/ Num(j)' < Len(sent)
                   \/ j = Len(net') /\ net'[j].part = "head" /\ half /\ Len(lines) = 1
  <2>1. /\ j \in 1..(Len(net) - k) /\ j + k \in DOMAIN net /\ IsData(j + k)
        /\ Num(j)' = Num(j + k) /\ net'[j] = net[j + k] /\ j + k > k
    BY <1>3, <1>4, <1>6, TakenIs
  <2>2. /\ Num(j + k) <= Len(sent)
        /\ ~closed /\ lines # <<>> =>
              \/ Num(j + k) < Len(sent)
              \/ /\ j + k = Len(net) /\ net[j + k].part = "head"
                 /\ half /\ Len(lines) = 1
    BY <1>1, <2>1 DEF OrderInv
  <2>3. \A n \in ShownIn(out)' : n < Num(j + k)
    BY <1>5, <2>1
  <2>4. ASSUME NEW i \in DOMAIN net', i < j, IsData(i)'
        PROVE  Num(i)' < Num(j)' \/ (j = i + 1 /\ net'[i].part = "head")
    <3>1. /\ i \in 1..(Len(net) - k) /\ i + k \in DOMAIN net /\ IsData(i + k)
          /\ Num(i)' = Num(i + k) /\ net'[i] = net[i + k] /\ i + k < j + k
      BY <1>3, <1>4, <2>1, <2>4, TakenIs
    <3>2. Num(i + k) < Num(j + k) \/ (j + k = (i + k) + 1 /\ net[i + k].part = "head")
      BY <1>1, <2>1, <3>1 DEF OrderInv
    <3>3. j + k = (i + k) + 1 => j = i + 1
      BY <1>4, <2>1, <3>1
    <3> QED BY <2>1, <3>1, <3>2, <3>3
  <2>5. j + k = Len(net) => j = Len(net')
    BY <1>3, <1>4, <2>1, TakenIs
  <2> QED BY <2>1, <2>2, <2>3, <2>4, <2>5
<1> QED BY <1>2, <1>5, <1>6 DEF OrderInv

(* One frame, or none, added to those of a stream that goes on. *)
LEMMA Adding ==
    ASSUME RelayInv, Reading, NEW X, NEW frames,
           \/ frames = <<>>
           \/ \E f \in Frames : /\ frames = <<f>>
                                /\ f.type \notin {"start", "end"}
                                /\ ToSet(f.text) \subseteq X,
           \A n \in ShownIn(out), m \in X : n < m
    PROVE  /\ Ordered(out \o frames)
           /\ ShownIn(out \o frames) \subseteq ShownIn(out) \cup X
           /\ protocol \in Opening => out \o frames # <<>>
<1>1. Ordered(out) /\ (protocol \in Opening => out # <<>>)
  BY DEF RelayInv, OutInv, Reading
<1>2. out \in Seq(Frames)
  BY <1>1 DEF Ordered
<1>3. CASE frames = <<>>
  <2>1. out \o frames = out
    BY <1>2, <1>3
  <2> QED BY <1>1, <2>1
<1>4. CASE frames # <<>>
  <2>1. PICK f \in Frames : /\ frames = <<f>>
                            /\ f.type \notin {"start", "end"}
                            /\ ToSet(f.text) \subseteq X
    BY <1>4
  <2>2. out \o frames = Append(out, f)
    BY <1>2, <2>1
  <2> QED BY <1>1, <2>1, <2>2, OneMore
<1> QED BY <1>3, <1>4

(* The last frame. *)
LEMMA Finished ==
    ASSUME RelayInv, Reading, NEW frames, Ordered(out \o frames),
           protocol \in Opening => out \o frames # <<>>,
           Finish(frames), protocol' = protocol
    PROVE  OutInv'
<1>1. /\ finished' = TRUE /\ started' = started
      /\ out' = out \o frames \o <<Frame("end", acc)>>
  BY DEF Finish
<1>2. acc \in Seq(Numbers) /\ (protocol \in Opening => started)
  BY DEF RelayInv, Typed, Reading
<1> DEFINE o == out \o frames
<1>3. Ordered(o) /\ o \in Seq(Frames) /\ (protocol \in Opening => o # <<>>)
  BY DEF Ordered
<1> HIDE DEF o
<1>4. out' = Append(o, Frame("end", acc)) /\ out' # <<>>
  <2>1. out' = o \o <<Frame("end", acc)>>
    BY <1>1 DEF o
  <2>2. Frame("end", acc) \in Frames
    BY <1>2 DEF Frame, Frames, Types
  <2>3. o \o <<Frame("end", acc)>> = Append(o, Frame("end", acc))
    BY <1>3, <2>2
  <2> QED BY <1>3, <2>1, <2>2, <2>3
<1>5. PICK q : q = o
  OBVIOUS
<1>6. Ordered(q)'
  BY <1>3, <1>5 DEF Ordered
<1>7. out' = Append(q, Frame("end", acc))
  BY <1>4, <1>5
<1>8. protocol' \in Opening => q # <<>>
  BY <1>3, <1>5 DEF Opening
<1> QED BY <1>1, <1>2, <1>4, <1>6, <1>7, <1>8 DEF OutInv, Opening

(* The opening frame. *)
LEMMA StartStep ==
    ASSUME RelayInv, Start
    PROVE  RelayInv'
<1>1. /\ ~started /\ protocol \in Opening /\ started' = TRUE
      /\ out' = Append(out, Frame("start", <<>>))
      /\ UNCHANGED <<protocol, sent, lines, half, closed, net, finished, pending, saw,
                     acc, abandoned>>
  BY DEF Start, upstream
<1>2. out = <<>>
  BY <1>1 DEF RelayInv, OutInv
<1>3. ~finished
  <2> SUFFICES ASSUME finished PROVE FALSE
    OBVIOUS
  <2>1. PICK o, a : Ordered(o) /\ out = Append(o, Frame("end", a))
    BY DEF RelayInv, OutInv
  <2>2. o \in Seq(Frames)
    BY <2>1 DEF Ordered
  <2> QED BY <1>2, <2>1, <2>2
<1> DEFINE f == Frame("start", <<>>)
<1>4. f \in Frames /\ f.type = "start" /\ ToSet(f.text) = {}
  BY DEF Frame, Frames, Types, ToSet
<1> HIDE DEF f
<1>5. out' = <<f>>
  BY <1>1, <1>2 DEF f
<1>6. Ordered(out)' /\ ShownIn(out)' = {}
  <2>1. /\ out' \in Seq(Frames) /\ DOMAIN out' = {1} /\ out'[1] = f
    BY <1>4, <1>5
  <2> QED BY <1>1, <1>4, <2>1 DEF Ordered, ShownIn
<1>7. OutInv'
  BY <1>1, <1>3, <1>5, <1>6 DEF OutInv
<1>8. OrderInv'
  BY <1>1, <1>3, <1>6 DEF RelayInv, OrderInv, IsData, Num
<1>9. Typed' /\ LinesInv' /\ HeadsInv'
  BY <1>1 DEF RelayInv, Typed, LinesInv, HeadsInv
<1> QED BY <1>7, <1>8, <1>9 DEF RelayInv

(* A name is read, or nothing that counts. *)
LEMMA NothingShown ==
    ASSUME RelayInv, Reading, NEW k, Taken(k),
           UNCHANGED <<started, finished, saw, acc, out>>,
           pending' \in Kinds \cup {"none"},
           abandoned' \in BOOLEAN, abandoned' => protocol # "nonstream"
    PROVE  RelayInv'
<1>1. UNCHANGED <<protocol, sent, lines, half, closed>>
  BY DEF Taken, upstream
<1>2. net' \in Seq(Piece) /\ HeadsInv'
  BY TakenIs
<1>3. Typed' /\ LinesInv'
  BY <1>1, <1>2 DEF RelayInv, Typed, LinesInv
<1>4. OutInv'
  BY <1>1 DEF RelayInv, OutInv, Ordered
<1>5. OrderInv'
  <2>1. ShownIn(out)' \subseteq ShownIn(out) \cup {}
    BY DEF ShownIn
  <2>2. ~finished
    BY DEF Reading
  <2> QED BY <2>1, <2>2, OrderStays
<1> QED BY <1>2, <1>3, <1>4, <1>5 DEF RelayInv

(* The stream ends with one frame more, or none. *)
LEMMA Ends ==
    ASSUME RelayInv, Reading, NEW frames, Ordered(out \o frames), Finish(frames),
           protocol \in Opening => out \o frames # <<>>,
           UNCHANGED <<protocol, upstream, abandoned>>,
           net' \in Seq(Piece), HeadsInv'
    PROVE  RelayInv'
<1>1. /\ finished' = TRUE /\ UNCHANGED <<started, pending, saw, acc>>
      /\ UNCHANGED <<sent, lines, half, closed>>
  BY DEF Finish, upstream
<1>2. Typed' /\ LinesInv'
  BY <1>1 DEF RelayInv, Typed, LinesInv
<1>3. OutInv'
  BY Finished
<1> QED BY <1>1, <1>2, <1>3 DEF RelayInv

(* A name or a data line is read, in one piece or two. *)
LEMMA LineStep ==
    ASSUME RelayInv, Reading, NEW k, Taken(k), abandoned' = abandoned,
           \/ k = 1 /\ (net[1].part = "whole" \/ (Len(net) = 1 /\ closed))
           \/ k = 2 /\ net[1].part = "head",
           NameLine(net[1].line) \/ DataLine(net[1].line)
    PROVE  RelayInv'
<1>1. /\ UNCHANGED <<protocol, upstream, sent, lines, half, closed>>
      /\ ~finished /\ k \in {1, 2} /\ k <= Len(net)
  BY DEF Taken, upstream, Reading
<1>2. net' \in Seq(Piece) /\ HeadsInv'
  BY TakenIs
<1>3. /\ 1 \in DOMAIN net /\ Len(net) \in Nat
      /\ net[1].line.of \in Event /\ net[1].line.of.kind \in Kinds
      /\ Num(1) \in Numbers /\ Num(1) \in Nat
  <2>1. Len(net) \in Nat /\ DOMAIN net = 1..Len(net)
    BY NetIs DEF RelayInv
  <2>2. 1 \in DOMAIN net
    BY <1>1, <2>1
  <2> QED BY <2>1, <2>2, NetIs DEF RelayInv
<1>t. /\ abandoned \in BOOLEAN /\ (abandoned => protocol # "nonstream")
      /\ protocol \in Protocols /\ saw \in BOOLEAN /\ acc \in Seq(Numbers)
  BY DEF RelayInv, Typed
<1>4. CASE NameLine(net[1].line)
  BY <1>3, <1>4, <1>t, NothingShown DEF NameLine
<1>5. CASE DataLine(net[1].line)
  <2> DEFINE e == net[1].line.of
             frames == Shown(pending, e)
  <2>1. IsData(1) /\ e \in Event /\ e.n = Num(1)
    BY <1>3, <1>5 DEF DataLine, IsData, Num
  <2>2. /\ Num(1) <= Len(sent) /\ \A n \in ShownIn(out) : n < Num(1)
        /\ ~closed /\ lines # <<>> => Num(1) < Len(sent)
    <3>1. OrderInv
      BY <1>1 DEF RelayInv
    <3>2. /\ Num(1) <= Len(sent) /\ \A n \in ShownIn(out) : n < Num(1)
          /\ ~closed /\ lines # <<>> =>
                Num(1) < Len(sent) \/ (1 = Len(net) /\ net[1].part = "head")
      BY <1>3, <2>1, <3>1 DEF OrderInv
    <3>3. ASSUME ~closed, 1 = Len(net), net[1].part = "head" PROVE FALSE
      <4>1. k = 1
        <5>1. k \in {1, 2} /\ k <= 1
          BY <1>1, <3>3, Zenon
        <5> QED BY <5>1
      <4>2. net[1].part = "whole" \/ closed
        BY <4>1
      <4>3. "whole" # "head"
        OBVIOUS
      <4> QED BY <3>3, <4>2, <4>3, Zenon
    <3> QED BY <3>2, <3>3
  <2>3. ASSUME NEW j \in DOMAIN net, j > k, IsData(j) PROVE Num(1) < Num(j)
    <3>1. OrderInv /\ DOMAIN net = 1..Len(net)
      BY <1>1, NetIs DEF RelayInv
    <3>2. j \in Nat /\ 1 < j
      BY <1>1, <1>3, <2>3, <3>1
    <3>3. Num(1) < Num(j) \/ (j = 1 + 1 /\ net[1].part = "head")
      BY <1>3, <2>1, <2>3, <3>1, <3>2 DEF OrderInv
    <3>4. ~(j = 1 + 1 /\ net[1].part = "head")
      <4>1. CASE k = 2
        BY <2>3, <3>2, <4>1
      <4>2. CASE k = 1 /\ net[1].part = "whole"
        BY <4>2
      <4>3. CASE k = 1 /\ Len(net) = 1
        BY <1>3, <3>1, <3>2, <2>3, <4>3
      <4> QED BY <1>1, <4>1, <4>2, <4>3
    <3> QED BY <3>3, <3>4
  <2> HIDE DEF e, frames
  <2>4. \/ frames = <<>>
        \/ \E f \in Frames : /\ frames = <<f>>
                             /\ f.type \notin {"start", "end"}
                             /\ ToSet(f.text) \subseteq {Num(1)}
    BY <1>t, <2>1, ShownIs DEF frames
  <2>5. /\ Ordered(out \o frames)
        /\ ShownIn(out \o frames) \subseteq ShownIn(out) \cup {Num(1)}
        /\ protocol \in Opening => out \o frames # <<>>
    <3>1. \A n \in ShownIn(out), m \in {Num(1)} : n < m
      BY <2>2
    <3> QED BY <2>4, <3>1, Adding
  <2>6. CASE Finish(frames)
    BY <1>1, <1>2, <2>5, <2>6, Ends
  <2>7. CASE /\ out' = out \o frames
             /\ acc' = acc \o Collected(pending, e)
             /\ saw' = (saw \/ (pending = "chunk" /\ Delta(e) # <<>>))
             /\ UNCHANGED <<started, finished, pending>>
    <3>1. acc' \in Seq(Numbers)
      <4>1. Collected(pending, e) \in {<<>>, <<Num(1)>>}
        BY <2>1 DEF Collected, Delta
      <4>2. Collected(pending, e) \in Seq(Numbers)
        <5>1. <<>> \in Seq(Numbers) /\ <<Num(1)>> \in Seq(Numbers)
          BY <1>3
        <5> QED BY <4>1, <5>1
      <4> QED BY <1>t, <2>7, <4>2, ConcatProperties
    <3>2. saw' \in BOOLEAN
      BY <2>7, Zenon
    <3>3. Typed' /\ LinesInv'
      BY <1>1, <1>2, <1>t, <2>7, <3>1, <3>2 DEF RelayInv, Typed, LinesInv
    <3>4. OutInv'
      <4>1. Ordered(out)'
        BY <1>1, <2>5, <2>7 DEF Ordered
      <4>2. protocol \in Opening => started /\ out' # <<>>
        BY <2>5, <2>7 DEF Reading
      <4> QED BY <1>1, <2>7, <4>1, <4>2 DEF OutInv
    <3>5. ShownIn(out)' \subseteq ShownIn(out) \cup {Num(1)}
      BY <2>5, <2>7 DEF ShownIn
    <3>6. OrderInv'
      <4>1. \A x \in {Num(1)} :
              /\ x \in Numbers /\ x <= Len(sent)
              /\ ~closed /\ lines # <<>> => x < Len(sent)
              /\ \A j \in DOMAIN net : j > k /\ IsData(j) => x < Num(j)
        BY <1>3, <2>2, <2>3
      <4>2. ~finished /\ RelayInv /\ Taken(k)
        BY <1>1
      <4>3. PICK X : X = {Num(1)}
        OBVIOUS
      <4>4. /\ ShownIn(out)' \subseteq ShownIn(out) \cup X
            /\ \A x \in X : /\ x \in Numbers /\ x <= Len(sent)
                            /\ ~closed /\ lines # <<>> => x < Len(sent)
                            /\ \A j \in DOMAIN net : j > k /\ IsData(j) => x < Num(j)
        BY <3>5, <4>1, <4>3, Zenon
      <4> QED BY <4>2, <4>4, OrderStays
    <3> QED BY <1>2, <3>3, <3>4, <3>6 DEF RelayInv
  <2> QED BY <1>5, <2>6, <2>7 DEF DataLine, e, frames
<1> QED BY <1>4, <1>5

(* The reader takes a line, a part of one, or the end. *)
LEMMA ReadStep ==
    ASSUME RelayInv, Read
    PROVE  RelayInv'
<1>1. /\ net \in Seq(Piece) /\ Len(net) \in Nat /\ DOMAIN net = 1..Len(net)
      /\ abandoned \in BOOLEAN /\ (abandoned => protocol # "nonstream")
      /\ pending \in Kinds \cup {"none"} /\ HeadsInv
  BY NetIs DEF RelayInv, Typed
<1>2. net # <<>> => /\ Len(net) >= 1 /\ 1 \in DOMAIN net /\ Head(net) = net[1]
                    /\ net[1].part \in {"whole", "head", "tail"}
  <2> SUFFICES ASSUME net # <<>>
               PROVE  /\ Len(net) >= 1 /\ 1 \in DOMAIN net /\ Head(net) = net[1]
                      /\ net[1].part \in {"whole", "head", "tail"}
    OBVIOUS
  <2>1. Len(net) >= 1 /\ 1 \in DOMAIN net /\ Head(net) = net[1]
    BY <1>1
  <2>2. net[1] \in Piece
    BY <1>1, <2>1
  <2> QED BY <2>1, <2>2 DEF Piece
<1>3. Len(net) = 1 => Tail(net) = <<>>
  <2> SUFFICES ASSUME Len(net) = 1 PROVE Tail(net) = <<>>
    OBVIOUS
  <2>1. net # <<>>
    BY <1>1
  <2>2. Tail(net) \in Seq(Piece) /\ Len(Tail(net)) = 0
    BY <1>1, <2>1, HeadTailProperties
  <2> QED BY <2>2, EmptySeq
<1>4. CASE Start
  BY <1>4, StartStep
<1>5. CASE ReadLine
  <2>1. /\ Reading /\ net # <<>>
        /\ NameLine(net[1].line) \/ DataLine(net[1].line)
        /\ UNCHANGED <<protocol, upstream, abandoned>>
    BY <1>2, <1>5 DEF ReadLine
  <2>2. CASE net[1].part = "whole" /\ net' = Tail(net)
    <3>1. Taken(1)
      BY <1>1, <1>2, <2>1, <2>2 DEF Taken
    <3> QED BY <2>1, <2>2, <3>1, LineStep
  <2>3. CASE net[1].part = "head" /\ Len(net) > 1 /\ net' = Tail(Tail(net))
    <3>1. Taken(2)
      BY <1>1, <2>1, <2>3 DEF Taken
    <3> QED BY <2>1, <2>3, <3>1, LineStep
  <2>4. CASE net[1].part = "head" /\ Len(net) = 1 /\ closed /\ net' = <<>>
    <3>1. Taken(1)
      BY <1>3, <2>1, <2>4 DEF Taken
    <3> QED BY <2>1, <2>4, <3>1, LineStep
  <2> QED BY <1>2, <1>5, <2>1, <2>2, <2>3, <2>4 DEF ReadLine
<1>6. CASE Abandon
  <2>1. /\ Reading /\ protocol # "nonstream" /\ Len(net) = 1 /\ net' = <<>>
        /\ abandoned' = TRUE
        /\ UNCHANGED <<protocol, upstream, started, finished, pending, saw, acc, out>>
    BY <1>6 DEF Abandon, reader
  <2>2. Taken(1)
    BY <1>3, <2>1 DEF Taken
  <2> QED BY <1>1, <2>1, <2>2, NothingShown
<1>7. CASE ReadRest
  <2>1. /\ Reading /\ net # <<>> /\ net' = Tail(net)
        /\ UNCHANGED <<protocol, upstream, abandoned>>
    BY <1>7 DEF ReadRest
  <2>2. Taken(1)
    BY <1>1, <1>2, <2>1 DEF Taken
  <2>3. CASE UNCHANGED reader
    BY <1>1, <2>1, <2>2, <2>3, NothingShown DEF reader
  <2>4. CASE Finish(<<>>)
    <3>1. Ordered(out \o <<>>) /\ (protocol \in Opening => out \o <<>> # <<>>)
      <4>1. Ordered(out) /\ out \in Seq(Frames) /\ (protocol \in Opening => out # <<>>)
        BY <2>1 DEF RelayInv, OutInv, Reading, Ordered
      <4>2. out \o <<>> = out
        BY <4>1
      <4> QED BY <4>1, <4>2
    <3> QED BY <2>1, <2>2, <2>4, <3>1, TakenIs, Ends
  <2> QED BY <1>7, <2>3, <2>4 DEF ReadRest
<1>8. CASE ReadEnd
  <2> DEFINE frames == IF protocol = "openai" /\ ~saw THEN <<Frame("empty", <<>>)>>
                       ELSE <<>>
  <2>1. /\ Reading /\ Finish(frames)
        /\ UNCHANGED <<protocol, upstream, net, abandoned>>
    BY <1>8 DEF ReadEnd
  <2> HIDE DEF frames
  <2>2. Ordered(out) /\ out \in Seq(Frames) /\ (protocol \in Opening => out # <<>>)
    BY <2>1 DEF RelayInv, OutInv, Reading, Ordered
  <2>3. Ordered(out \o frames) /\ (protocol \in Opening => out \o frames # <<>>)
    <3>1. CASE frames = <<>>
      <4>1. out \o frames = out
        BY <2>2, <3>1
      <4> QED BY <2>2, <4>1
    <3>2. CASE frames = <<Frame("empty", <<>>)>>
      <4>1. /\ Frame("empty", <<>>) \in Frames /\ Frame("empty", <<>>).type = "empty"
            /\ ToSet(Frame("empty", <<>>).text) = {}
        BY DEF Frame, Frames, Types, ToSet
      <4>2. out \o frames = Append(out, Frame("empty", <<>>))
        BY <2>2, <3>2, <4>1
      <4>3. \A n \in ShownIn(out), m \in ToSet(Frame("empty", <<>>).text) : n < m
        BY <4>1
      <4>4. Frame("empty", <<>>).type \notin {"start", "end"}
        BY <4>1
      <4>5. /\ Ordered(Append(out, Frame("empty", <<>>)))
            /\ Append(out, Frame("empty", <<>>)) # <<>>
        BY <2>2, <4>1, <4>3, <4>4, OneMore
      <4> QED BY <4>2, <4>5
    <3> QED BY <3>1, <3>2 DEF frames
  <2>4. net' \in Seq(Piece) /\ HeadsInv'
    BY <1>1, <2>1 DEF HeadsInv, upstream
  <2> QED BY <2>1, <2>3, <2>4, Ends
<1> QED BY <1>4, <1>5, <1>6, <1>7, <1>8 DEF Read

LEMMA RelayStep ==
    ASSUME RelayInv, [Next]_vars
    PROVE  RelayInv'
<1>1. ASSUME NEW e \in Event, SendEvent(e) PROVE RelayInv'
  BY <1>1, SendEventStep
<1>2. CASE UNCHANGED vars
  <2>1. UNCHANGED <<protocol, sent, lines, half, closed, net, started, finished, pending,
                    saw, acc, out, abandoned>>
    BY <1>2 DEF vars, upstream, reader
  <2>2. Typed' /\ LinesInv' /\ HeadsInv'
    BY <2>1 DEF RelayInv, Typed, LinesInv, HeadsInv
  <2>3. OutInv'
    BY <2>1 DEF RelayInv, OutInv, Ordered
  <2>4. ShownIn(out)' = ShownIn(out)
    BY <2>1 DEF ShownIn
  <2>5. OrderInv => OrderInv'
    BY <2>1, <2>4 DEF OrderInv, IsData, Num
  <2> QED BY <2>1, <2>2, <2>3, <2>5 DEF RelayInv
<1> QED BY <1>1, <1>2, SendStep, CloseStep, ReadStep DEF Next

LEMMA RelayHolds == Spec => []RelayInv
<1>1. Init => RelayInv
  BY InitRelay
<1>2. RelayInv /\ [Next]_vars => RelayInv'
  BY RelayStep
<1> QED BY <1>1, <1>2, PTL DEF Spec

(* The types, and the order of the frames. *)
LEMMA RelayIsTyped ==
    ASSUME RelayInv
    PROVE  TypeOK
<1>t. Typed /\ LinesInv /\ HeadsInv
  BY DEF RelayInv
<1>1. {half, closed, started, finished, saw, abandoned} \subseteq BOOLEAN
  BY <1>t DEF Typed
<1>2. Len(lines) <= 2 /\ (half => lines # <<>>)
  <2>1. CASE lines = <<>>
    BY <1>t, <2>1 DEF LinesInv
  <2>2. CASE lines # <<>>
    <3>1. PICK e \in Event :
            \/ lines = <<[what |-> "event", of |-> e], [what |-> "data", of |-> e]>>
            \/ lines = <<[what |-> "data", of |-> e]>>
      BY <1>t, <2>2 DEF LinesInv
    <3>2. Len(lines) \in {1, 2}
      BY <3>1
    <3> QED BY <2>2, <3>2
  <2> QED BY <2>1, <2>2
<1>3. \A i \in DOMAIN net : net[i].part = "head" /\ i < Len(net)
                              => net[i + 1].part = "tail"
  BY <1>t DEF HeadsInv
<1>4. finished <=> out # <<>> /\ Last(out).type = "end"
  <2>1. CASE finished
    <3>1. PICK o, a : Ordered(o) /\ a \in Seq(Numbers) /\ out = Append(o, Frame("end", a))
      BY <2>1 DEF RelayInv, OutInv
    <3>2. o \in Seq(Frames) /\ Frame("end", a) \in Frames /\ Frame("end", a).type = "end"
      BY <3>1 DEF Ordered, Frame, Frames, Types
    <3>3. Len(out) = Len(o) + 1 /\ out[Len(o) + 1] = Frame("end", a) /\ out # <<>>
      BY <3>1, <3>2, AppendProperties
    <3>4. Last(out) = Frame("end", a)
      BY <3>3 DEF Last
    <3> QED BY <2>1, <3>2, <3>3, <3>4
  <2>2. CASE ~finished
    <3>1. Ordered(out) /\ out \in Seq(Frames)
      BY <2>2 DEF RelayInv, OutInv, Ordered
    <3>2. ASSUME out # <<>> PROVE Last(out).type # "end"
      <4>1. Len(out) \in DOMAIN out
        BY <3>1, <3>2
      <4> QED BY <3>1, <4>1 DEF Ordered, Last
    <3> QED BY <2>2, <3>2
  <2> QED BY <1>t, <2>1, <2>2 DEF Typed
<1> QED BY <1>t, <1>1, <1>2, <1>3, <1>4 DEF TypeOK, Typed, Numbers

LEMMA RelayIsOrdered ==
    ASSUME RelayInv
    PROVE  FramesInOrder
<1>1. CASE ~finished
  <2>1. Ordered(out)
    BY <1>1 DEF RelayInv, OutInv
  <2> QED BY <2>1 DEF Ordered, FramesInOrder
<1>2. CASE finished
  <2>1. PICK o, a : /\ Ordered(o) /\ a \in Seq(Numbers) /\ out = Append(o, Frame("end", a))
                    /\ protocol \in Opening => o # <<>>
    BY <1>2 DEF RelayInv, OutInv
  <2> DEFINE f == Frame("end", a)
  <2>2. o \in Seq(Frames) /\ f \in Frames /\ f.type = "end"
    BY <2>1 DEF Ordered, Frame, Frames, Types
  <2>3. out = Append(o, f)
    BY <2>1
  <2> HIDE DEF f
  <2>4. /\ Len(o) \in Nat /\ DOMAIN o = 1..Len(o)
        /\ Len(out) = Len(o) + 1 /\ DOMAIN out = 1..(Len(o) + 1)
        /\ out[Len(o) + 1] = f
        /\ \A i \in 1..Len(o) : out[i] = o[i]
    BY <2>2, <2>3, AppendProperties, LenProperties
  <2>5. protocol \in Opening => Len(o) > 0
    BY <2>1, <2>2, <2>4
  <2>6. ASSUME NEW i \in DOMAIN out
        PROVE  /\ out[i].type = "end" => i = Len(out)
               /\ out[i].type = "start" <=> i = 1 /\ protocol \in Opening
    <3>1. CASE i \in DOMAIN o
      BY <2>1, <2>4, <3>1 DEF Ordered
    <3>2. CASE i \notin DOMAIN o
      BY <2>2, <2>4, <2>5, <3>2
    <3> QED BY <3>1, <3>2
  <2>7. ASSUME NEW i \in DOMAIN out, NEW j \in DOMAIN out, i < j, out[j].type # "end",
               NEW n \in ToSet(out[i].text), NEW m \in ToSet(out[j].text)
        PROVE  n < m
    <3>1. j \in DOMAIN o /\ i \in DOMAIN o /\ out[i] = o[i] /\ out[j] = o[j]
      BY <2>2, <2>4, <2>7
    <3> QED BY <2>1, <2>7, <3>1 DEF Ordered
  <2> QED BY <2>6, <2>7 DEF FramesInOrder
<1> QED BY <1>1, <1>2

(* The state of the relay has its types, a stream is finished exactly when    *)
(* its last frame is sent, and the collector never leaves a line.            *)
THEOREM RelayTypes == Spec => []TypeOK
<1>1. RelayInv => TypeOK
  BY RelayIsTyped
<1> QED BY <1>1, RelayHolds, PTL

(* However the lines are split and whatever is abandoned, the client gets the *)
(* opening frame first, the end once and last, and between them the events in *)
(* the upstream's order, none twice.                                         *)
THEOREM FramesKeepOrder == Spec => []FramesInOrder
<1>1. RelayInv => FramesInOrder
  BY RelayIsOrdered
<1> QED BY <1>1, RelayHolds, PTL

-------------------------------------------------------------------------------
(* Pieces of text, one after the other. *)

(* A set of numbers has a least one. *)
LEMMA Least ==
    ASSUME NEW T, T \subseteq Nat, T # {}
    PROVE  \E m \in T : \A n \in T : m <= n
<1> DEFINE R == OpToRel(<, Nat)
<1>1. \E m \in T : \A n \in T : ~ (<<n, m>> \in R)
  <2> HIDE DEF R
  <2>1. IsWellFoundedOn(R, Nat)
    BY NatLessThanWellFounded DEF R
  <2> QED BY <2>1, WFMin
<1>2. PICK m \in T : \A n \in T : ~ (<<n, m>> \in R)
  BY <1>1
<1>3. ASSUME NEW n \in T PROVE m <= n
  <2>1. m \in Nat /\ n \in Nat /\ ~ (<<n, m>> \in R)
    BY <1>2
  <2>2. ~ (n < m)
    BY <2>1 DEF OpToRel
  <2> HIDE DEF R
  <2> QED BY <2>1, <2>2
<1> QED BY <1>3

(* A set that holds 0 and, up to n, the successor of what it holds, holds all *)
(* numbers up to n.                                                          *)
LEMMA Counting ==
    ASSUME NEW S, NEW n \in Nat, 0 \in S, \A i \in 1..n : i - 1 \in S => i \in S
    PROVE  0..n \subseteq S
<1> DEFINE T == {i \in 0..n : i \notin S}
<1> SUFFICES ASSUME T # {} PROVE FALSE
  OBVIOUS
<1>1. PICK m \in T : \A i \in T : m <= i
  <2>1. T \subseteq Nat
    OBVIOUS
  <2> HIDE DEF T
  <2> QED BY <2>1, Least
<1>2. m \in 1..n /\ m - 1 \in 0..n /\ m - 1 \notin T
  BY <1>1
<1> QED BY <1>1, <1>2

-------------------------------------------------------------------------------
(* What is made of a sequence of sequences, piece by piece. *)
Flattening(f, s, n) ==
    f = [i \in 1..n |-> IF i = 1 THEN s[i] ELSE f[i - 1] \o s[i]]

LEMMA FlatteningExists ==
    ASSUME NEW s, NEW n \in Nat
    PROVE  \E f : Flattening(f, s, n)
<1> DEFINE S == {k \in Nat : \E f : Flattening(f, s, k)}
<1>1. 0 \in S
  <2> DEFINE f == [i \in 1..0 |-> <<>>]
  <2>1. f = [i \in 1..0 |-> IF i = 1 THEN s[i] ELSE f[i - 1] \o s[i]]
    OBVIOUS
  <2> HIDE DEF f
  <2> QED BY <2>1 DEF Flattening
<1>2. ASSUME NEW k \in 1..n, k - 1 \in S PROVE k \in S
  <2>1. PICK f : Flattening(f, s, k - 1)
    BY <1>2
  <2> DEFINE last == IF k = 1 THEN s[k] ELSE f[k - 1] \o s[k]
             g == [i \in 1..k |-> IF i = k THEN last ELSE f[i]]
  <2>2. ASSUME NEW i \in 1..k
        PROVE  g[i] = IF i = 1 THEN s[i] ELSE g[i - 1] \o s[i]
    <3>1. CASE i = k
      <4>1. i # 1 => g[i - 1] = f[k - 1]
        BY <3>1
      <4>2. g[i] = last
        BY <3>1
      <4> QED BY <3>1, <4>1, <4>2
    <3>2. CASE i # k
      <4>1. i \in 1..(k - 1) /\ g[i] = f[i]
        BY <3>2
      <4>2. f[i] = IF i = 1 THEN s[i] ELSE f[i - 1] \o s[i]
        BY <2>1, <4>1 DEF Flattening
      <4>3. i # 1 => g[i - 1] = f[i - 1]
        BY <3>2
      <4> QED BY <4>1, <4>2, <4>3
    <3> QED BY <3>1, <3>2
  <2>3. g = [i \in 1..k |-> IF i = 1 THEN s[i] ELSE g[i - 1] \o s[i]]
    <3>1. g = [i \in 1..k |-> g[i]]
      OBVIOUS
    <3> HIDE DEF g
    <3> QED BY <2>2, <3>1
  <2> HIDE DEF g
  <2>4. \E h : Flattening(h, s, k)
    BY <2>3 DEF Flattening
  <2>5. k \in Nat
    OBVIOUS
  <2> QED BY <2>4, <2>5
<1>3. 0..n \subseteq S
  <2> HIDE DEF S
  <2> QED BY <1>1, <1>2, Counting
<1> QED BY <1>3

LEMMA FlattenIs ==
    ASSUME NEW s, Len(s) \in Nat \ {0}
    PROVE  \E f : /\ FlattenSeq(s) = f[Len(s)]
                  /\ f[1] = s[1]
                  /\ \A i \in 2..Len(s) : f[i] = f[i - 1] \o s[i]
<1> DEFINE n == Len(s)
           f == CHOOSE f : f = [i \in 1..n |-> IF i = 1 THEN s[i] ELSE f[i - 1] \o s[i]]
<1>1. FlattenSeq(s) = f[n]
  BY DEF FlattenSeq
<1>2. Flattening(f, s, n)
  <2>1. \E g : Flattening(g, s, n)
    BY FlatteningExists
  <2> QED BY <2>1 DEF Flattening
<1> HIDE DEF f
<1>3. f[1] = s[1]
  <2>1. 1 \in 1..n
    OBVIOUS
  <2> QED BY <1>2, <2>1 DEF Flattening
<1>4. ASSUME NEW i \in 2..n PROVE f[i] = f[i - 1] \o s[i]
  <2>1. i \in 1..n /\ i # 1
    OBVIOUS
  <2> QED BY <1>2, <2>1 DEF Flattening
<1> QED BY <1>1, <1>3, <1>4

(* A sequence more adds its own at the end. *)
LEMMA FlattenMore ==
    ASSUME NEW T, NEW s \in Seq(Seq(T)), NEW x \in Seq(T)
    PROVE  /\ FlattenSeq(s) \in Seq(T)
           /\ FlattenSeq(Append(s, x)) = FlattenSeq(s) \o x
<1> DEFINE n == Len(s)
<1>1. n \in Nat /\ DOMAIN s = 1..n /\ \A i \in 1..n : s[i] \in Seq(T)
  BY LenProperties, ElementOfSeq
<1>2. PICK p : p = Append(s, x)
  OBVIOUS
<1>3. /\ Len(p) = n + 1 /\ p[n + 1] = x /\ \A i \in 1..n : p[i] = s[i]
  BY <1>2, AppendProperties
<1>4. PICK g : /\ FlattenSeq(p) = g[n + 1] /\ g[1] = p[1]
               /\ \A i \in 2..(n + 1) : g[i] = g[i - 1] \o p[i]
  <2>1. Len(p) \in Nat \ {0} /\ Len(p) = n + 1
    BY <1>1, <1>3
  <2> HIDE DEF n
  <2>2. \E g : /\ FlattenSeq(p) = g[Len(p)] /\ g[1] = p[1]
               /\ \A i \in 2..Len(p) : g[i] = g[i - 1] \o p[i]
    BY <2>1, FlattenIs
  <2> QED BY <2>1, <2>2
<1>5. CASE n = 0
  <2>1. FlattenSeq(s) = s /\ s = <<>>
    BY <1>5, EmptySeq DEF FlattenSeq
  <2>2. FlattenSeq(p) = x
    BY <1>3, <1>4, <1>5
  <2>3. <<>> \o x = x /\ <<>> \in Seq(T)
    BY ConcatEmptySeq
  <2> QED BY <1>2, <2>1, <2>2, <2>3
<1>6. CASE n # 0
  <2>1. PICK f : /\ FlattenSeq(s) = f[n] /\ f[1] = s[1]
                 /\ \A i \in 2..n : f[i] = f[i - 1] \o s[i]
    <3>1. Len(s) \in Nat \ {0}
      BY <1>1, <1>6
    <3> QED BY <3>1, FlattenIs
  <2> HIDE DEF n
  <2> DEFINE S == {i \in 0..n : i # 0 => f[i] \in Seq(T) /\ g[i] = f[i]}
  <2>2. 0 \in S
    BY <1>1
  <2>3. ASSUME NEW i \in 1..n, i - 1 \in S PROVE i \in S
    <3>0. \A m \in 0..n : f[m] \in Seq(T) /\ g[m] = f[m] => m \in S
      OBVIOUS
    <3>i. i \in 0..n
      OBVIOUS
    <3>1. CASE i = 1
      <4>1. s[1] \in Seq(T) /\ p[1] = s[1]
        BY <1>1, <1>3, <3>1
      <4>2. f[1] \in Seq(T) /\ g[1] = f[1]
        BY <1>4, <2>1, <4>1
      <4> QED BY <3>0, <3>i, <3>1, <4>2
    <3>2. CASE i # 1
      <4>1. i \in 2..n /\ i \in 2..(n + 1) /\ i - 1 # 0
        BY <1>1, <3>2
      <4>2. f[i - 1] \in Seq(T) /\ g[i - 1] = f[i - 1]
        BY <2>3, <4>1
      <4>3. f[i] = f[i - 1] \o s[i] /\ g[i] = g[i - 1] \o s[i]
        BY <1>3, <1>4, <2>1, <4>1
      <4>4. f[i] \in Seq(T)
        BY <1>1, <4>2, <4>3, ConcatProperties
      <4>5. g[i] = f[i]
        BY <4>2, <4>3
      <4> HIDE DEF S
      <4> QED BY <3>0, <3>i, <4>4, <4>5
    <3> QED BY <3>1, <3>2
  <2>4. n \in S
    <3>1. 0..n \subseteq S
      <4> HIDE DEF S
      <4> QED BY <1>1, <2>2, <2>3, Counting
    <3> HIDE DEF S
    <3> QED BY <1>1, <3>1
  <2>5. f[n] \in Seq(T) /\ g[n] = f[n]
    BY <1>6, <2>4
  <2>6. g[n + 1] = g[n] \o x
    <3>1. n + 1 \in 2..(n + 1) /\ (n + 1) - 1 = n
      BY <1>1, <1>6
    <3> QED BY <1>3, <1>4, <3>1
  <2> QED BY <1>2, <1>4, <2>1, <2>5, <2>6
<1> QED BY <1>5, <1>6

(* What a sequence begins with. *)
LEMMA PrefixIs ==
    ASSUME NEW T, NEW s \in Seq(T), NEW x \in Seq(T)
    PROVE  IsPrefix(s, s) /\ IsPrefix(s, s \o x)
<1>1. Len(s) \in Nat /\ Len(x) \in Nat
  BY LenProperties
<1>2. IsPrefix(s, s)
  BY <1>1 DEF IsPrefix
<1>3. SubSeq(s \o x, 1, Len(s)) = SubSeq(s, 1, Len(s))
  <2>1. PICK t : t = s \o x
    OBVIOUS
  <2>2. /\ t \in Seq(T) /\ Len(t) = Len(s) + Len(x)
        /\ \A i \in 1..Len(s) : t[i] = s[i]
    BY <1>1, <2>1, ConcatProperties
  <2>3. SubSeq(t, 1, Len(s)) = s /\ SubSeq(s, 1, Len(s)) = s
    BY <1>1, <2>2
  <2> QED BY <2>1, <2>3
<1>4. Len(s) <= Len(s \o x)
  BY <1>1, ConcatProperties
<1> QED BY <1>2, <1>3, <1>4 DEF IsPrefix

-------------------------------------------------------------------------------
(* What frames show of one type, and what events say of one kind. *)

ShowsIn(o, type) ==
    FlattenSeq([i \in DOMAIN o |-> IF o[i].type = type THEN o[i].text ELSE <<>>])

(* The same for a sequence that is one longer, wherever the pieces are from. *)
LEMMA OneLonger ==
    ASSUME NEW T, NEW s \in Seq(Seq(T)), NEW x \in Seq(T), NEW t \in Seq(Seq(T)),
           Len(t) = Len(s) + 1, t[Len(s) + 1] = x,
           \A i \in 1..Len(s) : t[i] = s[i]
    PROVE  FlattenSeq(s) \in Seq(T) /\ FlattenSeq(t) = FlattenSeq(s) \o x
<1>1. PICK p : p = Append(s, x)
  OBVIOUS
<1>2. /\ p \in Seq(Seq(T)) /\ Len(p) = Len(s) + 1 /\ p[Len(s) + 1] = x
      /\ \A i \in 1..Len(s) : p[i] = s[i]
  BY <1>1, AppendProperties
<1>3. ASSUME NEW i \in 1..Len(t) PROVE t[i] = p[i]
  <2>1. Len(s) \in Nat
    BY LenProperties
  <2>2. i \in 1..Len(s) \/ i = Len(s) + 1
    BY <2>1
  <2> QED BY <1>2, <2>2
<1>4. t = p
  BY <1>2, <1>3, SeqEqual
<1> QED BY <1>1, <1>4, FlattenMore

LEMMA DeltaIs ==
    ASSUME NEW e \in Event
    PROVE  <<>> \in Seq(Numbers) /\ Delta(e) \in Seq(Numbers)
<1>1. e.n \in Numbers
  BY DEF Event, Numbers
<1>2. <<>> \in Seq(Numbers) /\ <<e.n>> \in Seq(Numbers)
  BY <1>1
<1>3. Delta(e) = <<>> \/ Delta(e) = <<e.n>>
  BY DEF Delta
<1> QED BY <1>2, <1>3

LEMMA ShowsMore ==
    ASSUME NEW o \in Seq(Frames), NEW f \in Frames, NEW type
    PROVE  /\ ShowsIn(o, type) \in Seq(Numbers)
           /\ ShowsIn(Append(o, f), type)
                = ShowsIn(o, type) \o (IF f.type = type THEN f.text ELSE <<>>)
<1> DEFINE p == Append(o, f)
           s == [i \in DOMAIN o |-> IF o[i].type = type THEN o[i].text ELSE <<>>]
           t == [i \in DOMAIN p |-> IF p[i].type = type THEN p[i].text ELSE <<>>]
           x == IF f.type = type THEN f.text ELSE <<>>
<1>1. /\ Len(o) \in Nat /\ DOMAIN o = 1..Len(o)
      /\ p \in Seq(Frames) /\ Len(p) = Len(o) + 1 /\ DOMAIN p = 1..(Len(o) + 1)
      /\ p[Len(o) + 1] = f /\ \A i \in 1..Len(o) : p[i] = o[i]
  BY AppendProperties, LenProperties
<1>2. <<>> \in Seq(Numbers) /\ \A g \in Frames : g.text \in Seq(Numbers)
  BY DEF Frames
<1>3. x \in Seq(Numbers)
  BY <1>2
<1> HIDE DEF p
<1>4. /\ s \in Seq(Seq(Numbers)) /\ Len(s) = Len(o)
  <2>1. \A i \in 1..Len(o) : s[i] \in Seq(Numbers)
    BY <1>1, <1>2
  <2>2. DOMAIN s = 1..Len(o)
    BY <1>1
  <2> HIDE DEF s
  <2>3. s = [i \in 1..Len(o) |-> s[i]]
    BY <2>2 DEF s
  <2> QED BY <1>1, <2>1, <2>2, <2>3
<1>5. /\ t \in Seq(Seq(Numbers)) /\ Len(t) = Len(o) + 1
  <2>1. \A i \in 1..(Len(o) + 1) : t[i] \in Seq(Numbers)
    BY <1>1, <1>2
  <2>2. DOMAIN t = 1..(Len(o) + 1)
    BY <1>1
  <2> HIDE DEF t
  <2>3. t = [i \in 1..(Len(o) + 1) |-> t[i]]
    BY <2>2 DEF t
  <2> QED BY <1>1, <2>1, <2>2, <2>3
<1>6. t[Len(o) + 1] = x /\ \A i \in 1..Len(o) : t[i] = s[i]
  BY <1>1
<1>7. ShowsIn(o, type) = FlattenSeq(s) /\ ShowsIn(p, type) = FlattenSeq(t)
  BY DEF ShowsIn
<1>8. FlattenSeq(s) \in Seq(Numbers) /\ FlattenSeq(t) = FlattenSeq(s) \o x
  <2> HIDE DEF s, t, x
  <2> QED BY <1>3, <1>4, <1>5, <1>6, OneLonger
<1> QED BY <1>7, <1>8 DEF p, x

LEMMA DeltasMore ==
    ASSUME NEW o \in Seq(Event), NEW f \in Event, NEW kind
    PROVE  /\ Deltas(o, kind) \in Seq(Numbers)
           /\ Deltas(Append(o, f), kind)
                = Deltas(o, kind) \o (IF f.kind = kind THEN Delta(f) ELSE <<>>)
<1> DEFINE p == Append(o, f)
           s == [i \in DOMAIN o |-> IF o[i].kind = kind THEN Delta(o[i]) ELSE <<>>]
           t == [i \in DOMAIN p |-> IF p[i].kind = kind THEN Delta(p[i]) ELSE <<>>]
           x == IF f.kind = kind THEN Delta(f) ELSE <<>>
<1>1. /\ Len(o) \in Nat /\ DOMAIN o = 1..Len(o)
      /\ p \in Seq(Event) /\ Len(p) = Len(o) + 1 /\ DOMAIN p = 1..(Len(o) + 1)
      /\ p[Len(o) + 1] = f /\ \A i \in 1..Len(o) : p[i] = o[i]
  BY AppendProperties, LenProperties
<1>2. <<>> \in Seq(Numbers) /\ \A g \in Event : Delta(g) \in Seq(Numbers)
  BY DeltaIs
<1>3. x \in Seq(Numbers)
  BY <1>2
<1> HIDE DEF p
<1>4. /\ s \in Seq(Seq(Numbers)) /\ Len(s) = Len(o)
  <2>0. \A i \in 1..Len(o) : o[i] \in Event
    BY <1>1
  <2>1. \A i \in 1..Len(o) : s[i] \in Seq(Numbers)
    BY <1>1, <1>2, <2>0
  <2>2. DOMAIN s = 1..Len(o)
    BY <1>1
  <2> HIDE DEF s
  <2>3. s = [i \in 1..Len(o) |-> s[i]]
    BY <2>2 DEF s
  <2> QED BY <1>1, <2>1, <2>2, <2>3
<1>5. /\ t \in Seq(Seq(Numbers)) /\ Len(t) = Len(o) + 1
  <2>0. \A i \in 1..(Len(o) + 1) : p[i] \in Event
    BY <1>1
  <2>1. \A i \in 1..(Len(o) + 1) : t[i] \in Seq(Numbers)
    BY <1>1, <1>2, <2>0
  <2>2. DOMAIN t = 1..(Len(o) + 1)
    BY <1>1
  <2> HIDE DEF t
  <2>3. t = [i \in 1..(Len(o) + 1) |-> t[i]]
    BY <2>2 DEF t
  <2> QED BY <1>1, <2>1, <2>2, <2>3
<1>6. t[Len(o) + 1] = x /\ \A i \in 1..Len(o) : t[i] = s[i]
  BY <1>1
<1>7. Deltas(o, kind) = FlattenSeq(s) /\ Deltas(p, kind) = FlattenSeq(t)
  BY DEF Deltas
<1>8. FlattenSeq(s) \in Seq(Numbers) /\ FlattenSeq(t) = FlattenSeq(s) \o x
  <2> HIDE DEF s, t, x
  <2> QED BY <1>3, <1>4, <1>5, <1>6, OneLonger
<1> QED BY <1>7, <1>8 DEF p, x

(* Nothing in nothing. *)
LEMMA NothingSaid ==
    ASSUME NEW x
    PROVE  ShowsIn(<<>>, x) = <<>> /\ Deltas(<<>>, x) = <<>>
<1>1. /\ [i \in DOMAIN <<>> |-> IF <<>>[i].type = x THEN <<>>[i].text ELSE <<>>] = <<>>
      /\ [i \in DOMAIN <<>> |-> IF <<>>[i].kind = x THEN Delta(<<>>[i]) ELSE <<>>] = <<>>
  OBVIOUS
<1>2. FlattenSeq(<<>>) = <<>>
  BY DEF FlattenSeq
<1> QED BY <1>1, <1>2 DEF ShowsIn, Deltas

(* The events up to one, and up to the next. *)
LEMMA NextDeltas ==
    ASSUME NEW s \in Seq(Event), NEW r \in 0..Len(s), NEW kind
    PROVE  /\ Deltas(SubSeq(s, 1, r), kind) \in Seq(Numbers)
           /\ r < Len(s) =>
                Deltas(SubSeq(s, 1, r + 1), kind)
                  = Deltas(SubSeq(s, 1, r), kind)
                      \o (IF s[r + 1].kind = kind THEN Delta(s[r + 1]) ELSE <<>>)
<1>1. Len(s) \in Nat /\ r \in Nat /\ \A i \in 1..Len(s) : s[i] \in Event
  BY LenProperties, ElementOfSeq
<1>2. SubSeq(s, 1, r) \in Seq(Event)
  BY <1>1, SubSeqProperties
<1>3. CASE r < Len(s)
  <2>1. s[r + 1] \in Event /\ r + 1 \in 1..Len(s) /\ (r + 1) - 1 = r
    BY <1>1, <1>3
  <2>2. SubSeq(s, 1, r + 1) = SubSeq(s, 1, (r + 1) - 1) \o <<s[r + 1]>>
    <3>1. 1 \in 1..Len(s) /\ r + 1 \in 1..Len(s)
      BY <1>1, <1>3
    <3> QED BY <3>1, SubSeqRecursiveSecond
  <2>3. SubSeq(s, 1, r + 1) = SubSeq(s, 1, r) \o <<s[r + 1]>>
    BY <2>1, <2>2
  <2>4. Append(SubSeq(s, 1, r), s[r + 1]) = SubSeq(s, 1, r) \o <<s[r + 1]>>
    BY <1>2, <2>1, AppendIsConcat
  <2>5. PICK q : q = SubSeq(s, 1, r)
    OBVIOUS
  <2>6. /\ Deltas(q, kind) \in Seq(Numbers)
        /\ Deltas(Append(q, s[r + 1]), kind)
             = Deltas(q, kind) \o (IF s[r + 1].kind = kind THEN Delta(s[r + 1]) ELSE <<>>)
    BY <1>2, <2>1, <2>5, DeltasMore
  <2>7. SubSeq(s, 1, r + 1) = Append(q, s[r + 1])
    BY <2>3, <2>4, <2>5
  <2> QED BY <2>5, <2>6, <2>7
<1>4. CASE ~(r < Len(s))
  <2>1. r = Len(s)
    BY <1>1, <1>4
  <2>2. CASE Len(s) = 0
    <3>1. SubSeq(s, 1, r) = <<>>
      BY <2>1, <2>2
    <3>2. <<>> \in Seq(Numbers)
      OBVIOUS
    <3> QED BY <1>4, <3>1, <3>2, NothingSaid
  <2>3. CASE Len(s) # 0
    <3>1. s[1] \in Event
      BY <1>1, <2>3
    <3> QED BY <1>2, <1>4, <3>1, DeltasMore
  <2> QED BY <2>2, <2>3
<1> QED BY <1>3, <1>4

(* An event more changes nothing of the events before. *)
LEMMA SameBefore ==
    ASSUME NEW s \in Seq(Event), NEW e \in Event, NEW r \in 0..Len(s)
    PROVE  SubSeq(Append(s, e), 1, r) = SubSeq(s, 1, r)
<1>1. Len(s) \in Nat /\ r \in Nat
  BY LenProperties
<1>2. PICK p : p = Append(s, e)
  OBVIOUS
<1>3. \A i \in 1..r : p[i] = s[i] /\ s[i] \in Event
  <2>1. \A i \in 1..Len(s) : p[i] = s[i] /\ s[i] \in Event
    BY <1>2, AppendProperties, ElementOfSeq
  <2> QED BY <1>1, <2>1
<1>4. SubSeq(p, 1, r) = SubSeq(s, 1, r)
  <2>1. \A i \in 1..r : p[i] \in Event
    BY <1>3
  <2>2. /\ SubSeq(p, 1, r) \in Seq(Event)
        /\ Len(SubSeq(p, 1, r)) = r
        /\ \A i \in 1..(r - 1 + 1) : SubSeq(p, 1, r)[i] = p[1 + i - 1]
    BY <1>1, <2>1, SubSeqProperties
  <2>3. /\ SubSeq(s, 1, r) \in Seq(Event)
        /\ Len(SubSeq(s, 1, r)) = r
        /\ \A i \in 1..(r - 1 + 1) : SubSeq(s, 1, r)[i] = s[1 + i - 1]
    BY <1>1, <1>3, SubSeqProperties
  <2>4. \A i \in 1..r : i \in 1..(r - 1 + 1) /\ 1 + i - 1 = i
    BY <1>1
  <2>5. ASSUME NEW i \in 1..r PROVE SubSeq(p, 1, r)[i] = SubSeq(s, 1, r)[i]
    BY <1>3, <2>2, <2>3, <2>4
  <2> QED BY <2>2, <2>3, <2>5, SeqEqual
<1> QED BY <1>2, <1>4

(* Frames added one by one, none of which is the last. *)
LEMMA Relayed ==
    ASSUME protocol \in Protocols, NEW o \in Seq(Frames), NEW name, NEW e \in Event
    PROVE  /\ o \o Shown(name, e) \in Seq(Frames)
           /\ protocol # "nonstream" =>
                /\ ShowsIn(o \o Shown(name, e), "text")
                     = ShowsIn(o, "text") \o (IF name = "chunk" THEN Delta(e) ELSE <<>>)
                /\ ShowsIn(o \o Shown(name, e), "reasoning")
                     = ShowsIn(o, "reasoning")
                         \o (IF name = "thinking" THEN Delta(e) ELSE <<>>)
<1> DEFINE text == IF name = "chunk" THEN Delta(e) ELSE <<>>
           thought == IF name = "thinking" THEN Delta(e) ELSE <<>>
<1>1. /\ <<>> \in Seq(Numbers) /\ Delta(e) \in Seq(Numbers)
  BY DeltaIs
<1>e. Shown(name, e) \in {<<>>} \cup {<<f>> : f \in Frames}
  <2>1. \/ Shown(name, e) = <<>>
        \/ \E f \in Frames : Shown(name, e) = <<f>>
    BY ShownIs
  <2> QED BY <2>1
<1>2. ASSUME Shown(name, e) = <<>>
      PROVE  /\ o \o Shown(name, e) = o
             /\ \A type : ShowsIn(o \o Shown(name, e), type) = ShowsIn(o, type) \o <<>>
  <2>1. o \o Shown(name, e) = o
    BY <1>2
  <2>2. ASSUME NEW type PROVE ShowsIn(o, type) \o <<>> = ShowsIn(o, type)
    <3>1. Frame("error", <<>>) \in Frames
      BY <1>1 DEF Frame, Frames, Types
    <3>2. ShowsIn(o, type) \in Seq(Numbers)
      BY <3>1, ShowsMore
    <3> QED BY <3>2, ConcatEmptySeq
  <2> QED BY <2>1, <2>2
<1>3. ASSUME NEW f \in Frames, Shown(name, e) = <<f>>
      PROVE  /\ o \o Shown(name, e) \in Seq(Frames)
             /\ \A type : ShowsIn(o \o Shown(name, e), type)
                            = ShowsIn(o, type) \o (IF f.type = type THEN f.text ELSE <<>>)
  <2>1. o \o <<f>> = Append(o, f) /\ Append(o, f) \in Seq(Frames)
    BY AppendIsConcat, AppendProperties
  <2>2. PICK p : p = Append(o, f)
    OBVIOUS
  <2>3. o \o Shown(name, e) = p
    BY <1>3, <2>1, <2>2
  <2>4. ASSUME NEW type
        PROVE  ShowsIn(p, type)
                 = ShowsIn(o, type) \o (IF f.type = type THEN f.text ELSE <<>>)
    BY <2>2, ShowsMore
  <2>5. p \in Seq(Frames)
    BY <2>1, <2>2
  <2> QED BY <2>3, <2>4, <2>5
<1>4. ASSUME protocol # "nonstream"
      PROVE  \/ Shown(name, e) = <<>> /\ text = <<>> /\ thought = <<>>
             \/ \E f : /\ Shown(name, e) = <<f>>
                       /\ (IF f.type = "text" THEN f.text ELSE <<>>) = text
                       /\ (IF f.type = "reasoning" THEN f.text ELSE <<>>) = thought
  <2>p. protocol \in {"openai", "anthropic", "responses"}
    BY <1>4, RelayAssumption
  <2>1. \A type, t : Frame(type, t).type = type /\ Frame(type, t).text = t
    BY DEF Frame
  <2>2. CASE name = "thinking"
    <3>1. \/ Shown(name, e) = <<Frame("reasoning", Delta(e))>>
          \/ Shown(name, e) = <<>> /\ Delta(e) = <<>>
      BY <2>p, <2>2 DEF Shown, OpenAiShown, AnthropicShown, ResponsesShown
    <3> QED BY <2>1, <2>2, <3>1
  <2>3. CASE name = "chunk"
    <3>1. Shown(name, e) = <<Frame("text", Delta(e))>>
      BY <2>p, <2>3 DEF Shown, OpenAiShown, AnthropicShown, ResponsesShown
    <3> QED BY <2>1, <2>3, <3>1
  <2>4. CASE name \notin {"thinking", "chunk"}
    <3>1. \/ Shown(name, e) = <<>>
          \/ Shown(name, e) = <<Frame("citation", <<e.n>>)>>
          \/ Shown(name, e) = <<Frame(name, <<e.n>>)>> /\ name \in {"tool_use", "error"}
      BY <2>p, <2>4 DEF Shown, OpenAiShown, AnthropicShown, ResponsesShown
    <3> QED BY <2>1, <2>4, <3>1
  <2> QED BY <2>2, <2>3, <2>4
<1> HIDE DEF text, thought
<1>5. o \o Shown(name, e) \in Seq(Frames)
  BY <1>e, <1>2, <1>3
<1>6. ASSUME protocol # "nonstream"
      PROVE  /\ ShowsIn(o \o Shown(name, e), "text") = ShowsIn(o, "text") \o text
             /\ ShowsIn(o \o Shown(name, e), "reasoning") = ShowsIn(o, "reasoning") \o thought
  <2>1. CASE Shown(name, e) = <<>>
    <3>1. text = <<>> /\ thought = <<>>
      BY <1>4, <1>6, <2>1
    <3> QED BY <1>2, <2>1, <3>1
  <2>2. CASE Shown(name, e) # <<>>
    <3>1. PICK f : /\ Shown(name, e) = <<f>>
                   /\ (IF f.type = "text" THEN f.text ELSE <<>>) = text
                   /\ (IF f.type = "reasoning" THEN f.text ELSE <<>>) = thought
      BY <1>4, <1>6, <2>2
    <3>2. f \in Frames
      BY <1>e, <2>2, <3>1
    <3> QED BY <1>3, <3>1, <3>2
  <2> QED BY <2>1, <2>2
<1> QED BY <1>5, <1>6 DEF text, thought

-------------------------------------------------------------------------------
(* What an answer shows, step by step. *)

Told == {"text", "reasoning"}

LEMMA OutIs ==
    ASSUME RelayInv
    PROVE  out \in Seq(Frames) /\ acc \in Seq(Numbers) /\ protocol \in Protocols
<1>1. CASE finished
  <2>1. PICK o, a : Ordered(o) /\ a \in Seq(Numbers) /\ out = Append(o, Frame("end", a))
    BY <1>1 DEF RelayInv, OutInv
  <2>2. Frame("end", a) \in Frames /\ o \in Seq(Frames)
    BY <2>1 DEF Ordered, Frame, Frames, Types
  <2>3. out \in Seq(Frames)
    BY <2>1, <2>2, AppendProperties
  <2> QED BY <2>3 DEF RelayInv, Typed
<1>2. CASE ~finished
  BY <1>2 DEF RelayInv, OutInv, Ordered, Typed
<1> QED BY <1>1, <1>2

(* A frame that shows nothing of a type. *)
LEMMA Silent ==
    ASSUME NEW o \in Seq(Frames), NEW f \in Frames, NEW type,
           f.type # type \/ f.text = <<>>
    PROVE  ShowsIn(Append(o, f), type) = ShowsIn(o, type)
<1>1. /\ ShowsIn(o, type) \in Seq(Numbers)
      /\ ShowsIn(Append(o, f), type)
           = ShowsIn(o, type) \o (IF f.type = type THEN f.text ELSE <<>>)
  BY ShowsMore
<1>2. (IF f.type = type THEN f.text ELSE <<>>) = <<>>
  OBVIOUS
<1>3. ShowsIn(o, type) \o <<>> = ShowsIn(o, type)
  BY <1>1, ConcatEmptySeq
<1> QED BY <1>1, <1>2, <1>3

(* The opening frame and the last one show nothing. *)
LEMMA StartShows ==
    ASSUME RelayInv, Start
    PROVE  /\ UNCHANGED <<protocol, acc>>
           /\ \A type \in Told : ShowsIn(out', type) = ShowsIn(out, type)
<1> DEFINE f == Frame("start", <<>>)
<1>1. f \in Frames /\ f.type = "start"
  BY DEF Frame, Frames, Types
<1>2. out' = Append(out, f) /\ UNCHANGED <<protocol, acc>>
  BY DEF Start
<1> HIDE DEF f
<1>3. ASSUME NEW type \in Told PROVE ShowsIn(out', type) = ShowsIn(out, type)
  <2>1. f.type # type
    BY <1>1 DEF Told
  <2> QED BY <1>1, <1>2, <2>1, OutIs, Silent
<1> QED BY <1>2, <1>3

LEMMA EndShows ==
    ASSUME RelayInv, NEW frames, Finish(frames), protocol' = protocol,
           \/ frames = <<>> \/ frames = <<Frame("empty", <<>>)>>
           \/ \E name \in Terminal, e \in Event : frames = Shown(name, e)
    PROVE  /\ acc' = acc /\ finished' = TRUE
           /\ Last(out') = Frame("end", acc)
           /\ protocol # "nonstream" =>
                \A type \in Told : ShowsIn(out', type) = ShowsIn(out, type)
<1>1. out \in Seq(Frames) /\ acc \in Seq(Numbers) /\ protocol \in Protocols
  BY OutIs
<1>2. \A type : ShowsIn(out, type) \in Seq(Numbers)
  <2>1. Frame("end", acc) \in Frames
    BY <1>1 DEF Frame, Frames, Types
  <2> QED BY <1>1, <2>1, ShowsMore
<1>3. /\ out \o frames \in Seq(Frames)
      /\ protocol # "nonstream" =>
           \A type \in Told : ShowsIn(out \o frames, type) = ShowsIn(out, type)
  <2>1. CASE frames = <<>>
    <3>1. out \o frames = out
      BY <1>1, <2>1
    <3> QED BY <1>1, <3>1
  <2>2. CASE frames = <<Frame("empty", <<>>)>>
    <3>1. /\ Frame("empty", <<>>) \in Frames /\ Frame("empty", <<>>).text = <<>>
      BY DEF Frame, Frames, Types
    <3>2. PICK f : f = Frame("empty", <<>>)
      OBVIOUS
    <3>3. f \in Frames /\ f.text = <<>> /\ frames = <<f>>
      BY <2>2, <3>1, <3>2
    <3>4. out \o frames = Append(out, f) /\ Append(out, f) \in Seq(Frames)
      BY <1>1, <3>3, AppendIsConcat, AppendProperties
    <3>5. \A type : ShowsIn(Append(out, f), type) = ShowsIn(out, type)
      BY <1>1, <3>3, Silent
    <3> QED BY <3>4, <3>5
  <2>3. CASE \E name \in Terminal, e \in Event : frames = Shown(name, e)
    <3>1. PICK name \in Terminal, e \in Event : frames = Shown(name, e)
      BY <2>3
    <3>2. name # "chunk" /\ name # "thinking"
      BY DEF Terminal
    <3>3. /\ out \o frames \in Seq(Frames)
          /\ protocol # "nonstream" =>
               /\ ShowsIn(out \o frames, "text") = ShowsIn(out, "text") \o <<>>
               /\ ShowsIn(out \o frames, "reasoning") = ShowsIn(out, "reasoning") \o <<>>
      BY <1>1, <3>1, <3>2, Relayed
    <3>4. \A type : ShowsIn(out, type) \o <<>> = ShowsIn(out, type)
      BY <1>2, ConcatEmptySeq
    <3> QED BY <3>3, <3>4 DEF Told
  <2> QED BY <2>1, <2>2, <2>3
<1>4. PICK q : q = out \o frames
  OBVIOUS
<1>5. PICK f : f = Frame("end", acc)
  OBVIOUS
<1>6. f \in Frames /\ f.type = "end"
  BY <1>1, <1>5 DEF Frame, Frames, Types
<1>7. out' = Append(q, f) /\ acc' = acc /\ finished' = TRUE
  <2>1. /\ out' = (out \o frames) \o <<Frame("end", acc)>>
        /\ acc' = acc /\ finished' = TRUE
    BY DEF Finish
  <2>2. q \in Seq(Frames)
    BY <1>3, <1>4
  <2>3. q \o <<f>> = Append(q, f)
    BY <1>6, <2>2, AppendIsConcat
  <2> QED BY <1>4, <1>5, <2>1, <2>3
<1>8. ASSUME protocol # "nonstream", NEW type \in Told
      PROVE  ShowsIn(out', type) = ShowsIn(out, type)
  <2>1. f.type # type /\ q \in Seq(Frames) /\ ShowsIn(q, type) = ShowsIn(out, type)
    BY <1>3, <1>4, <1>6, <1>8 DEF Told
  <2>2. ShowsIn(Append(q, f), type) = ShowsIn(q, type)
    BY <1>6, <2>1, Silent
  <2> QED BY <1>7, <2>1, <2>2
<1>9. Last(out') = f
  <2>1. q \in Seq(Frames)
    BY <1>3, <1>4
  <2>2. Len(Append(q, f)) = Len(q) + 1 /\ Append(q, f)[Len(q) + 1] = f
    BY <1>6, <2>1, AppendProperties
  <2> QED BY <1>7, <2>2 DEF Last
<1> QED BY <1>5, <1>7, <1>8, <1>9

(* Nothing happens after the end. *)
LEMMA Over ==
    ASSUME RelayInv, finished, [Next]_vars
    PROVE  UNCHANGED vars
<1>1. ~Start
  <2> SUFFICES ASSUME ~started, protocol \in Opening PROVE FALSE
    BY DEF Start
  <2>1. out = <<>>
    BY DEF RelayInv, OutInv
  <2>2. PICK o, a : Ordered(o) /\ out = Append(o, Frame("end", a))
    BY DEF RelayInv, OutInv
  <2>3. o \in Seq(Frames)
    BY <2>2 DEF Ordered
  <2> QED BY <2>1, <2>2, <2>3
<1>2. ~Open /\ ~Reading
  BY DEF Open, Reading
<1> QED BY <1>1, <1>2
        DEF Next, Read, SendEvent, SendLine, SendHead, Close, ReadLine, Abandon, ReadRest,
            ReadEnd

(* The event of a data line is shown, or ends the stream. *)
LEMMA DataShows ==
    ASSUME RelayInv, NEW line, line.of \in Event, DataLine(line), protocol' = protocol
    PROVE  /\ pending \in Terminal =>
                /\ acc' = acc
                /\ protocol # "nonstream" =>
                     \A type \in Told : ShowsIn(out', type) = ShowsIn(out, type)
           /\ pending \notin Terminal =>
                /\ acc' = acc \o Collected(pending, line.of)
                /\ protocol # "nonstream" =>
                     /\ ShowsIn(out', "text") = ShowsIn(out, "text")
                          \o (IF pending = "chunk" THEN Delta(line.of) ELSE <<>>)
                     /\ ShowsIn(out', "reasoning") = ShowsIn(out, "reasoning")
                          \o (IF pending = "thinking" THEN Delta(line.of) ELSE <<>>)
<1>1. ASSUME pending \in Terminal
      PROVE  /\ acc' = acc
             /\ protocol # "nonstream" =>
                  \A type \in Told : ShowsIn(out', type) = ShowsIn(out, type)
  <2>1. PICK frames : frames = Shown(pending, line.of)
    OBVIOUS
  <2>2. Finish(frames)
    BY <1>1, <2>1 DEF DataLine
  <2> QED BY <1>1, <2>1, <2>2, EndShows
<1>2. ASSUME pending \notin Terminal
      PROVE  /\ acc' = acc \o Collected(pending, line.of)
             /\ protocol # "nonstream" =>
                  /\ ShowsIn(out', "text") = ShowsIn(out, "text")
                       \o (IF pending = "chunk" THEN Delta(line.of) ELSE <<>>)
                  /\ ShowsIn(out', "reasoning") = ShowsIn(out, "reasoning")
                       \o (IF pending = "thinking" THEN Delta(line.of) ELSE <<>>)
  <2>1. /\ out' = out \o Shown(pending, line.of)
        /\ acc' = acc \o Collected(pending, line.of)
    BY <1>2 DEF DataLine
  <2>2. PICK name : name = pending
    OBVIOUS
  <2>3. PICK e \in Event : e = line.of
    OBVIOUS
  <2>4. protocol # "nonstream" =>
          /\ ShowsIn(out \o Shown(name, e), "text")
               = ShowsIn(out, "text") \o (IF name = "chunk" THEN Delta(e) ELSE <<>>)
          /\ ShowsIn(out \o Shown(name, e), "reasoning")
               = ShowsIn(out, "reasoning") \o (IF name = "thinking" THEN Delta(e) ELSE <<>>)
    BY OutIs, Relayed
  <2> QED BY <2>1, <2>2, <2>3, <2>4
<1> QED BY <1>1, <1>2

(* What the last frame carries, or will carry, is what was shown. *)
TextInv ==
    /\ protocol = "responses" => acc = Shows("text")
    /\ finished => Last(out) = Frame("end", acc)

LEMMA InitText == Init => TextInv
<1>1. ASSUME out = <<>> PROVE Shows("text") = <<>>
  <2>1. Shows("text") = ShowsIn(out, "text")
    BY DEF Shows, ShowsIn
  <2> QED BY <1>1, <2>1, NothingSaid
<1> QED BY <1>1 DEF Init, TextInv

LEMMA TextStep ==
    ASSUME RelayInv, TextInv, [Next]_vars
    PROVE  TextInv'
<1>2. protocol' = protocol
  BY DEF Next, vars, SendEvent, SendLine, SendHead, Close, Read, Start, ReadLine, Abandon,
         ReadRest, ReadEnd
<1> DEFINE Carries == protocol = "responses" => acc' = ShowsIn(out', "text")
           Ended   == finished' => Last(out') = Frame("end", acc')
<1>1. SUFFICES ASSUME ~finished PROVE Carries /\ Ended
  <2>1. CASE finished
    <3>1. UNCHANGED vars
      BY <2>1, Over
    <3> QED BY <3>1 DEF TextInv, vars, reader, Shows
  <2>2. CASE ~finished
    <3>1. Carries /\ Ended
      BY <1>1, <2>2
    <3> QED BY <1>2, <3>1 DEF TextInv, Shows, ShowsIn
  <2> QED BY <2>1, <2>2
<1>3. protocol = "responses" => acc = ShowsIn(out, "text")
  BY DEF TextInv, Shows, ShowsIn
<1>4. ASSUME UNCHANGED <<acc, out, finished>> PROVE Carries /\ Ended
  BY <1>1, <1>3, <1>4
<1>5. ASSUME NEW frames, Finish(frames),
             \/ frames = <<>> \/ frames = <<Frame("empty", <<>>)>>
             \/ \E name \in Terminal, e \in Event : frames = Shown(name, e)
      PROVE  Carries /\ Ended
  <2>1. /\ acc' = acc /\ Last(out') = Frame("end", acc)
        /\ protocol = "responses" => ShowsIn(out', "text") = ShowsIn(out, "text")
    BY <1>2, <1>5, EndShows DEF Told
  <2> QED BY <1>3, <2>1
<1>6. CASE UNCHANGED vars \/ (\E e \in Event : SendEvent(e)) \/ SendLine \/ SendHead
             \/ Close \/ Abandon
  <2>1. UNCHANGED <<acc, out, finished>>
    BY <1>6 DEF vars, reader, SendEvent, SendLine, SendHead, Close, Abandon
  <2> QED BY <1>4, <2>1
<1>7. CASE Start
  <2>1. acc' = acc /\ ShowsIn(out', "text") = ShowsIn(out, "text")
    BY <1>7, StartShows DEF Told
  <2>2. finished' = finished
    BY <1>7 DEF Start
  <2> QED BY <1>1, <1>3, <2>1, <2>2
<1>8. CASE ReadLine
  <2>1. PICK line : line = Head(net).line
    OBVIOUS
  <2>2. line.of \in Event
    <3>1. net \in Seq(Piece) /\ net # <<>>
      BY <1>8 DEF ReadLine, RelayInv, Typed
    <3>2. Head(net) \in Piece
      BY <3>1, HeadTailProperties
    <3> QED BY <2>1, <3>2 DEF Piece, Line
  <2>3. CASE NameLine(line)
    <3>1. UNCHANGED <<acc, out, finished>>
      BY <2>3 DEF NameLine
    <3> QED BY <1>4, <3>1
  <2>4. CASE DataLine(line)
    <3>1. CASE pending \in Terminal
      <4>1. Finish(Shown(pending, line.of))
        BY <2>4, <3>1 DEF DataLine
      <4>2. PICK frames : frames = Shown(pending, line.of)
        OBVIOUS
      <4> QED BY <1>5, <2>2, <3>1, <4>1, <4>2
    <3>2. CASE pending \notin Terminal
      <4>1. /\ acc' = acc \o Collected(pending, line.of)
            /\ protocol = "responses" =>
                 ShowsIn(out', "text") = ShowsIn(out, "text")
                   \o (IF pending = "chunk" THEN Delta(line.of) ELSE <<>>)
        BY <1>2, <2>2, <2>4, <3>2, DataShows
      <4>2. protocol = "responses" =>
              Collected(pending, line.of)
                = (IF pending = "chunk" THEN Delta(line.of) ELSE <<>>)
        BY DEF Collected
      <4>3. finished' = finished
        BY <2>4, <3>2 DEF DataLine
      <4> QED BY <1>1, <1>3, <4>1, <4>2, <4>3
    <3> QED BY <3>1, <3>2
  <2> QED BY <1>8, <2>1, <2>3, <2>4 DEF ReadLine
<1>9. CASE ReadRest
  <2>1. UNCHANGED reader \/ Finish(<<>>)
    BY <1>9 DEF ReadRest
  <2>2. CASE UNCHANGED reader
    BY <1>4, <2>2 DEF reader
  <2>3. CASE Finish(<<>>)
    BY <1>5, <2>3
  <2> QED BY <2>1, <2>2, <2>3
<1>10. CASE ReadEnd
  <2>1. Finish(<<>>) \/ Finish(<<Frame("empty", <<>>)>>)
    BY <1>10 DEF ReadEnd
  <2>2. PICK frames : /\ frames = <<>> \/ frames = <<Frame("empty", <<>>)>>
                      /\ Finish(frames)
    BY <2>1
  <2> QED BY <1>5, <2>2
<1> QED BY <1>6, <1>7, <1>8, <1>9, <1>10 DEF Next, Read

LEMMA TextHolds == Spec => [](RelayInv /\ TextInv)
<1>1. Init => RelayInv /\ TextInv
  BY InitRelay, InitText
<1>2. RelayInv /\ TextInv /\ [Next]_vars => RelayInv' /\ TextInv'
  BY RelayStep, TextStep
<1> QED BY <1>1, <1>2, PTL DEF Spec

(* However the lines are split and whatever is lost of them, response.completed *)
(* carries the text the client was sent in deltas.                             *)
THEOREM CompletedIsSent == Spec => []CompletedText
<1>1. TextInv => CompletedText
  BY DEF TextInv, CompletedText, Frame
<1> QED BY <1>1, TextHolds, PTL

-------------------------------------------------------------------------------
(* Where the answer stands: the lines of the answer are numbered in the order  *)
(* they are sent, the name line of event n as 2n-1 and its data line as 2n.    *)

At(line)     == 2 * line.of.n - (IF line.what = "event" THEN 1 ELSE 0)
After(piece) == At(piece.line) + (IF piece.part = "head" THEN 0 ELSE 1)
NextAt       == IF lines = <<>> THEN 2 * Len(sent) + 1 ELSE At(Head(lines))

(* What is on its way is of the events of the answer, and only the last of     *)
(* them ends it.                                                              *)
Known ==
    /\ \A j \in DOMAIN sent : sent[j].n = j
    /\ \A i \in DOMAIN sent : i < Len(sent) => sent[i].kind \notin Terminal
    /\ lines # <<>> => Head(lines).of = sent[Len(sent)]
    /\ \A j \in DOMAIN net : /\ net[j].line.of.n \in DOMAIN sent
                             /\ net[j].line.of = sent[net[j].line.of.n]

(* After q lines have been read, line q + 1 comes next, and every piece that   *)
(* has arrived is followed by the next one, the last one by what is to be sent.*)
(* The lines end early only with the connection, in the middle of one.         *)
Chain(q) ==
    /\ net # <<>> => /\ net[1].part # "tail" /\ At(net[1].line) = q + 1
                     /\ After(net[Len(net)]) = NextAt
    /\ \A j \in DOMAIN net : j > 1 =>
         /\ At(net[j].line) = After(net[j - 1])
         /\ net[j].part = "tail" => net[j - 1].part = "head"
    /\ net = <<>> => q + 1 = NextAt \/ (closed /\ half /\ q = NextAt)
    /\ ~closed => (half <=> net # <<>> /\ net[Len(net)].part = "head")

(* The first r events are told, in full and in order. *)
ToldTo(r) ==
    /\ Answer = Deltas(SubSeq(sent, 1, r), "chunk")
    /\ protocol # "nonstream" => Shows("reasoning") = Deltas(SubSeq(sent, 1, r), "thinking")

(* r events are read, and the name of the next one when b is 1. *)
Progress(r, b) ==
    /\ r \in 0..Len(sent) /\ b \in {0, 1}
    /\ b = 1 => r < Len(sent) /\ pending = sent[r + 1].kind
    /\ ToldTo(r)
    /\ Chain(2 * r + b)

CompleteInv ==
    ~abandoned => IF finished THEN Complete ELSE Known /\ \E r, b : Progress(r, b)

(* The lines to be sent. *)
LEMMA LinesAre ==
    ASSUME RelayInv
    PROVE  /\ Len(sent) \in Nat /\ DOMAIN sent = 1..Len(sent)
           /\ \A j \in DOMAIN sent : sent[j] \in Event /\ sent[j].n \in Nat
           /\ lines = <<>> => NextAt = 2 * Len(sent) + 1 /\ ~half
           /\ lines # <<>> =>
                /\ Len(sent) >= 1 /\ Head(lines) \in Line /\ Head(lines).of.n = Len(sent)
                /\ NextAt = At(Head(lines))
                /\ \/ Head(lines).what = "event" /\ NextAt = 2 * Len(sent) - 1
                   \/ Head(lines).what = "data" /\ NextAt = 2 * Len(sent)
<1>1. /\ Len(sent) \in Nat /\ DOMAIN sent = 1..Len(sent)
      /\ \A j \in DOMAIN sent : sent[j] \in Event
  BY LenProperties DEF RelayInv, Typed
<1>2. \A e \in Event : e.n \in Nat /\ e.n >= 1
  BY RelayAssumption DEF Event
<1>3. ASSUME lines # <<>>
      PROVE  /\ Len(sent) >= 1 /\ Head(lines) \in Line /\ Head(lines).of.n = Len(sent)
             /\ \/ Head(lines).what = "event" /\ At(Head(lines)) = 2 * Len(sent) - 1
                \/ Head(lines).what = "data" /\ At(Head(lines)) = 2 * Len(sent)
  <2>1. PICK e \in Event :
          /\ e.n = Len(sent)
          /\ \/ lines = <<[what |-> "event", of |-> e], [what |-> "data", of |-> e]>>
             \/ lines = <<[what |-> "data", of |-> e]>>
    BY <1>3 DEF RelayInv, LinesInv
  <2>2. PICK line : line = Head(lines)
    OBVIOUS
  <2>3. line = [what |-> "event", of |-> e] \/ line = [what |-> "data", of |-> e]
    BY <2>1, <2>2
  <2>4. line \in Line /\ line.of = e /\ (line.what = "event" \/ line.what = "data")
    BY <2>3 DEF Line
  <2>5. /\ line.what = "event" => At(line) = 2 * Len(sent) - 1
        /\ line.what = "data" => At(line) = 2 * Len(sent)
    BY <1>1, <2>1, <2>4 DEF At
  <2> QED BY <1>2, <2>1, <2>2, <2>4, <2>5
<1> QED BY <1>1, <1>2, <1>3 DEF RelayInv, LinesInv, NextAt

(* The first line is sent: what is to be sent next. *)
LEMMA LineSent ==
    ASSUME RelayInv, lines # <<>>, lines' = Tail(lines), sent' = sent
    PROVE  /\ NextAt' = At(Head(lines)) + 1
           /\ lines' # <<>> => Head(lines').of = Head(lines).of
<1>1. PICK e \in Event :
        /\ e.n = Len(sent)
        /\ \/ lines = <<[what |-> "event", of |-> e], [what |-> "data", of |-> e]>>
           \/ lines = <<[what |-> "data", of |-> e]>>
  BY DEF RelayInv, LinesInv
<1>n. e.n \in Nat /\ Len(sent) \in Nat
  BY LinesAre, RelayAssumption DEF Event
<1>2. CASE lines = <<[what |-> "event", of |-> e], [what |-> "data", of |-> e]>>
  <2>1. /\ Head(lines) = [what |-> "event", of |-> e] /\ lines' # <<>>
        /\ Head(lines') = [what |-> "data", of |-> e]
    BY <1>2
  <2>2. At(Head(lines)) = 2 * e.n - 1 /\ At(Head(lines')) = 2 * e.n
    BY <1>n, <2>1 DEF At
  <2>3. NextAt' = At(Head(lines'))
    BY <2>1 DEF NextAt, At
  <2>4. NextAt' = At(Head(lines)) + 1
    <3>1. 2 * e.n = (2 * e.n - 1) + 1
      BY <1>n
    <3>2. NextAt' = 2 * e.n /\ At(Head(lines)) + 1 = (2 * e.n - 1) + 1
      BY <2>2, <2>3, Zenon
    <3> QED BY <3>1, <3>2, Zenon
  <2>5. Head(lines').of = Head(lines).of
    BY <2>1
  <2> QED BY <2>4, <2>5
<1>3. CASE lines = <<[what |-> "data", of |-> e]>>
  <2>1. /\ Head(lines) = [what |-> "data", of |-> e] /\ lines' = <<>>
    BY <1>3
  <2>2. At(Head(lines)) = 2 * e.n
    BY <1>n, <2>1 DEF At
  <2>3. NextAt' = 2 * Len(sent) + 1
    BY <2>1 DEF NextAt
  <2> QED BY <1>1, <1>n, <2>1, <2>2, <2>3
<1> QED BY <1>1, <1>2, <1>3

(* A piece arrives, and the chain is one longer. *)
LEMMA ChainArrives ==
    ASSUME RelayInv, ~closed, lines # <<>>, NEW q \in Nat, Chain(q),
           NEW part \in {"whole", "head", "tail"},
           (part = "tail") <=> half,
           net' = Part(part), closed' = closed, sent' = sent,
           IF part = "head" THEN half' = TRUE /\ lines' = lines
           ELSE half' = FALSE /\ lines' = Tail(lines)
    PROVE  Chain(q)'
<1> DEFINE new == [part |-> part, line |-> Head(lines)]
<1>1. /\ Head(lines) \in Line /\ NextAt = At(Head(lines)) /\ NextAt \in Nat
  BY LinesAre
<1>2. /\ new \in Piece /\ new.part = part /\ new.line = Head(lines)
      /\ At(new.line) = NextAt
      /\ After(new) = IF part = "head" THEN NextAt ELSE NextAt + 1
  BY <1>1 DEF Piece, After
<1> HIDE DEF new
<1>3. NextAt' = After(new)
  <2>1. CASE part = "head"
    BY <1>2, <2>1 DEF NextAt, At
  <2>2. CASE part # "head"
    BY <1>1, <1>2, <2>2, LineSent
  <2> QED BY <2>1, <2>2
<1>4. /\ net' \in Seq(Piece) /\ Len(net) \in Nat /\ Len(net') = Len(net) + 1
      /\ DOMAIN net = 1..Len(net) /\ DOMAIN net' = 1..(Len(net) + 1)
      /\ net'[Len(net) + 1] = new
      /\ \A j \in 1..Len(net) : net'[j] = net[j]
      /\ (net = <<>>) <=> Len(net) = 0
  <2>1. net' = Append(net, new) /\ net \in Seq(Piece)
    BY DEF Part, new, RelayInv, Typed
  <2> QED BY <1>2, <2>1, AppendProperties, LenProperties, EmptySeq
<1>5. net' # <<>> /\ net'[Len(net')] = new
  BY <1>4
<1>6. net'[1].part # "tail" /\ At(net'[1].line) = q + 1
  <2>1. CASE net = <<>>
    <3>1. net'[1] = new /\ ~half /\ NextAt = q + 1
      BY <1>4, <2>1 DEF Chain
    <3> QED BY <1>2, <3>1
  <2>2. CASE net # <<>>
    <3>1. net'[1] = net[1]
      BY <1>4, <2>2
    <3> QED BY <2>2, <3>1 DEF Chain
  <2> QED BY <2>1, <2>2
<1>7. ASSUME NEW j \in DOMAIN net', j > 1
      PROVE  /\ At(net'[j].line) = After(net'[j - 1])
             /\ net'[j].part = "tail" => net'[j - 1].part = "head"
  <2>1. CASE j \in DOMAIN net
    <3>1. net'[j] = net[j] /\ net'[j - 1] = net[j - 1]
      BY <1>4, <1>7, <2>1
    <3> QED BY <1>7, <2>1, <3>1 DEF Chain
  <2>2. CASE j \notin DOMAIN net
    <3>1. j = Len(net) + 1 /\ j - 1 = Len(net) /\ Len(net) \in 1..Len(net)
      BY <1>4, <1>7, <2>2
    <3>2. net'[j] = new /\ net'[j - 1] = net[Len(net)] /\ net # <<>>
      BY <1>4, <3>1
    <3>3. After(net[Len(net)]) = NextAt /\ (half => net[Len(net)].part = "head")
      BY <3>2 DEF Chain
    <3> QED BY <1>2, <3>2, <3>3
  <2> QED BY <2>1, <2>2
<1>8. half' <=> net'[Len(net')].part = "head"
  BY <1>2, <1>5
<1> QED BY <1>3, <1>5, <1>6, <1>7, <1>8 DEF Chain, After, At

(* A line is read, in one piece or two. *)
LEMMA ChainTaken ==
    ASSUME RelayInv, NEW q \in Nat, Chain(q), NEW k, Taken(k),
           \/ k = 1 /\ net[1].part = "whole"
           \/ k = 1 /\ net[1].part = "head" /\ Len(net) = 1 /\ closed
           \/ k = 2 /\ net[1].part = "head"
    PROVE  Chain(q + 1)'
<1>1. /\ net \in Seq(Piece) /\ Len(net) \in Nat /\ DOMAIN net = 1..Len(net)
      /\ (net = <<>>) <=> Len(net) = 0
  BY NetIs, EmptySeq DEF RelayInv, Typed
<1>2. k \in {1, 2} /\ k <= Len(net) /\ UNCHANGED <<sent, lines, half, closed>>
  BY DEF Taken, upstream
<1>u. NextAt' = NextAt /\ closed' = closed /\ half' = half
  BY <1>2 DEF NextAt, At
<1>3. /\ net' \in Seq(Piece) /\ Len(net') = Len(net) - k
      /\ DOMAIN net' = 1..(Len(net) - k)
      /\ \A j \in 1..(Len(net) - k) : net'[j] = net[j + k]
      /\ (net' = <<>>) <=> Len(net') = 0
  BY TakenIs, EmptySeq
<1>4. /\ net # <<>> /\ At(net[1].line) = q + 1 /\ After(net[Len(net)]) = NextAt
      /\ \A j \in DOMAIN net : j > 1 =>
           /\ At(net[j].line) = After(net[j - 1])
           /\ net[j].part = "tail" => net[j - 1].part = "head"
      /\ ~closed => (half <=> net[Len(net)].part = "head")
  BY <1>1, <1>2 DEF Chain
<1>5. \/ After(net[k]) = q + 2 /\ net[k].part # "head"
      \/ After(net[k]) = q + 1 /\ Len(net) = 1 /\ k = 1 /\ closed /\ net[1].part = "head"
  <2>1. CASE k = 1
    BY <1>4, <2>1 DEF After
  <2>2. CASE k = 2 /\ net[1].part = "head"
    <3>1. 1 < Len(net) /\ 1 \in DOMAIN net /\ 2 \in DOMAIN net
      BY <1>1, <1>2, <2>2
    <3>2. net[1 + 1].part = "tail"
      BY <2>2, <3>1 DEF RelayInv, HeadsInv
    <3>3. At(net[2].line) = After(net[2 - 1])
      BY <1>4, <3>1
    <3>4. At(net[2].line) = q + 1 /\ net[2].part = "tail"
      BY <1>4, <2>2, <3>2, <3>3 DEF After
    <3> QED BY <2>2, <3>4 DEF After
  <2> QED BY <1>2, <2>1, <2>2
<1>6. CASE Len(net) = k
  <2>1. net' = <<>> /\ DOMAIN net' = {} /\ After(net[k]) = NextAt
    BY <1>1, <1>3, <1>4, <1>6
  <2>2. CASE After(net[k]) = q + 2 /\ net[k].part # "head"
    <3>1. (q + 1) + 1 = NextAt' /\ (~closed => ~half)
      BY <1>4, <1>6, <1>u, <2>1, <2>2
    <3> QED BY <1>u, <2>1, <3>1 DEF Chain
  <2>3. CASE After(net[k]) = q + 1 /\ closed /\ net[1].part = "head" /\ k = 1
    <3>1. half
      BY <1>1, <1>4, <1>6, <2>3 DEF RelayInv, HeadsInv
    <3>2. closed' /\ half' /\ q + 1 = NextAt'
      BY <1>u, <2>1, <2>3, <3>1
    <3> QED BY <2>1, <3>2 DEF Chain
  <2> QED BY <1>5, <2>2, <2>3
<1>7. CASE Len(net) # k
  <2>1. /\ 1 \in 1..(Len(net) - k) /\ k + 1 \in DOMAIN net /\ k + 1 > 1
        /\ (k + 1) - 1 = k /\ net' # <<>> /\ net'[1] = net[k + 1]
        /\ net'[Len(net')] = net[Len(net)]
    <3> DEFINE n == Len(net)
               m == Len(net')
    <3>0. n \in Nat /\ k \in {1, 2} /\ k <= n /\ n # k /\ m = n - k
      BY <1>1, <1>2, <1>3, <1>7
    <3>1. /\ 1 \in 1..(n - k) /\ k + 1 \in 1..n /\ k + 1 > 1
          /\ (k + 1) - 1 = k /\ m # 0 /\ 1 + k = k + 1
          /\ m \in 1..(n - k) /\ m + k = n
      <4> HIDE DEF n, m
      <4> QED BY <3>0
    <3>2. k + 1 \in DOMAIN net /\ net' # <<>>
      BY <1>1, <1>3, <3>1
    <3>3. net'[1] = net[1 + k] /\ net'[m] = net[m + k]
      BY <1>3, <3>1
    <3> QED BY <3>1, <3>2, <3>3
  <2>2. After(net[k]) = q + 2 /\ net[k].part # "head"
    BY <1>5, <1>7
  <2>3. At(net[k + 1].line) = After(net[k]) /\ net[k + 1].part # "tail"
    BY <1>4, <2>1, <2>2
  <2>4. At(net'[1].line) = (q + 1) + 1 /\ net'[1].part # "tail"
    BY <2>1, <2>2, <2>3
  <2>5. ASSUME NEW j \in DOMAIN net', j > 1
        PROVE  /\ At(net'[j].line) = After(net'[j - 1])
               /\ net'[j].part = "tail" => net'[j - 1].part = "head"
    <3>0. j \in 1..(Len(net) - k)
      BY <1>3
    <3>1. /\ j + k \in DOMAIN net /\ j + k > 1 /\ (j + k) - 1 = (j - 1) + k
          /\ j \in 1..(Len(net) - k) /\ j - 1 \in 1..(Len(net) - k)
      <4> DEFINE n == Len(net)
      <4>1. n \in Nat /\ k \in {1, 2} /\ j \in 1..(n - k) /\ j > 1
        BY <1>1, <1>2, <2>5, <3>0
      <4>2. /\ j + k \in 1..n /\ j + k > 1 /\ (j + k) - 1 = (j - 1) + k
            /\ j - 1 \in 1..(n - k)
        <5> HIDE DEF n
        <5> QED BY <4>1
      <4> QED BY <1>1, <4>1, <4>2
    <3>2. net'[j] = net[j + k] /\ net'[j - 1] = net[(j - 1) + k]
      BY <1>3, <3>1
    <3>3. /\ At(net[j + k].line) = After(net[(j + k) - 1])
          /\ net[j + k].part = "tail" => net[(j + k) - 1].part = "head"
      BY <1>4, <3>1
    <3> QED BY <3>1, <3>2, <3>3
  <2>6. ~closed => (half <=> net'[Len(net')].part = "head")
    BY <1>4, <2>1
  <2>7. After(net'[Len(net')]) = NextAt'
    BY <1>4, <1>u, <2>1
  <2> QED BY <1>u, <2>1, <2>4, <2>5, <2>6, <2>7 DEF Chain, At, After
<1> QED BY <1>6, <1>7

(* What is told of an answer whose last event may be cut off. *)
LEMMA AlmostAll ==
    ASSUME NEW s \in Seq(Event), NEW r \in Nat, r = Len(s) \/ r = Len(s) - 1,
           NEW part,
           \/ part = s /\ (r = Len(s) \/ Delta(s[Len(s)]) = <<>>)
           \/ part = Front(s) /\ Len(s) >= 1,
           NEW kind
    PROVE  /\ IsPrefix(Deltas(part, kind), Deltas(SubSeq(s, 1, r), kind))
           /\ IsPrefix(Deltas(SubSeq(s, 1, r), kind), Deltas(s, kind))
<1>0. Len(s) \in Nat
  BY LenProperties
<1>1. SubSeq(s, 1, Len(s)) = s
  BY SubSeqFull
<1>2. Deltas(s, kind) \in Seq(Numbers)
  <2>1. Len(s) \in 0..Len(s)
    BY <1>0
  <2>2. Deltas(SubSeq(s, 1, Len(s)), kind) \in Seq(Numbers)
    BY <2>1, NextDeltas
  <2> QED BY <1>1, <2>2
<1>3. IsPrefix(Deltas(s, kind), Deltas(s, kind))
  BY <1>2, PrefixIs
<1>4. CASE Len(s) = 0
  <2>1. r = Len(s) /\ part = s
    BY <1>4
  <2> QED BY <1>1, <1>3, <2>1
<1>5. CASE Len(s) # 0
  <2>1. PICK m \in Nat : m = Len(s) - 1
    BY <1>0, <1>5
  <2>2. m \in 0..Len(s) /\ m < Len(s) /\ m + 1 = Len(s) /\ (r = Len(s) \/ r = m)
    BY <1>0, <2>1
  <2>3. PICK x : x = IF s[Len(s)].kind = kind THEN Delta(s[Len(s)]) ELSE <<>>
    OBVIOUS
  <2>4. PICK d : d = Deltas(SubSeq(s, 1, m), kind)
    OBVIOUS
  <2>5. d \in Seq(Numbers) /\ Deltas(s, kind) = d \o x
    <3>1. /\ Deltas(SubSeq(s, 1, m), kind) \in Seq(Numbers)
          /\ Deltas(SubSeq(s, 1, m + 1), kind)
               = Deltas(SubSeq(s, 1, m), kind)
                   \o (IF s[m + 1].kind = kind THEN Delta(s[m + 1]) ELSE <<>>)
      BY <2>2, NextDeltas
    <3> QED BY <1>1, <2>2, <2>3, <2>4, <3>1
  <2>6. x \in Seq(Numbers)
    <3>1. Len(s) \in 1..Len(s)
      BY <1>0, <1>5
    <3>2. s[Len(s)] \in Event
      BY <3>1, ElementOfSeq
    <3> QED BY <2>3, <3>2, DeltaIs
  <2>7. IsPrefix(d, d) /\ IsPrefix(d, Deltas(s, kind))
    BY <2>5, <2>6, PrefixIs
  <2>8. Delta(s[Len(s)]) = <<>> => Deltas(s, kind) = d
    <3>1. d \o <<>> = d
      BY <2>5, ConcatEmptySeq
    <3> QED BY <2>3, <2>5, <3>1
  <2>9. Deltas(Front(s), kind) = d
    BY <2>1, <2>4 DEF Front
  <2>10. CASE r = Len(s)
    BY <1>1, <1>3, <2>7, <2>9, <2>10
  <2>11. CASE r = m
    BY <1>3, <2>2, <2>4, <2>7, <2>8, <2>9, <2>11
  <2> QED BY <2>2, <2>10, <2>11
<1> QED BY <1>4, <1>5

(* The answer, now and in the next state, by its frames. *)
LEMMA AnswerIs ==
    /\ Answer = IF protocol = "nonstream" THEN acc ELSE ShowsIn(out, "text")
    /\ Answer' = IF protocol' = "nonstream" THEN acc' ELSE ShowsIn(out', "text")
    /\ Shows("reasoning") = ShowsIn(out, "reasoning")
    /\ Shows("reasoning")' = ShowsIn(out', "reasoning")
BY DEF Answer, Shows, ShowsIn

(* What does not show leaves what is told. *)
LEMMA StillTold ==
    ASSUME NEW r, ToldTo(r), UNCHANGED <<protocol, acc>>,
           protocol # "nonstream" =>
             \A type \in Told : ShowsIn(out', type) = ShowsIn(out, type),
           SubSeq(sent', 1, r) = SubSeq(sent, 1, r)
    PROVE  ToldTo(r)'
<1>1. /\ Answer' = Answer
      /\ protocol # "nonstream" => Shows("reasoning")' = Shows("reasoning")
  BY AnswerIs DEF Told
<1>2. ToldTo(r)' = (/\ Answer' = Deltas(SubSeq(sent', 1, r), "chunk")
                    /\ protocol' # "nonstream" =>
                         Shows("reasoning")' = Deltas(SubSeq(sent', 1, r), "thinking"))
  BY DEF ToldTo, Deltas, Delta
<1> QED BY <1>1, <1>2 DEF ToldTo

(* The stream ends when everything is told, or all but what was cut off or     *)
(* shows nothing.                                                             *)
LEMMA EndComplete ==
    ASSUME RelayInv, NEW r \in Nat, ToldTo(r),
           r = Len(sent) \/ r = Len(sent) - 1,
           r # Len(sent) => lines # <<>> \/ Delta(sent[Len(sent)]) = <<>>,
           NEW frames, Finish(frames), UNCHANGED <<protocol, upstream>>,
           \/ frames = <<>> \/ frames = <<Frame("empty", <<>>)>>
           \/ \E name \in Terminal, e \in Event : frames = Shown(name, e)
    PROVE  finished' /\ Complete'
<1>1. UNCHANGED <<sent, lines>>
  BY DEF upstream
<1>2. sent \in Seq(Event) /\ (lines # <<>> => Len(sent) >= 1)
  BY LinesAre DEF RelayInv, Typed
<1>3. /\ finished' = TRUE
      /\ ToldTo(r)'
  <2>1. /\ acc' = acc /\ finished' = TRUE
        /\ protocol # "nonstream" =>
             \A type \in Told : ShowsIn(out', type) = ShowsIn(out, type)
    BY EndShows
  <2> QED BY <1>1, <2>1, StillTold
<1> DEFINE part == IF lines = <<>> THEN sent ELSE Front(sent)
<1>4. ASSUME NEW kind
      PROVE  /\ IsPrefix(Deltas(part, kind), Deltas(SubSeq(sent, 1, r), kind))
             /\ IsPrefix(Deltas(SubSeq(sent, 1, r), kind), Deltas(sent, kind))
  <2>1. \/ part = sent /\ (r = Len(sent) \/ Delta(sent[Len(sent)]) = <<>>)
        \/ part = Front(sent) /\ Len(sent) >= 1
    BY <1>2
  <2> HIDE DEF part
  <2> QED BY <1>2, <2>1, AlmostAll
<1>5. Delivered' = part
  BY <1>1 DEF Delivered
<1>6. /\ Answer' = Deltas(SubSeq(sent, 1, r), "chunk")
      /\ protocol' # "nonstream" =>
           Shows("reasoning")' = Deltas(SubSeq(sent, 1, r), "thinking")
  <2>1. ToldTo(r)' = (/\ Answer' = Deltas(SubSeq(sent', 1, r), "chunk")
                      /\ protocol' # "nonstream" =>
                           Shows("reasoning")' = Deltas(SubSeq(sent', 1, r), "thinking"))
    BY DEF ToldTo, Deltas, Delta
  <2> QED BY <1>1, <1>3, <2>1
<1>7. Complete' = (/\ IsPrefix(Deltas(Delivered', "chunk"), Answer')
                   /\ IsPrefix(Answer', Deltas(sent', "chunk"))
                   /\ protocol' # "nonstream" =>
                       /\ IsPrefix(Deltas(Delivered', "thinking"), Shows("reasoning")')
                       /\ IsPrefix(Shows("reasoning")', Deltas(sent', "thinking")))
  BY DEF Complete, Deltas, Delta, IsPrefix
<1> HIDE DEF part
<1> QED BY <1>1, <1>3, <1>4, <1>5, <1>6, <1>7

-------------------------------------------------------------------------------
(* The steps. *)

LEMMA SendEventGoes ==
    ASSUME RelayInv, Known, NEW r, NEW b, Progress(r, b), NEW e \in Event, SendEvent(e)
    PROVE  Known' /\ Progress(r, b)'
<1>1. /\ lines = <<>> /\ ~closed /\ e.n = Len(sent) + 1
      /\ \A i \in DOMAIN sent : sent[i].kind \notin Terminal
      /\ lines' = <<[what |-> "event", of |-> e], [what |-> "data", of |-> e]>>
      /\ UNCHANGED <<protocol, half, net, closed, pending, acc, out>>
  BY DEF SendEvent, Open, reader
<1>2. /\ Len(sent) \in Nat /\ DOMAIN sent = 1..Len(sent) /\ sent \in Seq(Event)
      /\ NextAt = 2 * Len(sent) + 1
  BY <1>1, LinesAre DEF RelayInv, Typed
<1>3. /\ sent' = Append(sent, e) /\ Len(sent') = Len(sent) + 1
      /\ DOMAIN sent' = 1..(Len(sent) + 1)
      /\ sent'[Len(sent) + 1] = e
      /\ \A j \in DOMAIN sent : sent'[j] = sent[j]
  BY <1>2, AppendProperties, LenProperties DEF SendEvent
<1>4. Head(lines') = [what |-> "event", of |-> e] /\ lines' # <<>>
  BY <1>1
<1>5. NextAt' = NextAt
  <2>1. At(Head(lines')) = 2 * (Len(sent) + 1) - 1
    BY <1>1, <1>4 DEF At
  <2>2. 2 * (Len(sent) + 1) - 1 = 2 * Len(sent) + 1
    BY <1>2
  <2>3. NextAt' = At(Head(lines'))
    BY <1>4 DEF NextAt, At
  <2> QED BY <1>2, <2>1, <2>2, <2>3
<1>6. Known'
  <2>1. ASSUME NEW j \in DOMAIN sent'
        PROVE  sent'[j].n = j /\ (j < Len(sent') => sent'[j].kind \notin Terminal)
    <3>1. CASE j \in DOMAIN sent
      BY <1>1, <1>3, <3>1 DEF Known
    <3>2. CASE j \notin DOMAIN sent
      <4>1. j = Len(sent) + 1
        BY <1>2, <1>3, <3>2
      <4> QED BY <1>1, <1>2, <1>3, <4>1
    <3> QED BY <3>1, <3>2
  <2>2. Head(lines').of = sent'[Len(sent')]
    BY <1>3, <1>4
  <2>3. ASSUME NEW j \in DOMAIN net'
        PROVE  /\ net'[j].line.of.n \in DOMAIN sent'
               /\ net'[j].line.of = sent'[net'[j].line.of.n]
    <3>1. /\ net[j].line.of.n \in DOMAIN sent
          /\ net[j].line.of = sent[net[j].line.of.n]
      BY <1>1 DEF Known
    <3> QED BY <1>1, <1>2, <1>3, <3>1
  <2> QED BY <2>1, <2>2, <2>3 DEF Known
<1>7. r \in 0..Len(sent) /\ b \in {0, 1} /\ ToldTo(r) /\ Chain(2 * r + b)
      /\ (b = 1 => r < Len(sent) /\ pending = sent[r + 1].kind)
  BY DEF Progress
<1>8. ToldTo(r)'
  <2>1. SubSeq(sent', 1, r) = SubSeq(sent, 1, r)
    BY <1>2, <1>3, <1>7, SameBefore
  <2> QED BY <1>1, <1>7, <2>1, StillTold
<1>9. Chain(2 * r + b)'
  <2>1. PICK q : q = 2 * r + b
    OBVIOUS
  <2>2. Chain(q)
    BY <1>7, <2>1
  <2>3. Chain(q)'
    BY <1>1, <1>5, <2>2 DEF Chain, At, After
  <2> QED BY <2>1, <2>3
<1>10. b = 1 => r < Len(sent') /\ pending' = sent'[r + 1].kind
  <2> SUFFICES ASSUME b = 1 PROVE r < Len(sent') /\ pending' = sent'[r + 1].kind
    OBVIOUS
  <2>1. r \in Nat /\ r < Len(sent) /\ r + 1 \in DOMAIN sent
    BY <1>2, <1>7
  <2> QED BY <1>1, <1>2, <1>3, <1>7, <2>1
<1>11. r \in 0..Len(sent')
  BY <1>2, <1>3, <1>7
<1> QED BY <1>6, <1>7, <1>8, <1>9, <1>10, <1>11 DEF Progress

(* A piece arrives. *)
LEMMA SendGoes ==
    ASSUME RelayInv, Known, NEW r, NEW b, Progress(r, b), SendLine \/ SendHead
    PROVE  Known' /\ Progress(r, b)'
<1>1. /\ ~closed /\ lines # <<>>
      /\ UNCHANGED <<protocol, sent, closed, pending, acc, out>>
  BY DEF SendLine, SendHead, Open, reader
<1>2. PICK part \in {"whole", "head", "tail"} :
        /\ (part = "tail") <=> half
        /\ net' = Part(part)
        /\ IF part = "head" THEN half' = TRUE /\ lines' = lines
           ELSE half' = FALSE /\ lines' = Tail(lines)
  <2>h. half \in BOOLEAN
    BY DEF RelayInv, Typed
  <2>1. CASE SendLine /\ ~half /\ net' = Part("whole")
    BY <2>1 DEF SendLine
  <2>2. CASE SendLine /\ half /\ net' = Part("tail")
    BY <2>2 DEF SendLine
  <2>3. CASE SendHead
    BY <2>3 DEF SendHead
  <2> QED BY <2>h, <2>1, <2>2, <2>3 DEF SendLine
<1>3. r \in 0..Len(sent) /\ b \in {0, 1} /\ ToldTo(r) /\ Chain(2 * r + b)
      /\ (b = 1 => r < Len(sent) /\ pending = sent[r + 1].kind)
      /\ Len(sent) \in Nat /\ DOMAIN sent = 1..Len(sent)
  BY LinesAre DEF Progress
<1>4. Chain(2 * r + b)'
  <2>1. PICK q \in Nat : q = 2 * r + b
    <3>1. 2 * r + b \in Nat
      BY <1>3
    <3> QED BY <3>1
  <2>2. Chain(q)
    BY <1>3, <2>1
  <2>3. Chain(q)'
    BY <1>1, <1>2, <2>2, ChainArrives
  <2> QED BY <2>1, <2>3
<1>5. ToldTo(r)'
  BY <1>1, <1>3, StillTold
<1>6. Known'
  <2> DEFINE new == [part |-> part, line |-> Head(lines)]
  <2>1. /\ Head(lines) \in Line /\ Head(lines).of.n = Len(sent) /\ Len(sent) >= 1
        /\ Head(lines).of = sent[Len(sent)]
    BY <1>1, LinesAre DEF Known
  <2>2. new \in Piece /\ new.line = Head(lines)
    BY <2>1 DEF Piece
  <2>3. /\ DOMAIN net' = 1..(Len(net) + 1) /\ Len(net) \in Nat
        /\ DOMAIN net = 1..Len(net)
        /\ net'[Len(net) + 1] = new
        /\ \A j \in 1..Len(net) : net'[j] = net[j]
    <3>1. net' = Append(net, new) /\ net \in Seq(Piece)
      BY <1>2 DEF Part, RelayInv, Typed
    <3> QED BY <2>2, <3>1, AppendProperties, LenProperties
  <2> HIDE DEF new
  <2>4. ASSUME NEW j \in DOMAIN net'
        PROVE  /\ net'[j].line.of.n \in DOMAIN sent
               /\ net'[j].line.of = sent[net'[j].line.of.n]
    <3>1. CASE j \in DOMAIN net
      BY <2>3, <3>1 DEF Known
    <3>2. CASE j \notin DOMAIN net
      <4>1. net'[j] = new
        BY <2>3, <3>2
      <4> QED BY <1>3, <2>1, <2>2, <4>1
    <3> QED BY <3>1, <3>2
  <2>5. lines' # <<>> => Head(lines').of = sent[Len(sent)]
    <3>1. CASE lines' = lines
      BY <2>1, <3>1
    <3>2. CASE lines' = Tail(lines)
      BY <1>1, <2>1, <3>2, LineSent
    <3> QED BY <1>2, <3>1, <3>2
  <2> QED BY <1>1, <2>4, <2>5 DEF Known
<1> QED BY <1>1, <1>3, <1>4, <1>5, <1>6 DEF Progress

(* Pieces are read: what is left is known as before. *)
LEMMA KnownTaken ==
    ASSUME RelayInv, Known, NEW k, Taken(k)
    PROVE  Known'
<1>1. UNCHANGED <<sent, lines>>
  BY DEF Taken, upstream
<1>2. /\ DOMAIN net' = 1..(Len(net) - k)
      /\ \A j \in 1..(Len(net) - k) : j + k \in DOMAIN net /\ net'[j] = net[j + k]
  BY TakenIs
<1>3. ASSUME NEW j \in DOMAIN net'
      PROVE  /\ net'[j].line.of.n \in DOMAIN sent
             /\ net'[j].line.of = sent[net'[j].line.of.n]
  BY <1>2 DEF Known
<1> QED BY <1>1, <1>3 DEF Known

(* The opening frame, the end of the connection. *)
LEMMA OthersGo ==
    ASSUME RelayInv, Known, NEW r, NEW b, Progress(r, b), Start \/ Close
    PROVE  Known' /\ Progress(r, b)'
<1>1. /\ UNCHANGED <<protocol, sent, lines, half, net, pending, acc>>
      /\ closed' = closed \/ closed' = TRUE
  BY DEF Start, Close, reader, upstream
<1>2. protocol # "nonstream" =>
        \A type \in Told : ShowsIn(out', type) = ShowsIn(out, type)
  <2>1. CASE Start
    BY <2>1, StartShows
  <2>2. CASE Close
    BY <2>2 DEF Close, reader
  <2> QED BY <2>1, <2>2
<1>3. r \in 0..Len(sent) /\ b \in {0, 1} /\ ToldTo(r) /\ Chain(2 * r + b)
      /\ (b = 1 => r < Len(sent) /\ pending = sent[r + 1].kind)
  BY DEF Progress
<1>4. ToldTo(r)'
  BY <1>1, <1>2, <1>3, StillTold
<1>5. Chain(2 * r + b)'
  <2>1. PICK q : q = 2 * r + b
    OBVIOUS
  <2>2. NextAt' = NextAt
    BY <1>1 DEF NextAt, At
  <2>3. Chain(q)
    BY <1>3, <2>1
  <2>c. closed \in BOOLEAN
    BY DEF RelayInv, Typed
  <2>4. Chain(q)'
    BY <1>1, <2>2, <2>3, <2>c DEF Chain, At, After
  <2> QED BY <2>1, <2>4
<1>6. Known'
  BY <1>1 DEF Known
<1> QED BY <1>1, <1>3, <1>4, <1>5, <1>6 DEF Progress

(* The line read next, by its number. *)
LEMMA NextLine ==
    ASSUME RelayInv, Known, NEW r, NEW b, Progress(r, b), net # <<>>
    PROVE  /\ net[1].line.of \in Event
           /\ net[1].line.what = "event" =>
                /\ b = 0 /\ r < Len(sent) /\ net[1].line.of = sent[r + 1]
           /\ net[1].line.what = "data" =>
                /\ b = 1 /\ r < Len(sent) /\ net[1].line.of = sent[r + 1]
<1>1. Len(net) \in Nat /\ DOMAIN net = 1..Len(net) /\ net \in Seq(Piece)
  BY NetIs DEF RelayInv, Typed
<1>2. 1 \in DOMAIN net
  BY <1>1
<1>3. net[1].line.of \in Event /\ net[1].line.what \in {"event", "data"}
  BY <1>2, NetIs DEF RelayInv
<1>4. /\ net[1].line.of.n \in DOMAIN sent /\ net[1].line.of = sent[net[1].line.of.n]
  BY <1>2 DEF Known
<1>5. /\ r \in 0..Len(sent) /\ b \in {0, 1} /\ At(net[1].line) = (2 * r + b) + 1
      /\ Len(sent) \in Nat /\ DOMAIN sent = 1..Len(sent)
  BY LinesAre DEF Progress, Chain
<1>6. PICK n \in Nat : n = net[1].line.of.n /\ n <= Len(sent)
  BY <1>4, <1>5
<1>7. ASSUME net[1].line.what = "event" PROVE b = 0 /\ n = r + 1
  <2>1. At(net[1].line) = 2 * n - 1
    BY <1>6, <1>7 DEF At
  <2>2. 2 * n - 1 = (2 * r + b) + 1
    BY <1>5, <2>1
  <2> QED BY <1>5, <1>6, <2>2
<1>8. ASSUME net[1].line.what = "data" PROVE b = 1 /\ n = r + 1
  <2>1. At(net[1].line) = 2 * n
    BY <1>6, <1>8 DEF At
  <2>2. 2 * n = (2 * r + b) + 1
    BY <1>5, <2>1
  <2> QED BY <1>5, <1>6, <2>2
<1>9. n = r + 1 => r < Len(sent) /\ net[1].line.of = sent[r + 1]
  BY <1>4, <1>5, <1>6
<1> QED BY <1>3, <1>7, <1>8, <1>9

LEMMA LastOne ==
    ASSUME NEW n \in Nat, NEW m \in Nat, m + 1 \in 1..n, ~(m + 1 < n)
    PROVE  m + 1 = n /\ m = n - 1
OBVIOUS

(* A line is read. *)
LEMMA LineGoes ==
    ASSUME RelayInv, Known, NEW r, NEW b, Progress(r, b), Reading, net # <<>>,
           NEW k, Taken(k),
           \/ k = 1 /\ net[1].part = "whole"
           \/ k = 1 /\ net[1].part = "head" /\ Len(net) = 1 /\ closed
           \/ k = 2 /\ net[1].part = "head",
           NameLine(net[1].line) \/ DataLine(net[1].line)
    PROVE  \/ finished' /\ Complete'
           \/ ~finished' /\ Known' /\ \E r2, b2 : Progress(r2, b2)'
<1>1. /\ UNCHANGED <<protocol, upstream, sent, lines, half, closed>> /\ ~finished
  BY DEF Taken, upstream, Reading
<1>2. Known'
  BY KnownTaken
<1>3. r \in 0..Len(sent) /\ b \in {0, 1} /\ ToldTo(r) /\ Chain(2 * r + b)
      /\ (b = 1 => r < Len(sent) /\ pending = sent[r + 1].kind)
      /\ Len(sent) \in Nat /\ DOMAIN sent = 1..Len(sent)
      /\ sent \in Seq(Event)
  BY LinesAre DEF Progress, RelayInv, Typed
<1>n. r \in Nat /\ Len(sent) \in Nat /\ DOMAIN sent = 1..Len(sent)
  BY <1>3
<1>4. Chain((2 * r + b) + 1)'
  <2>1. PICK q \in Nat : q = 2 * r + b
    <3>1. 2 * r + b \in Nat
      BY <1>3
    <3> QED BY <3>1
  <2>2. Chain(q)
    BY <1>3, <2>1
  <2>3. Chain(q + 1)'
    BY <2>2, ChainTaken
  <2> QED BY <2>1, <2>3
<1>5. CASE NameLine(net[1].line)
  <2>1. b = 0 /\ r < Len(sent) /\ net[1].line.of = sent[r + 1]
    BY <1>5, NextLine DEF NameLine
  <2>2. /\ pending' = sent[r + 1].kind
        /\ UNCHANGED <<finished, acc, out>>
    BY <1>5, <2>1 DEF NameLine
  <2>3. ToldTo(r)'
    BY <1>1, <1>3, <2>2, StillTold
  <2>4. (2 * r + b) + 1 = 2 * r + 1
    BY <1>3, <2>1
  <2>5. Chain(2 * r + 1)'
    BY <1>4, <2>4
  <2>6. Progress(r, 1)'
    BY <1>1, <1>3, <2>1, <2>2, <2>3, <2>5 DEF Progress
  <2> QED BY <1>1, <1>2, <2>2, <2>6
<1>6. CASE DataLine(net[1].line)
  <2>1. b = 1 /\ r < Len(sent) /\ net[1].line.of = sent[r + 1]
    BY <1>6, NextLine DEF DataLine
  <2>2. PICK e \in Event : e = sent[r + 1]
    <3>1. r + 1 \in DOMAIN sent
      BY <1>3, <2>1
    <3> QED BY <3>1, LinesAre
  <2>3. pending = e.kind
    BY <1>3, <2>1, <2>2
  <2>4. CASE pending \in Terminal
    <3>1. r + 1 = Len(sent) /\ r = Len(sent) - 1
      <4>1. r + 1 \in DOMAIN sent
        BY <1>3, <2>1
      <4>2. ~(r + 1 < Len(sent))
        BY <2>2, <2>3, <2>4, <4>1 DEF Known
      <4>3. r + 1 \in 1..Len(sent)
        BY <1>n, <4>1, Zenon
      <4> QED BY <1>n, <4>2, <4>3, LastOne, Zenon
    <3>2. Delta(e) = <<>>
      BY <2>3, <2>4 DEF Delta, Terminal
    <3>3. PICK frames : frames = Shown(pending, e)
      OBVIOUS
    <3>4. Finish(frames)
      BY <1>6, <2>1, <2>2, <2>4, <3>3 DEF DataLine
    <3>5. /\ r \in Nat /\ r = Len(sent) - 1
          /\ Delta(sent[Len(sent)]) = <<>>
      <4>1. sent[Len(sent)] = e
        BY <2>2, <3>1, Zenon
      <4> QED BY <1>n, <3>1, <3>2, <4>1, Zenon
    <3> QED BY <1>1, <1>3, <2>4, <3>3, <3>4, <3>5, EndComplete
  <2>5. CASE pending \notin Terminal
    <3>1. finished' = finished
      BY <1>6, <2>5 DEF DataLine
    <3> DEFINE text == IF e.kind = "chunk" THEN Delta(e) ELSE <<>>
               thought == IF e.kind = "thinking" THEN Delta(e) ELSE <<>>
    <3>2. /\ acc' = acc \o Collected(pending, e)
          /\ protocol # "nonstream" =>
               /\ ShowsIn(out', "text") = ShowsIn(out, "text") \o text
               /\ ShowsIn(out', "reasoning") = ShowsIn(out, "reasoning") \o thought
      <4>1. PICK line : line = net[1].line
        OBVIOUS
      <4>2. DataLine(line) /\ line.of = e
        BY <1>6, <2>1, <2>2, <4>1
      <4> QED BY <1>1, <2>3, <2>5, <4>2, DataShows
    <3>3. protocol = "nonstream" => Collected(pending, e) = text
      BY <2>3 DEF Collected
    <3>4. /\ Deltas(SubSeq(sent, 1, r + 1), "chunk")
               = Deltas(SubSeq(sent, 1, r), "chunk") \o text
          /\ Deltas(SubSeq(sent, 1, r + 1), "thinking")
               = Deltas(SubSeq(sent, 1, r), "thinking") \o thought
      BY <1>3, <2>1, <2>2, NextDeltas
    <3> HIDE DEF text, thought
    <3>5. Answer' = Answer \o text
      BY <1>1, <3>2, <3>3, AnswerIs
    <3>6. protocol # "nonstream" => Shows("reasoning")' = Shows("reasoning") \o thought
      BY <3>2, AnswerIs
    <3>7. ToldTo(r + 1)'
      <4>1. ToldTo(r + 1)'
              = (/\ Answer' = Deltas(SubSeq(sent', 1, r + 1), "chunk")
                 /\ protocol' # "nonstream" =>
                      Shows("reasoning")' = Deltas(SubSeq(sent', 1, r + 1), "thinking"))
        BY DEF ToldTo, Deltas, Delta
      <4>2. /\ Answer = Deltas(SubSeq(sent, 1, r), "chunk")
            /\ protocol # "nonstream" =>
                 Shows("reasoning") = Deltas(SubSeq(sent, 1, r), "thinking")
        BY <1>3 DEF ToldTo
      <4> QED BY <1>1, <3>4, <3>5, <3>6, <4>1, <4>2
    <3>8. Chain(2 * (r + 1) + 0)'
      <4>1. (2 * r + b) + 1 = 2 * (r + 1) + 0
        BY <1>3, <2>1
      <4> QED BY <1>4, <4>1
    <3>9. r + 1 \in 0..Len(sent') /\ 0 \in {0, 1} /\ 0 # 1
      BY <1>1, <1>3, <2>1
    <3>10. Progress(r + 1, 0)'
      BY <3>7, <3>8, <3>9 DEF Progress
    <3> QED BY <1>1, <1>2, <3>1, <3>10
  <2> QED BY <2>4, <2>5
<1> QED BY <1>5, <1>6

(* The end of the body, or of a line that was never sent whole. *)
LEMMA EndGoes ==
    ASSUME RelayInv, Known, NEW r, NEW b, Progress(r, b), ReadRest \/ ReadEnd
    PROVE  \/ finished' /\ Complete'
           \/ ~finished' /\ Known' /\ Progress(r, b)'
<1>1. /\ Reading /\ UNCHANGED <<protocol, upstream, sent, lines, half, closed>> /\ ~finished
  BY DEF ReadRest, ReadEnd, Reading, upstream
<1>2. r \in 0..Len(sent) /\ b \in {0, 1} /\ ToldTo(r) /\ Chain(2 * r + b)
      /\ (b = 1 => r < Len(sent) /\ pending = sent[r + 1].kind)
      /\ Len(sent) \in Nat
  BY LinesAre DEF Progress
<1>3. CASE ReadEnd
  <2>1. net = <<>> /\ \E frames : /\ frames = <<>> \/ frames = <<Frame("empty", <<>>)>>
                                  /\ Finish(frames)
    BY <1>3 DEF ReadEnd
  <2>2. PICK frames : /\ frames = <<>> \/ frames = <<Frame("empty", <<>>)>>
                      /\ Finish(frames)
    BY <2>1
  <2>3. PICK q \in Nat : q = 2 * r + b
    <3>1. 2 * r + b \in Nat
      BY <1>2
    <3> QED BY <3>1
  <2>4. q + 1 = NextAt \/ (half /\ q = NextAt)
    BY <1>2, <2>1, <2>3 DEF Chain
  <2>5. r = Len(sent) \/ (r = Len(sent) - 1 /\ lines # <<>>)
    <3>1. CASE lines = <<>>
      <4>1. q + 1 = 2 * Len(sent) + 1
        BY <2>4, <3>1, LinesAre
      <4> QED BY <1>2, <2>3, <4>1
    <3>2. CASE lines # <<>>
      <4>1. q \in {2 * Len(sent) - 2, 2 * Len(sent) - 1, 2 * Len(sent)}
        <5>1. NextAt = 2 * Len(sent) - 1 \/ NextAt = 2 * Len(sent)
          BY <3>2, LinesAre
        <5> QED BY <1>2, <2>4, <5>1
      <4> QED BY <1>2, <2>3, <3>2, <4>1
    <3> QED BY <3>1, <3>2
  <2>6. r \in Nat
    BY <1>2
  <2> QED BY <1>1, <1>2, <2>2, <2>5, <2>6, EndComplete
<1>4. CASE ReadRest
  <2>0. Len(net) \in Nat /\ DOMAIN net = 1..Len(net) /\ net \in Seq(Piece)
    BY NetIs DEF RelayInv, Typed
  <2>1. /\ net # <<>> /\ Head(net) = net[1] /\ net' = Tail(net)
        /\ Head(net).part = "tail" \/ (Head(net).part = "head" /\ Len(net) = 1 /\ closed)
        /\ UNCHANGED reader \/ (Head(net).line.what = "data" /\ Finish(<<>>))
    BY <1>4 DEF ReadRest
  <2>2. /\ net[1].part = "head" /\ Len(net) = 1 /\ closed
        /\ At(net[1].line) = (2 * r + b) + 1 /\ After(net[1]) = NextAt
        /\ half
    <3>1. net[1].part # "tail" /\ At(net[1].line) = (2 * r + b) + 1
      BY <1>2, <2>1 DEF Chain
    <3>2. net[1].part = "head" /\ Len(net) = 1 /\ closed
      BY <2>1, <3>1
    <3>3. After(net[Len(net)]) = NextAt
      BY <1>2, <2>1 DEF Chain
    <3>4. half
      <4>1. 1 \in DOMAIN net
        BY <2>0, <3>2
      <4> QED BY <3>2, <4>1 DEF RelayInv, HeadsInv
    <3> QED BY <3>1, <3>2, <3>3, <3>4
  <2>3. lines # <<>>
    BY <2>2, LinesAre
  <2>4. CASE UNCHANGED reader
    <3>1. UNCHANGED <<finished, pending, acc, out>>
      BY <2>4 DEF reader
    <3>2. Taken(1)
      BY <1>1, <2>0, <2>1, <2>2 DEF Taken
    <3>3. Known'
      BY <3>2, KnownTaken
    <3>4. ToldTo(r)'
      BY <1>1, <1>2, <3>1, StillTold
    <3>5. Chain(2 * r + b)'
      <4>1. PICK q \in Nat : q = 2 * r + b
        <5>1. 2 * r + b \in Nat
          BY <1>2
        <5> QED BY <5>1
      <4>2. q + 1 = NextAt
        BY <2>2, <4>1 DEF After
      <4>3. NextAt' = NextAt
        BY <1>1 DEF NextAt, At
      <4>4. net' = <<>> /\ DOMAIN net' = {}
        <5>1. Tail(net) \in Seq(Piece) /\ Len(Tail(net)) = 0
          BY <2>0, <2>1, <2>2, HeadTailProperties
        <5>2. net' = <<>>
          BY <2>1, <5>1, EmptySeq
        <5> QED BY <5>2
      <4>5. Chain(q)'
        BY <1>1, <2>2, <4>2, <4>3, <4>4 DEF Chain
      <4> QED BY <4>1, <4>5
    <3> QED BY <1>1, <1>2, <3>1, <3>3, <3>4, <3>5 DEF Progress
  <2>5. CASE Head(net).line.what = "data" /\ Finish(<<>>)
    <3>1. b = 1 /\ r < Len(sent)
      BY <2>1, <2>5, NextLine
    <3>2. NextAt = (2 * r + 1) + 1
      <4>1. After(net[1]) = At(net[1].line) + 0
        BY <2>2 DEF After
      <4>2. ((2 * r + b) + 1) + 0 = (2 * r + 1) + 1
        BY <1>2, <3>1
      <4> QED BY <2>2, <4>1, <4>2
    <3>3. r = Len(sent) - 1 /\ r \in Nat
      <4>1. r \in Nat /\ Len(sent) \in Nat
        BY <1>2
      <4>2. PICK n \in Nat : n = Len(sent)
        BY <4>1
      <4>3. r < n /\ (2 * r + 2 = 2 * n - 1 \/ 2 * r + 2 = 2 * n)
        <5>1. NextAt = 2 * n - 1 \/ NextAt = 2 * n
          BY <2>3, <4>2, LinesAre
        <5>2. (2 * r + 1) + 1 = 2 * r + 2
          BY <4>1
        <5> QED BY <3>1, <3>2, <4>2, <5>1, <5>2
      <4>4. r = n - 1
        BY <4>1, <4>3
      <4> QED BY <4>1, <4>2, <4>4
    <3> QED BY <1>1, <1>2, <2>3, <2>5, <3>3, EndComplete
  <2> QED BY <2>1, <2>4, <2>5
<1> QED BY <1>3, <1>4

LEMMA InitComplete == Init => CompleteInv
<1> SUFFICES ASSUME Init PROVE Known /\ Progress(0, 0) /\ ~finished
  BY DEF CompleteInv
<1>1. /\ sent = <<>> /\ lines = <<>> /\ net = <<>> /\ ~closed /\ ~half /\ ~finished
      /\ acc = <<>> /\ out = <<>>
  BY DEF Init
<1>2. Known
  BY <1>1 DEF Known
<1>3. ToldTo(0)
  <2>1. SubSeq(sent, 1, 0) = <<>>
    BY <1>1
  <2>2. Answer = <<>> /\ Shows("reasoning") = <<>>
    BY <1>1, AnswerIs, NothingSaid
  <2> QED BY <2>1, <2>2, NothingSaid DEF ToldTo
<1>4. Chain(2 * 0 + 0)
  <2>1. NextAt = 2 * 0 + 1 /\ 2 * 0 + 0 = 0
    <3>1. Len(<<>>) = 0
      OBVIOUS
    <3>2. NextAt = 2 * Len(<<>>) + 1
      BY <1>1 DEF NextAt
    <3> QED BY <3>1, <3>2
  <2>2. Chain(0)
    BY <1>1, <2>1 DEF Chain
  <2> QED BY <2>1, <2>2
<1>5. 0 \in 0..Len(sent) /\ 0 # 1
  BY <1>1
<1> QED BY <1>1, <1>2, <1>3, <1>4, <1>5 DEF Progress

LEMMA CompleteStep ==
    ASSUME RelayInv, CompleteInv, [Next]_vars
    PROVE  CompleteInv'
<1> DEFINE Went == \/ finished' /\ Complete'
                   \/ ~finished' /\ Known' /\ \E r, b : Progress(r, b)'
<1>1. CASE UNCHANGED vars
  <2>1. UNCHANGED <<protocol, sent, lines, half, closed, net, finished, pending, acc, out,
                    abandoned>>
    BY <1>1 DEF vars, upstream, reader
  <2>2. Complete => Complete'
    BY <2>1 DEF Complete, Delivered, Answer, Shows, Deltas, Delta
  <2>3. Known => Known'
    BY <2>1 DEF Known
  <2>4. ASSUME NEW r, NEW b, Progress(r, b) PROVE Progress(r, b)'
    BY <2>1, <2>4 DEF Progress, ToldTo, Chain, NextAt, After, At, Answer, Shows, Deltas, Delta
  <2> QED BY <2>1, <2>2, <2>3, <2>4 DEF CompleteInv
<1>2. CASE Next /\ ~finished
  <2>1. SUFFICES ASSUME ~abandoned' PROVE Went
    BY DEF CompleteInv
  <2>2. ~Abandon
    BY <2>1 DEF Abandon
  <2>3. ~abandoned
    <3>1. abandoned' = abandoned
      BY <1>2, <2>2 DEF Next, Read, SendEvent, SendLine, SendHead, Close, Start, ReadLine,
                        ReadRest, ReadEnd
    <3> QED BY <2>1, <3>1
  <2>4. Known
    BY <1>2, <2>3 DEF CompleteInv
  <2>5. PICK r, b : Progress(r, b)
    BY <1>2, <2>3 DEF CompleteInv
  <2>6. ASSUME NEW e \in Event, SendEvent(e) PROVE Went
    <3>1. finished' = finished
      BY <2>6 DEF SendEvent, reader
    <3> QED BY <1>2, <2>4, <2>5, <2>6, <3>1, SendEventGoes
  <2>7. CASE SendLine \/ SendHead
    <3>1. finished' = finished
      BY <2>7 DEF SendLine, SendHead, reader
    <3> QED BY <1>2, <2>4, <2>5, <2>7, <3>1, SendGoes
  <2>8. CASE Start \/ Close
    <3>1. finished' = finished
      BY <2>8 DEF Start, Close, reader
    <3> QED BY <1>2, <2>4, <2>5, <2>8, <3>1, OthersGo
  <2>9. CASE ReadRest \/ ReadEnd
    BY <2>4, <2>5, <2>9, EndGoes
  <2>10. CASE ReadLine
    <3>1. net \in Seq(Piece) /\ Len(net) \in Nat
      BY NetIs DEF RelayInv, Typed
    <3>2. /\ Reading /\ net # <<>>
          /\ Head(net) = net[1] /\ Len(net) >= 1
          /\ UNCHANGED <<protocol, upstream>>
      BY <2>10, <3>1 DEF ReadLine
    <3>3. NameLine(net[1].line) \/ DataLine(net[1].line)
      BY <2>10, <3>2 DEF ReadLine
    <3>4. PICK k : /\ Taken(k)
                   /\ \/ k = 1 /\ net[1].part = "whole"
                      \/ k = 1 /\ net[1].part = "head" /\ Len(net) = 1 /\ closed
                      \/ k = 2 /\ net[1].part = "head"
      <4>1. CASE net[1].part = "whole" /\ net' = Tail(net)
        <5>1. Taken(1)
          BY <3>1, <3>2, <4>1 DEF Taken
        <5> QED BY <4>1, <5>1
      <4>2. CASE net[1].part = "head" /\ Len(net) > 1 /\ net' = Tail(Tail(net))
        <5>1. Taken(2)
          BY <3>1, <3>2, <4>2 DEF Taken
        <5> QED BY <4>2, <5>1
      <4>3. CASE net[1].part = "head" /\ Len(net) = 1 /\ closed /\ net' = <<>>
        <5>1. Tail(net) = <<>>
          <6>1. Tail(net) \in Seq(Piece) /\ Len(Tail(net)) = 0
            BY <3>1, <3>2, <4>3, HeadTailProperties
          <6> QED BY <6>1, EmptySeq
        <5>2. Taken(1)
          BY <3>2, <4>3, <5>1 DEF Taken
        <5> QED BY <4>3, <5>2
      <4> QED BY <2>10, <3>2, <4>1, <4>2, <4>3 DEF ReadLine
    <3> QED BY <2>4, <2>5, <3>2, <3>3, <3>4, LineGoes
  <2> QED BY <1>2, <2>2, <2>6, <2>7, <2>8, <2>9, <2>10 DEF Next, Read
<1>3. CASE Next /\ finished
  BY <1>1, <1>3, Over
<1> QED BY <1>1, <1>2, <1>3

(* A finished answer holds every chunk and every thought whose lines were sent *)
(* to their end, in order and nothing else, unless the translator dropped a    *)
(* line of it in its middle; the collector, which drops none, loses nothing.   *)
THEOREM OnlyAbandonedLost == Spec => []LosesOnlyAbandoned
<1>1. Init => RelayInv /\ CompleteInv
  BY InitRelay, InitComplete
<1>2. RelayInv /\ CompleteInv /\ [Next]_vars => RelayInv' /\ CompleteInv'
  BY RelayStep, CompleteStep
<1>3. CompleteInv => LosesOnlyAbandoned
  BY DEF CompleteInv, LosesOnlyAbandoned
<1> QED BY <1>1, <1>2, <1>3, PTL DEF Spec
===============================================================================
