------------------------------- MODULE SseRelay -------------------------------
(***************************************************************************)
(* One answer of the upstream on its way to the client: the three stream   *)
(* translators of src/protocol (openai, anthropic, responses) and the      *)
(* collector of a non-streaming answer (collect_nonstream_text).           *)
(*                                                                         *)
(* The upstream sends events, an event as two lines ("event: name" and     *)
(* "data: json"), a line whole or in two parts with a pause between them.  *)
(* The readers read line by line.  A translator makes a new read_line      *)
(* future in every poll_next and drops it when it is pending; what that    *)
(* future had read of an unfinished line is gone.  The collector awaits    *)
(* its read_line and keeps it.                                             *)
(*                                                                         *)
(* A payload is the number of its event; blank lines, ids and usage are    *)
(* left out.  The upstream and the network are external.                   *)
(***************************************************************************)
EXTENDS Integers, Sequences, SequencesExt

CONSTANTS
    Protocols,  \* "openai", "anthropic", "responses", "nonstream"
    Kinds,      \* the kinds of events the upstream uses, some of AllKinds
    MaxEvents,  \* bound: events of an answer
    MaxUnread   \* bound: lines, or parts of lines, that wait to be read

AllKinds == {"thinking", "chunk", "citation", "tool_use", "image", "done", "error"}
Terminal == {"done", "error"}

ASSUME RelayAssumption ==
    /\ Protocols \subseteq {"openai", "anthropic", "responses", "nonstream"}
    /\ Kinds \subseteq AllKinds
    /\ MaxEvents \in Nat
    /\ MaxUnread \in Nat \ {0, 1}

(* full: the delta of a thinking or chunk, the url of a citation, is there.   *)
Event == {e \in [n : 1..MaxEvents, kind : Kinds, full : BOOLEAN] :
             e.full \/ e.kind \in {"thinking", "chunk", "citation"}}

VARIABLES
    protocol,
    \* the upstream and the network
    sent,      \* the events of the answer so far
    lines,     \* the lines of the last event that are still to be sent
    half,      \* the first part of the next line is sent
    net,       \* what has arrived and is not read
    closed,    \* the connection ended, by end, error or read timeout
    \* the reader
    started, finished,
    pending,   \* the event name last read
    saw,       \* saw_content
    acc,       \* accumulated, out: the text collected
    \* what the client has got, and whether a line was ever abandoned
    out, abandoned

upstream == <<sent, lines, half, closed>>
reader   == <<started, finished, pending, saw, acc, out>>
vars     == <<protocol, upstream, net, reader, abandoned>>

Frame(type, text) == [type |-> type, text |-> text]

Init ==
    /\ protocol \in Protocols
    /\ sent = <<>> /\ lines = <<>> /\ half = FALSE
    /\ net = <<>> /\ closed = FALSE
    /\ started = FALSE /\ finished = FALSE
    /\ pending = "none" /\ saw = FALSE /\ acc = <<>>
    /\ out = <<>> /\ abandoned = FALSE

-------------------------------------------------------------------------------
(* The upstream.  The connection is dropped with a finished stream. *)

Open == ~closed /\ ~finished

SendEvent(e) ==
    /\ Open /\ lines = <<>>
    /\ \A i \in DOMAIN sent : sent[i].kind \notin Terminal
    /\ e.n = Len(sent) + 1
    /\ sent' = Append(sent, e)
    /\ lines' = <<[what |-> "event", of |-> e], [what |-> "data", of |-> e]>>
    /\ UNCHANGED <<protocol, half, net, closed, reader, abandoned>>

Part(part) == Append(net, [part |-> part, line |-> Head(lines)])

SendLine ==
    /\ Open /\ lines # <<>> /\ Len(net) < MaxUnread
    /\ \/ ~half /\ net' = Part("whole")
       \/ half  /\ net' = Part("tail")
    /\ lines' = Tail(lines)
    /\ half' = FALSE
    /\ UNCHANGED <<protocol, sent, closed, reader, abandoned>>

SendHead ==
    /\ Open /\ lines # <<>> /\ Len(net) < MaxUnread /\ ~half
    /\ net' = Part("head")
    /\ half' = TRUE
    /\ UNCHANGED <<protocol, sent, lines, closed, reader, abandoned>>

(* The end of the body; BytesReader makes an end of a transport error too.    *)
Close ==
    /\ Open
    /\ closed' = TRUE
    /\ UNCHANGED <<protocol, sent, lines, half, net, reader, abandoned>>

-------------------------------------------------------------------------------
(* The reader. *)

(* The translators whose first frame waits for nothing. *)
Opening == {"anthropic", "responses"}

(* Mutant of Reading: a translator reads before it has sent its first frame.  *)
ReadingEarly == ~finished

Reading == /\ ~finished
           /\ protocol \in Opening => started

(* The first poll: message_start, response.created. *)
Start ==
    /\ ~started /\ protocol \in Opening
    /\ started' = TRUE
    /\ out' = Append(out, Frame("start", <<>>))
    /\ UNCHANGED <<protocol, upstream, net, finished, pending, saw, acc, abandoned>>

Delta(e) == IF e.kind \in {"thinking", "chunk"} /\ e.full THEN <<e.n>> ELSE <<>>

(* What the client is shown of data e read under an event name. *)

OpenAiShown(name, e) ==
    CASE name = "thinking" -> <<Frame("reasoning", Delta(e))>>
      [] name = "chunk" -> <<Frame("text", Delta(e))>>
      [] name = "citation" /\ e.kind = "citation" /\ e.full ->
            <<Frame("citation", <<e.n>>)>>
      [] name \in {"tool_use", "error"} -> <<Frame(name, <<e.n>>)>>
      [] OTHER -> <<>>

AnthropicShown(name, e) ==
    CASE name = "thinking" -> <<Frame("reasoning", Delta(e))>>
      [] name = "chunk" -> <<Frame("text", Delta(e))>>
      [] name \in {"tool_use", "error"} -> <<Frame(name, <<e.n>>)>>
      [] OTHER -> <<>>

(* An error is not shown: the response is completed with what there is.       *)
ResponsesShown(name, e) ==
    CASE name = "thinking" /\ Delta(e) # <<>> -> <<Frame("reasoning", Delta(e))>>
      [] name = "chunk" -> <<Frame("text", Delta(e))>>
      [] OTHER -> <<>>

Shown(name, e) ==
    CASE protocol = "openai"    -> OpenAiShown(name, e)
      [] protocol = "anthropic" -> AnthropicShown(name, e)
      [] protocol = "responses" -> ResponsesShown(name, e)
      [] protocol = "nonstream" -> <<>>

(* Mutant of Collected: the thoughts become part of the text. *)
CollectedWithThoughts(name, e) ==
    IF name \in {"chunk", "thinking"} /\ protocol = "responses" THEN Delta(e)
    ELSE <<>>

(* ... and what is collected of it for the last frame. *)
Collected(name, e) ==
    IF name = "chunk" /\ protocol \in {"responses", "nonstream"} THEN Delta(e)
    ELSE <<>>

(* Mutant of Finish: the end is sent and the stream goes on.                  *)
FinishAgain(frames) ==
    /\ out' = out \o frames \o <<Frame("end", acc)>>
    /\ UNCHANGED <<started, finished, pending, saw, acc>>

(* The frames that end the stream: [DONE], message_stop, completed, the body. *)
Finish(frames) ==
    /\ finished' = TRUE
    /\ out' = out \o frames \o <<Frame("end", acc)>>
    /\ UNCHANGED <<started, pending, saw, acc>>

(* Mutant of NameLine: a name once read is kept. *)
NameLineOnce(line) ==
    /\ line.what = "event"
    /\ pending' = IF pending = "none" THEN line.of.kind ELSE pending
    /\ UNCHANGED <<started, finished, saw, acc, out>>

(* A line "event: name". *)
NameLine(line) ==
    /\ line.what = "event"
    /\ pending' = line.of.kind
    /\ UNCHANGED <<started, finished, saw, acc, out>>

(* A line "data: json", taken for an event of the name last read. *)
DataLine(line) ==
    /\ line.what = "data"
    /\ \/ /\ pending \in Terminal
          /\ Finish(Shown(pending, line.of))
       \/ /\ pending \notin Terminal
          /\ out' = out \o Shown(pending, line.of)
          /\ acc' = acc \o Collected(pending, line.of)
          /\ saw' = (saw \/ (pending = "chunk" /\ Delta(line.of) # <<>>))
          /\ UNCHANGED <<started, finished, pending>>

(* The read_line future finds a line whole, or the second part after the      *)
(* first, or the last line without its line feed at the end of the body.      *)
ReadLine ==
    /\ Reading /\ net # <<>>
    /\ NameLine(Head(net).line) \/ DataLine(Head(net).line)
    /\ \/ Head(net).part = "whole" /\ net' = Tail(net)
       \/ Head(net).part = "head" /\ Len(net) > 1 /\ net' = Tail(Tail(net))
       \/ Head(net).part = "head" /\ Len(net) = 1 /\ closed /\ net' = <<>>
    /\ UNCHANGED <<protocol, upstream, abandoned>>

(* poll_next finds the first part of a line only, and drops it. *)
Abandon ==
    /\ Reading /\ protocol # "nonstream"
    /\ Len(net) = 1 /\ Head(net).part = "head" /\ ~closed
    /\ net' = <<>>
    /\ abandoned' = TRUE
    /\ UNCHANGED <<protocol, upstream, reader>>

(* The rest of a line whose first part is gone, or the first part of one that *)
(* never comes: not a line the reader knows, and not UTF-8 when the text was  *)
(* parted inside a character, which read_line reports as an error.            *)
ReadRest ==
    /\ Reading /\ net # <<>>
    /\ \/ Head(net).part = "tail"
       \/ Head(net).part = "head" /\ Len(net) = 1 /\ closed
    /\ net' = Tail(net)
    /\ \/ UNCHANGED reader
       \/ Head(net).line.what = "data" /\ Finish(<<>>)
    /\ UNCHANGED <<protocol, upstream, abandoned>>

(* Mutant of ReadEnd: the end of the body is taken for a pause. *)
ReadEndIgnored ==
    /\ Reading /\ net = <<>> /\ closed
    /\ UNCHANGED vars

(* read_line returned 0. *)
ReadEnd ==
    /\ Reading /\ net = <<>> /\ closed
    /\ Finish(IF protocol = "openai" /\ ~saw THEN <<Frame("empty", <<>>)>> ELSE <<>>)
    /\ UNCHANGED <<protocol, upstream, net, abandoned>>

Read == Start \/ ReadLine \/ Abandon \/ ReadRest \/ ReadEnd

Next ==
    \/ \E e \in Event : SendEvent(e)
    \/ SendLine \/ SendHead \/ Close
    \/ Read

(* The client's connection polls the stream whenever it can go on, and a      *)
(* silent upstream is cut off by the read timeout of the HTTP client.         *)
Spec == Init /\ [][Next]_vars /\ WF_vars(Read) /\ WF_vars(Close)

-------------------------------------------------------------------------------
(* Properties. *)

(* Types; a stream is finished exactly when its last frame is sent, the line  *)
(* being sent has arrived to its first part, and the collector never leaves a *)
(* line.                                                                     *)
TypeOK ==
    /\ protocol \in Protocols
    /\ sent \in Seq(Event) /\ Len(sent) <= MaxEvents
    /\ {half, closed, started, finished, saw, abandoned} \subseteq BOOLEAN
    /\ Len(lines) <= 2 /\ (half => lines # <<>>)
    /\ \A i \in DOMAIN net : net[i].part = "head" /\ i < Len(net)
                              => net[i + 1].part = "tail"
    /\ pending \in Kinds \cup {"none"}
    /\ acc \in Seq(1..MaxEvents)
    /\ finished <=> out # <<>> /\ Last(out).type = "end"
    /\ abandoned => protocol # "nonstream"

(* The client's protocol: the first frame comes first, the last one once and  *)
(* last, and what lies between follows the order of the upstream's events     *)
(* without repeating one (CHANGELOG:120, the chain of events).               *)
FramesInOrder ==
    /\ \A i \in DOMAIN out :
        /\ out[i].type = "end" => i = Len(out)
        /\ out[i].type = "start" <=> i = 1 /\ protocol \in Opening
    /\ \A i, j \in DOMAIN out : \A n \in ToSet(out[i].text), m \in ToSet(out[j].text) :
          i < j /\ out[j].type # "end" => n < m

Shows(type) ==
    FlattenSeq([i \in DOMAIN out |-> IF out[i].type = type THEN out[i].text ELSE <<>>])
Answer      == IF protocol = "nonstream" THEN acc ELSE Shows("text")

(* response.completed carries the text the client was sent in deltas, and     *)
(* nothing else (CHANGELOG:120).                                             *)
CompletedText ==
    protocol = "responses" /\ finished => Last(out).text = Shows("text")

(* The deltas of one kind in a sequence of events. *)
Deltas(events, kind) ==
    FlattenSeq([i \in DOMAIN events |->
                   IF events[i].kind = kind THEN Delta(events[i]) ELSE <<>>])

(* The events whose lines were sent to their end. *)
Delivered == IF lines = <<>> THEN sent ELSE Front(sent)

(* A finished answer holds every chunk delivered before it ended, in order,   *)
(* and nothing else; thoughts likewise.                                      *)
Complete ==
    /\ IsPrefix(Deltas(Delivered, "chunk"), Answer)
    /\ IsPrefix(Answer, Deltas(sent, "chunk"))
    /\ protocol # "nonstream" =>
        /\ IsPrefix(Deltas(Delivered, "thinking"), Shows("reasoning"))
        /\ IsPrefix(Shows("reasoning"), Deltas(sent, "thinking"))

(* Only a line abandoned in its middle is lost: a translator that always finds*)
(* whole lines relays everything, and the collector does in any case.        *)
LosesOnlyAbandoned == finished /\ ~abandoned => Complete

(* README:208, a chunk becomes delta.content: every chunk is relayed.         *)
EveryChunkRelayed == finished => IsPrefix(Deltas(Delivered, "chunk"), Answer)

(* Every stream ends for the client, with its last frame.                     *)
StreamEnds == <>finished
===============================================================================
