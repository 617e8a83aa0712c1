------------------------------- MODULE PodShell -------------------------------
(***************************************************************************)
(* runShell: one goroutine reads the socket, records what was typed and    *)
(* writes it to a pipe; the handler runs the exec stream that empties the  *)
(* pipe into the container, and writes the transcript when it ends.        *)
(* (server/internal/httpapi/exec_handlers.go, session_recorder.go,         *)
(*  server/internal/cluster/exec.go)                                       *)
(***************************************************************************)
EXTENDS Naturals, Sequences, FiniteSets

CONSTANTS
    MaxSent,    \* bound on the stdin frames of a reader
    Limit       \* transcriptLimit, in the unit of Sizes

ShellAssumption == MaxSent \in Nat /\ Limit \in Nat

Sizes == 1 .. 2

VARIABLES
    socket,     \* "open" or "closed"
    frames,     \* stdin frames on their way: [id, size]
    lastId,     \* frames sent so far
    reader,     \* the goroutine: "read", "write" or "gone"
    held,       \* the frame it writes to the pipe, <<>> or <<frame>>
    copier,     \* the exec stream's own goroutine takes from the pipe
    handler,    \* "exec", "ended", "told" or "over"
    cancelled,  \* the session's context is cancelled
    typed, truncated,  \* the recorder
    received,   \* what reached the container
    transcript  \* what was recorded: <<>>, or <<[text, truncated]>>

inbox == <<socket, frames, lastId>>
input == <<reader, held>>
recorder == <<typed, truncated>>
vars == <<inbox, input, copier, handler, cancelled, recorder, received, transcript>>

Init ==
    /\ socket = "open" /\ frames = <<>> /\ lastId = 0
    /\ reader = "read" /\ held = <<>>
    /\ copier = TRUE /\ handler = "exec" /\ cancelled = FALSE
    /\ typed = <<>> /\ truncated = FALSE
    /\ received = <<>> /\ transcript = <<>>

\* The bytes of a text, each by its frame and its place in it.
Bytes(s) == {b \in (DOMAIN s) \X Sizes : b[2] <= s[b[1]].size}
Length(s) == Cardinality(Bytes(s))

-----------------------------------------------------------------------------
(* The reader of the socket. *)

Press(size) ==
    /\ socket = "open" /\ lastId < MaxSent
    /\ lastId' = lastId + 1
    /\ frames' = Append(frames, [id |-> lastId + 1, size |-> size])
    /\ UNCHANGED <<socket, input, copier, handler, cancelled, recorder, received, transcript>>

Leave ==
    /\ socket = "open" /\ socket' = "closed"
    /\ UNCHANGED <<frames, lastId, input, copier, handler, cancelled, recorder, received, transcript>>

\* Mutant: a text that does not fit is dropped without a word.
Typed_Quietly(frame) ==
    /\ typed' = IF Length(typed) + frame.size > Limit THEN typed ELSE Append(typed, frame)
    /\ UNCHANGED truncated

\* typed: a text that does not fit is dropped whole, and said to be.
Typed(frame) ==
    IF Length(typed) + frame.size > Limit
        THEN truncated' = TRUE /\ UNCHANGED typed
        ELSE typed' = Append(typed, frame) /\ UNCHANGED truncated

\* A stdin frame is recorded, then written to the pipe.
ReadFrame ==
    /\ reader = "read" /\ ~cancelled /\ frames # <<>>
    /\ frames' = Tail(frames)
    /\ Typed(Head(frames))
    /\ reader' = "write" /\ held' = <<Head(frames)>>
    /\ UNCHANGED <<socket, lastId, copier, handler, cancelled, received, transcript>>

\* Mutant: a reader that leaves only closes stdin.
ReadFails_KeepsExec ==
    /\ reader = "read" /\ (cancelled \/ (socket = "closed" /\ frames = <<>>))
    /\ reader' = "gone"
    /\ UNCHANGED <<inbox, held, copier, handler, cancelled, recorder, received, transcript>>

\* The socket is closed or the context is over: stdin is closed and the
\* context cancelled.
ReadFails ==
    /\ reader = "read" /\ (cancelled \/ (socket = "closed" /\ frames = <<>>))
    /\ reader' = "gone" /\ cancelled' = TRUE
    /\ UNCHANGED <<inbox, held, copier, handler, recorder, received, transcript>>

-----------------------------------------------------------------------------
(* The exec stream. *)

\* The stream takes what the pipe holds; once it has ended it still takes
\* one text, which goes nowhere.
Take ==
    /\ reader = "write" /\ copier
    /\ reader' = "read" /\ held' = <<>>
    /\ IF handler = "exec"
           THEN received' = received \o held /\ UNCHANGED copier
           ELSE copier' = FALSE /\ UNCHANGED received
    /\ UNCHANGED <<inbox, handler, cancelled, recorder, transcript>>

\* The shell exits, or the stream fails, or its context is cancelled.
ExecEnds ==
    /\ handler = "exec"
    /\ handler' = "ended"
    /\ copier' \in BOOLEAN
    /\ UNCHANGED <<inbox, input, cancelled, recorder, received, transcript>>

\* recorder.close
Close ==
    /\ handler = "ended"
    /\ handler' = "told"
    /\ transcript' = <<[text |-> typed, truncated |-> truncated]>>
    /\ UNCHANGED <<inbox, input, copier, cancelled, recorder, received>>

\* The handler returns: the context is cancelled and the socket closed.
Return ==
    /\ handler = "told"
    /\ handler' = "over" /\ cancelled' = TRUE /\ socket' = "closed"
    /\ UNCHANGED <<frames, lastId, input, copier, recorder, received, transcript>>

Next ==
    \/ \E size \in Sizes : Press(size)
    \/ Leave \/ ReadFrame \/ ReadFails
    \/ Take \/ ExecEnds \/ Close \/ Return

\* Both goroutines run; the container takes what is typed; a cancelled
\* stream ends, a shell of its own accord may never.
Fairness ==
    /\ WF_vars(ReadFrame) /\ WF_vars(ReadFails) /\ WF_vars(Take)
    /\ WF_vars(ExecEnds /\ cancelled) /\ WF_vars(Close) /\ WF_vars(Return)

Spec == Init /\ [][Next]_vars /\ Fairness

-----------------------------------------------------------------------------
(* Properties. *)

Texts == Seq([id : 1 .. MaxSent, size : Sizes])

\* The shape of the state; the recorder keeps within its limit.
TypeOK ==
    /\ socket \in {"open", "closed"} /\ frames \in Texts /\ lastId \in 0 .. MaxSent
    /\ reader \in {"read", "write", "gone"} /\ held \in Texts /\ copier \in BOOLEAN
    /\ handler \in {"exec", "ended", "told", "over"} /\ cancelled \in BOOLEAN
    /\ typed \in Texts /\ truncated \in BOOLEAN /\ Length(typed) <= Limit
    /\ received \in Texts
    /\ transcript \in Seq([text : Texts, truncated : BOOLEAN])

\* What both texts hold stands in the same order in them, each frame once.
SameOrder(s, text) ==
    \A i, j \in DOMAIN s, k, l \in DOMAIN text :
        s[i] = text[k] /\ s[j] = text[l] => (i < j <=> k < l)

\* The transcript of an ended session holds what reached the container, in
\* its order, and says so where a part of it is missing.
TranscriptTells ==
    \A i \in DOMAIN transcript :
        LET t == transcript[i] IN
        /\ SameOrder(t.text, received)
        /\ ~t.truncated => \A k \in DOMAIN received : \E j \in DOMAIN t.text : t.text[j] = received[k]

\* A session whose reader leaves ends, and leaves its transcript.
Recorded == socket = "closed" => handler = "over" /\ transcript # <<>>

LeavingIsRecorded == <>[]Recorded

-----------------------------------------------------------------------------
(* What makes the property inductive. *)

\* The frames that were read before those on their way.
Heard == lastId - Len(frames)

Ascending(s) == \A i, j \in DOMAIN s : i < j => s[i].id < s[j].id

\* The frames are in the order they were sent in, wherever they are.
Numbered ==
    /\ Len(frames) <= lastId
    /\ \A i \in DOMAIN frames : frames[i].id = Heard + i
    /\ Ascending(typed) /\ \A i \in DOMAIN typed : typed[i].id <= Heard
    /\ Ascending(received) /\ \A i \in DOMAIN received : received[i].id <= Heard
    /\ IF reader = "write" THEN Len(held) = 1 /\ held[1].id <= Heard
                           ELSE held = <<>>
    /\ \A i \in DOMAIN held, j \in DOMAIN received : received[j].id < held[i].id

\* The recorder has what is at the pipe and what went through it.
Noted ==
    /\ ~truncated => \A k \in DOMAIN held : \E j \in DOMAIN typed : typed[j] = held[k]
    /\ ~truncated => \A k \in DOMAIN received : \E j \in DOMAIN typed : typed[j] = received[k]
    /\ transcript # <<>> => handler \in {"told", "over"}

IInv == TypeOK /\ Numbered /\ Noted /\ TranscriptTells
=============================================================================
