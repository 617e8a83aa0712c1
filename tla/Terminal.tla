------------------------------- MODULE Terminal -------------------------------
(***************************************************************************)
(* The cluster terminal: one goroutine reads the frames of the socket,     *)
(* edits the line, passes a command through the gate, and runs kubectl or  *)
(* helm to its end before it reads the next frame.  The credential lies in *)
(* a directory that goes with the session.                                 *)
(* (server/internal/kubectlsh/session.go, upload.go,                       *)
(*  server/internal/httpapi/terminal_handlers.go)                          *)
(***************************************************************************)
EXTENDS Integers, Sequences

CONSTANTS
    Commands,   \* [tool, words]: a line's first argument and the words after
                \* it that could be its verb; a line that does not split has
                \* no tool
    Empty,      \* the line with nothing on it
    MaxFrames,  \* bound on the frames a reader sends
    MaxBytes    \* maxSessionBytes

TerminalAssumption == MaxFrames \in Nat /\ MaxBytes \in Nat

VARIABLES
    conn,       \* the reader's side of the socket: "open" or "closed"
    frames,     \* frames on their way
    sent,       \* frames sent so far
    loop,       \* the handler: "gate", "open", "read", "run" or "over"
    mayWrite,   \* the verdict of CheckWrite, asked once
    line,       \* the command on the line
    history, browsing,
    proc,       \* the child process: "none", "running" or "ended"
    cancelled,  \* the command's context is cancelled
    uploaded,   \* bytes counted against the session
    credential, \* the kubeconfig is on disk
    trail       \* what was recorded: <<command, "success" or "denied">>

socket == <<conn, frames, sent>>
editor == <<line, history, browsing>>
process == <<proc, cancelled>>
vars == <<socket, loop, mayWrite, editor, process, uploaded, credential, trail>>

AllowedTools == {"kubectl", "helm"}
RefusedVerbs == {"exec", "plugin"}
MutatingVerbs == {"delete", "apply"}

\* Lines the terminal answers itself, the empty one among them.
Builtin(c) == c # Empty => c.tool \in {"help", "clear", "exit", "quit"}

Init ==
    /\ conn = "open" /\ frames = <<>> /\ sent = 0
    /\ loop = "gate" /\ mayWrite = FALSE
    /\ line = Empty /\ history = <<>> /\ browsing = 0
    /\ proc = "none" /\ cancelled = FALSE
    /\ uploaded = 0 /\ credential = FALSE /\ trail = <<>>

-----------------------------------------------------------------------------
(* The reader. *)

Controls == {"enter", "interrupt", "up", "down", "erase", "upload"}
Key(k) == [key |-> k, text |-> Empty]
Text(c) == [key |-> "text", text |-> c]
Frames == {Key(k) : k \in Controls} \cup {Text(c) : c \in Commands}

Press(frame) ==
    /\ conn = "open" /\ sent < MaxFrames /\ loop # "over"
    /\ frames' = Append(frames, frame) /\ sent' = sent + 1
    /\ UNCHANGED <<conn, loop, mayWrite, editor, process, uploaded, credential, trail>>

\* The tab is closed, or the connection drops.
Leave ==
    /\ conn = "open"
    /\ conn' = "closed"
    /\ UNCHANGED <<frames, sent, loop, mayWrite, editor, process, uploaded, credential, trail>>

-----------------------------------------------------------------------------
(* The session. *)

\* CheckWrite answers; whether writes are allowed is settled here.
Gate ==
    /\ loop = "gate"
    /\ \/ loop' = "open" /\ mayWrite' \in BOOLEAN
       \/ loop' = "over" /\ UNCHANGED mayWrite
    /\ UNCHANGED <<socket, editor, process, uploaded, credential, trail>>

\* kubectlsh.Open writes the credential, or fails and leaves nothing.
Open ==
    /\ loop = "open"
    /\ \/ loop' = "read" /\ credential' = TRUE
       \/ loop' = "over" /\ UNCHANGED credential
    /\ UNCHANGED <<socket, mayWrite, editor, process, uploaded, trail>>

\* Mutant: only the first word is looked at.
Allowed_FirstWord(c) ==
    /\ c.tool \in AllowedTools
    /\ c.words # <<>> =>
        /\ Head(c.words) \notin RefusedVerbs
        /\ Head(c.words) \in MutatingVerbs => mayWrite

\* allow, over every word that could be the verb.
Allowed(c) ==
    /\ c.tool \in AllowedTools
    /\ \A i \in DOMAIN c.words :
        /\ c.words[i] \notin RefusedVerbs
        /\ c.words[i] \in MutatingVerbs => mayWrite

Reads(k) ==
    loop = "read" /\ frames # <<>> /\ Head(frames).key = k /\ frames' = Tail(frames)

Record(result) == trail' = Append(trail, <<line, result>>)

\* run: a command is recorded either way, and started if it may.
Enter ==
    /\ Reads("enter")
    /\ line' = Empty /\ browsing' = 0
    /\ history' = IF line = Empty THEN history ELSE Append(history, line)
    /\ \/ /\ Builtin(line)
          /\ UNCHANGED <<loop, process, trail>>
       \/ /\ ~Builtin(line)
          /\ Record(IF Allowed(line) THEN "success" ELSE "denied")
          /\ \/ /\ Allowed(line) /\ loop' = "run"
                /\ proc' = "running" /\ cancelled' = FALSE
             \/ ~Allowed(line) /\ UNCHANGED <<loop, process>>
    /\ UNCHANGED <<conn, sent, mayWrite, uploaded, credential>>

\* Ctrl+C: the running command is cancelled, or the line dropped.
Interrupt ==
    /\ Reads("interrupt")
    /\ \/ proc = "running" /\ cancelled' = TRUE /\ UNCHANGED line
       \/ proc # "running" /\ line' = Empty /\ UNCHANGED cancelled
    /\ UNCHANGED <<conn, sent, loop, mayWrite, history, browsing, proc, uploaded, credential, trail>>

\* recall
Recall(direction, step) ==
    LET next == browsing + step IN
    /\ Reads(direction)
    /\ IF next \in 0 .. Len(history)
           THEN /\ browsing' = next
                /\ line' = IF next = 0 THEN Empty ELSE history[Len(history) - next + 1]
           ELSE UNCHANGED <<browsing, line>>
    /\ UNCHANGED <<conn, sent, loop, mayWrite, history, process, uploaded, credential, trail>>

\* A command is typed on an empty line, or erased.
Type ==
    /\ \/ Reads("text") /\ line' = IF line = Empty THEN Head(frames).text ELSE line
       \/ Reads("erase") /\ line' = Empty
    /\ UNCHANGED <<conn, sent, loop, mayWrite, history, browsing, process, uploaded, credential, trail>>

\* Upload: counted before it is written, refused over the limit.
Upload ==
    /\ Reads("upload")
    /\ uploaded' = IF uploaded + 1 > MaxBytes THEN uploaded ELSE uploaded + 1
    /\ UNCHANGED <<conn, sent, loop, mayWrite, editor, process, credential, trail>>

\* Read fails on a socket that is closed: session.Close ends what runs and
\* removes the credential.
ReadFails ==
    /\ loop = "read" /\ conn = "closed" /\ frames = <<>>
    /\ loop' = "over" /\ credential' = FALSE
    /\ UNCHANGED <<socket, mayWrite, editor, process, uploaded, trail>>

-----------------------------------------------------------------------------
(* The command. *)

\* It ends by itself, in its own time, or because it was cancelled.
CommandEnds ==
    /\ loop = "run" /\ proc = "running"
    /\ proc' = "ended"
    /\ UNCHANGED <<socket, loop, mayWrite, editor, cancelled, uploaded, credential, trail>>

\* terminalCommandLimit has passed.
LimitPasses ==
    /\ loop = "run" /\ proc = "running" /\ ~cancelled
    /\ cancelled' = TRUE
    /\ UNCHANGED <<socket, loop, mayWrite, editor, proc, uploaded, credential, trail>>

\* execute returns to the loop.
Prompt ==
    /\ loop = "run" /\ proc = "ended"
    /\ loop' = "read" /\ proc' = "none" /\ cancelled' = FALSE
    /\ UNCHANGED <<socket, mayWrite, editor, uploaded, credential, trail>>

Next ==
    \/ \E f \in Frames : Press(f)
    \/ Leave \/ Gate \/ Open
    \/ Enter \/ Interrupt \/ Recall("up", 1) \/ Recall("down", -1) \/ Type \/ Upload
    \/ ReadFails \/ CommandEnds \/ LimitPasses \/ Prompt

Handle == Enter \/ Interrupt \/ Recall("up", 1) \/ Recall("down", -1) \/ Type \/ Upload

\* The handler's goroutine runs; a command that is cancelled is killed, and one
\* left alone runs for ever but for its limit.
Fairness ==
    /\ WF_vars(Gate) /\ WF_vars(Open) /\ WF_vars(Handle) /\ WF_vars(ReadFails)
    /\ WF_vars(CommandEnds /\ cancelled) /\ WF_vars(Prompt) /\ WF_vars(LimitPasses)

Spec == Init /\ [][Next]_vars /\ Fairness

-----------------------------------------------------------------------------
(* Properties. *)

\* The shape of the state; the uploads stay within the session's limit.
TypeOK ==
    /\ conn \in {"open", "closed"} /\ sent \in 0 .. MaxFrames
    /\ frames \in Seq(Frames)
    /\ loop \in {"gate", "open", "read", "run", "over"} /\ mayWrite \in BOOLEAN
    /\ line \in Commands \cup {Empty} /\ history \in Seq(Commands)
    /\ browsing \in 0 .. Len(history)
    /\ proc \in {"none", "running", "ended"} /\ cancelled \in BOOLEAN
    /\ uploaded \in 0 .. MaxBytes /\ credential \in BOOLEAN
    /\ trail \in Seq(Commands \X {"success", "denied"})

\* A trail holds each command of what was kept, in its order, and no other.
Matches(kept, told) ==
    \E at \in [DOMAIN told -> {i \in DOMAIN kept : ~Builtin(kept[i])}] :
        /\ \A i \in DOMAIN kept : ~Builtin(kept[i]) => \E j \in DOMAIN told : at[j] = i
        /\ \A i, j \in DOMAIN told : i < j => at[i] < at[j]
        /\ \A i \in DOMAIN told : told[i][1] = kept[at[i]]

\* What ran had no verb that the reader may not use.
RanAllowed ==
    \A i \in DOMAIN trail : trail[i][2] = "success" =>
        \A j \in DOMAIN trail[i][1].words :
            /\ trail[i][1].words[j] \notin RefusedVerbs
            /\ trail[i][1].words[j] \in MutatingVerbs => mayWrite

\* Whatever is typed, recalled or pasted: each command of the history is in
\* the trail, in its order, with what became of it; what runs is the last of
\* them, and no line with a verb the reader may not use was ever run.
CommandsAnswered ==
    /\ Matches(history, trail)
    /\ proc = "running" => credential /\ trail[Len(trail)][2] = "success"
    /\ RanAllowed

\* A reader who leaves leaves no credential and no command behind.
LeftClean == conn = "closed" => ~credential /\ proc = "none"

CredentialGoes == <>[]LeftClean

-----------------------------------------------------------------------------
(* What makes the property inductive. *)

\* Nothing is recorded before the session is open, a command runs only in
\* the loop's own call, and the credential is there while it is served.
Stages ==
    /\ loop \in {"gate", "open"} => trail = <<>>
    /\ proc # "none" <=> loop = "run"
    /\ loop \in {"read", "run"} => credential
    /\ loop = "run" => trail # <<>> /\ trail[Len(trail)][2] = "success"

IInv == TypeOK /\ Stages /\ CommandsAnswered
=============================================================================
