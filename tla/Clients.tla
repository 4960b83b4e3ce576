------------------------------ MODULE Clients ------------------------------
(* What is shared without a lock: the lines of the terminal s3dvt between its  *)
(* thread and its painter (Vt), the list of a job between the main loop of the *)
(* file manager s3dfm and the job's thread (Jobs), the segment of a texture    *)
(* between a program and the server (Textures), the object numbers that the    *)
(* server hands out in advance (Queue), and the list of programs that the      *)
(* window manager dot_mcp has and the server's objects (Mcp).                  *)
EXTENDS Integers, Sequences, FiniteSets

CONSTANTS
    MAX_LINES, MAX_CHARS,   \* the terminal's screen
    Chars, Digits,          \* what can be printed, and the arguments of a sequence
    Files, MaxJobs, MaxErrs,
    MaxPushes, MaxLoads,
    MAX_REQ, TIMEOUT, MaxCalls,
    MaxOid, MaxInputs, MaxStarts

\* An empty cell and an argument that is not given are 0.
ASSUME ScreenAssumption ==
    /\ MAX_LINES \in Nat \ {0} /\ MAX_CHARS \in Nat \ {0}
    /\ Chars \subseteq Nat \ {0} /\ Digits \subseteq Nat \ {0}
ASSUME FilesAssumption == IsFiniteSet(Files) /\ MaxJobs \in Nat /\ MaxErrs \in Nat
ASSUME QueueAssumption == MAX_REQ \in Nat /\ TIMEOUT \in Nat /\ MaxCalls \in Nat
ASSUME McpAssumption == MaxOid \in Nat /\ MaxInputs \in Nat /\ MaxStarts \in Nat
ASSUME TextureAssumption == MaxPushes \in Nat /\ MaxLoads \in Nat

VARIABLES
    term_mode, main, shell, output, thread, esc, args, s, row, col, ch, line_end, last_c, shown, late,
    fs_lock, fp, pos, worker, at, fs_err, windows, typeinput, detached, tree, files, jobs, errs, missed,
    toServer, toClient, pushes, has, loads, last, tex_hash, p_tex, buffers, buf, clearing, wiped, bound, texture,
    queue, requested, asked, looks, held, requests, fromServer, made,
    objects, srvFocus, toMcp, orders, apps, focus, closed, killed, starts, inputs

Vt == INSTANCE Terminal
Jobs == INSTANCE FileJobs WITH thread <- worker, disk <- files
Textures == INSTANCE TexShm WITH made <- buffers, shown <- texture, Uses <- {}
Queue == INSTANCE ObjQueue WITH calls <- asked, toServer <- requests
Mcp == INSTANCE DotMcp WITH table <- objects, toServer <- orders, Uses <- {}

queuevars == <<queue, requested, asked, looks, held, requests, fromServer, made>>
vtvars  == <<term_mode, main, shell, output, thread, esc, args, s, row, col, ch, line_end, last_c, shown, late>>
jobvars == <<fs_lock, fp, pos, worker, at, fs_err, windows, typeinput, detached, tree, files, jobs, errs, missed>>
texvars == <<toServer, toClient, pushes, has, loads, last, tex_hash, p_tex, buffers, buf, clearing, wiped, bound, texture>>

mcpvars == <<objects, srvFocus, toMcp, orders, apps, focus, closed, killed, starts, inputs>>

-----------------------------------------------------------------------------
\* When nothing is left to do the screen shows the lines, but for what the thread wrote behind
\* the painter, and the cursor is on the screen at all times.
TerminalShows == Vt!ShownAtRest /\ Vt!CursorInside

\* Nobody frees or replaces the list of a job while the thread works on it, the list always has
\* one owner, and what the thread did is shown when no job is under way, but for the files it
\* was done with when the main loop had passed them.
JobsRunAlone == Jobs!JobsAreApart /\ Jobs!ListHasOwner

\* Whether drawn into its segment or sent, the last picture is the one a texture shows, unless
\* the server cleared the segment after it.
TexturesShowTheLast == Textures!LastLoadShows

\* No object number is lost, or given out twice, whatever crosses on the way.
NumbersAreGiven == Queue!OneHolder

\* dot_mcp agrees with the server once all has arrived, and ends only what it was told to.
McpAgrees == Mcp!AgreeAtRest /\ Mcp!OnlyClosedDie
=============================================================================
