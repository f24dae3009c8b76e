-------------------------------- MODULE Cli ---------------------------------
(***************************************************************************)
(* The command line client (src/src/examples/cli/main.cpp): it expands the *)
(* prompt file, loads the model, and answers first that prompt and then    *)
(* the lines of the user, until the input ends or something throws.        *)
(*                                                                         *)
(* As a client of the class it implements Context with one thread.  What   *)
(* it writes to the terminal is left out, and so is the token callback,    *)
(* which only writes and never stops an answer.                            *)
(*                                                                         *)
(* Faulty variants of definitions, each with one slip a maintainer could   *)
(* make, stand before the definition they vary.                            *)
(***************************************************************************)
EXTENDS Text

CONSTANTS
  Chars,             \* characters
  UserMark, AiMark,  \* "[[USER_NAME]]" and "[[AI_NAME]]"
  Newline,
  Args,              \* arguments the program is run with
  MaxLines           \* bound: lines the user types

\* No user mark begins within an AI mark: both begin with "[[", and there is no
\* other "[" in them.
ASSUME MarksAssumption ==
  /\ UserMark \in Seq(Chars) \ {<<>>} /\ AiMark \in Seq(Chars) \ {<<>>}
  /\ \A k \in 2 .. Len(AiMark) : \E i \in 1 .. Len(UserMark) :
       k + i - 1 <= Len(AiMark) /\ AiMark[k + i - 1] # UserMark[i]

ASSUME ArgsAssumption ==
  \A a \in Args :
    /\ a.readable \in BOOLEAN  \* a prompt file is given and can be opened
    /\ a.file \in Seq(Chars) /\ a.user \in Seq(Chars) /\ a.ai \in Seq(Chars)
    /\ a.ctx_size \in Nat
    /\ a.n_predict \in Int

ASSUME LinesAssumption == MaxLines \in Nat

VARIABLES
  args,
  pc,
  killed,  \* by SIGINT
  prompt,  \* the prompt that is being loaded
  pos,     \* start_pos of replace_all
  input,   \* what `input` points to: nothing, the loaded prompt or a line
  skip,    \* skip_prompts
  lines,   \* lines read so far
  unfreed, \* lines that ic_readline allocated less those freed
  model    \* the model in ctx: none, loaded or freed

vars == <<args, pc, killed, prompt, pos, input, skip, lines, unfreed, model>>

Init ==
  /\ args \in Args
  /\ pc = "open"
  /\ killed = FALSE
  /\ prompt = <<>> /\ pos = 1
  /\ input = "null" /\ skip = FALSE
  /\ lines = 0 /\ unfreed = 0
  /\ model = "none"

At(here) == ~killed /\ pc = here

----------------------------------------------------------------------------
(* load_prompts.                                                           *)

Open ==
  /\ At("open")
  /\ prompt' = IF args.readable THEN args.file ELSE <<>>
  /\ pc' = IF args.readable THEN "user" ELSE "load"
  /\ UNCHANGED <<args, killed, pos, input, skip, lines, unfreed, model>>

AfterNothing(k, mark, name) == k

\* Where replace_all goes on after a replacement at k.
AfterName(k, mark, name) == k + Len(name)

\* One turn of the loop of replace_all, or its end.
ReplaceNext(mark, name, then) ==
  /\ LET k == Find(prompt, mark, pos)
     IN  \/ /\ k # 0
            /\ prompt' = ReplaceSubSeqAt(k, name, mark, prompt)
            /\ pos' = AfterName(k, mark, name)
            /\ UNCHANGED pc
         \/ /\ k = 0
            /\ pos' = 1
            /\ pc' = then
            /\ UNCHANGED prompt
  /\ UNCHANGED <<args, killed, input, skip, lines, unfreed, model>>

ReplaceUser == At("user") /\ ReplaceNext(UserMark, args.user, "ai")

ReplaceAi == At("ai") /\ ReplaceNext(AiMark, args.ai, "cut")

WithoutNewline(s) == IF Last(s) = Newline THEN Front(s) ELSE s

UpTo(s, length) == IF Len(s) > length THEN SubSeq(s, 1, length) ELSE s

CutLate(s, length) == UpTo(WithoutNewline(s), length)

CutFirst(s, length) == WithoutNewline(UpTo(s, length))

\* The prompt is cut to as many bytes as the context has tokens, then loses a
\* newline at its end.  prompt.back() is undefined if nothing is left: the
\* program aborts or finds no newline.
Cut ==
  /\ At("cut")
  /\ IF UpTo(prompt, args.ctx_size) = <<>>
     THEN prompt' = <<>> /\ pc' \in {"load", "aborted"}
     ELSE prompt' = CutFirst(prompt, args.ctx_size) /\ pc' = "load"
  /\ UNCHANGED <<args, killed, pos, input, skip, lines, unfreed, model>>

----------------------------------------------------------------------------
(* main.                                                                   *)

Go(from, to) ==
  /\ At(from)
  /\ pc' = to
  /\ UNCHANGED <<args, killed, prompt, pos, input, skip, lines, unfreed>>

\* ctx.load() takes the lock; it returns, or throws to the end of the block.
Load        == Go("load", "loading") /\ UNCHANGED model
LoadReturns == Go("loading", "options") /\ model' = "loaded"

LoadThrowsNothing == Go("loading", "options") /\ UNCHANGED model

LoadThrows == Go("loading", "load failed") /\ UNCHANGED model

\* set_predict_options; the loaded prompt is the first input.
SetOptions ==
  /\ At("options")
  /\ input' = IF prompt = <<>> THEN "null" ELSE "prompt"
  /\ skip' = (prompt # <<>>)
  /\ pc' = "head"
  /\ UNCHANGED <<args, killed, prompt, pos, lines, unfreed, model>>

\* ic_readline returns a line ...
ReadLine ==
  /\ At("head")
  /\ input = "null"
  /\ lines < MaxLines
  /\ input' = "line"
  /\ lines' = lines + 1
  /\ unfreed' = unfreed + 1
  /\ UNCHANGED <<args, pc, killed, prompt, pos, skip, model>>

\* ... or null, at the end of the input.
EndOfInput == input = "null" /\ Go("head", "closing") /\ UNCHANGED model

TakeInputFrees ==
  /\ At("head")
  /\ input # "null"
  /\ unfreed' = unfreed - 1
  /\ skip' = FALSE
  /\ input' = "null"
  /\ pc' = "text"
  /\ UNCHANGED <<args, killed, prompt, pos, lines, model>>

\* The input is copied and freed, unless it is the loaded prompt.
TakeInput ==
  /\ At("head")
  /\ input # "null"
  /\ unfreed' = IF skip THEN unfreed ELSE unfreed - 1
  /\ skip' = FALSE
  /\ input' = "null"
  /\ pc' = "text"
  /\ UNCHANGED <<args, killed, prompt, pos, lines, model>>

\* ctx.predict(text + "\n"), whose result is not used.
Predict        == Go("text", "sizing") /\ UNCHANGED model
Infer          == Go("sizing", "inferring") /\ UNCHANGED model
PredictReturns == Go("inferring", "head") /\ UNCHANGED model
PredictThrows  == Go("inferring", "unwinding") /\ UNCHANGED model

\* ~context, at the end of the block or because of an exception.
Unload ==
  /\ Go("closing", "done") \/ Go("unwinding", "failed")
  /\ model' = "freed"

\* SIGINT ends the process at once (_exit).
Interrupt ==
  /\ ~killed
  /\ killed' = TRUE
  /\ UNCHANGED <<args, pc, prompt, pos, input, skip, lines, unfreed, model>>

Prepare == Open \/ ReplaceUser \/ ReplaceAi \/ Cut

Work ==
  \/ Load \/ LoadReturns \/ LoadThrows \/ SetOptions
  \/ ReadLine \/ EndOfInput \/ TakeInput
  \/ Predict \/ Infer \/ PredictReturns \/ PredictThrows \/ Unload

Next == Prepare \/ Work \/ Interrupt

Spec == Init /\ [][Next]_vars

\* The program goes on, as load_model and inference return, and the user types
\* a line or ends the input.
FairSpec == Spec /\ WF_vars(Prepare \/ Work)

----------------------------------------------------------------------------
(* Properties.                                                             *)

Ended == killed \/ pc \in {"done", "failed", "load failed", "aborted"}

\* What the prompt file becomes from each character on, with both marks replaced
\* in one pass from left to right.
ExpandedFrom(a) ==
  LET Marked(k, mark) == IsPrefix(mark, SubSeq(a.file, k, Len(a.file)))
      from[k \in Nat \ {0}] ==
        IF k > Len(a.file) THEN <<>>
        ELSE IF Marked(k, UserMark) THEN a.user \o from[k + Len(UserMark)]
        ELSE IF Marked(k, AiMark) THEN a.ai \o from[k + Len(AiMark)]
        ELSE <<a.file[k]>> \o from[k + 1]
  IN  from

Expanded(a) == ExpandedFrom(a)[1]

\* The two passes of replace_all over a growing or shrinking string come to one
\* simultaneous replacement, as long as the user's name contains no character of
\* the AI mark and is not empty: otherwise it may be replaced in its turn, or what
\* is left around a user mark may join to an AI mark.  Inference gets the
\* beginning, without a last newline.
PromptIsExpanded ==
  pc = "load" /\ args.readable /\ args.user # <<>>
    /\ ToSet(args.user) \cap ToSet(AiMark) = {}
    => LET whole == UpTo(Expanded(args), args.ctx_size)
       IN  prompt = IF whole # <<>> /\ Last(whole) = Newline
                    THEN Front(whole) ELSE whole

\* Every line that was read has been freed when the next one is read or the
\* program ends by itself, none twice, and the loaded prompt never.
InputsFreedOnce ==
  /\ unfreed = IF input = "line" THEN 1 ELSE 0
  /\ input = "prompt" <=> skip

\* The program ends when its input does: neither the expansion nor the loop that
\* starts with the loaded prompt goes round for ever.
Ends == <>Ended

\* The program keeps to the order of calls that Context asks of its clients: it
\* predicts with a loaded model only, changes options and model while nobody
\* uses them (no call ever falls into another), and frees the model once.
Sizes  == {128} \cup {a.n_predict : a \in Args}
Using  == pc \in {"head", "text", "sizing", "inferring", "closing", "unwinding",
                 "done", "failed"}
Buffer == IF args.n_predict > 0 THEN args.n_predict ELSE 0

Ctx == INSTANCE Context WITH
  Threads <- {"main"}, Sizes <- Sizes, WithEmbeddings <- FALSE, EmbeddingWidth <- 1,
  NoOne <- "nobody", MaxLoads <- 1,
  pc <- [t \in {"main"} |->
           IF pc \in {"loading", "sizing", "inferring"} THEN pc ELSE "idle"],
  lock <- IF pc = "loading" THEN "main" ELSE "nobody",
  initialized <- model = "loaded",
  handle <- IF model = "loaded" THEN 1 ELSE 0,
  embeddings <- FALSE,
  tokens <- IF Using THEN args.n_predict ELSE 128,
  callback <- FALSE,
  loads <- IF model = "none" THEN 0 ELSE 1,
  frees <- [h \in 1 .. 1 |-> IF model = "freed" THEN 1 ELSE 0],
  local <- [t \in {"main"} |->
              [buffer |-> IF pc \in {"sizing", "inferring"} THEN Buffer ELSE 0,
               size   |-> IF pc = "inferring" THEN Buffer ELSE 0,
               handle |-> IF pc = "inferring" THEN 1 ELSE 0]],
  denied <- {}, overlaps <- {}

ImplementsContext == Ctx!Spec

=============================================================================
