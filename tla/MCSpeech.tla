------------------------------ MODULE MCSpeech ------------------------------
(***************************************************************************)
(* TLC instance of model calls and speech, in behaviours of four kinds:    *)
(*   "calls"   two calls of one client;                                    *)
(*   "life"    the life of a server process that serves them;              *)
(*   "speech"  a speaker with its own call; what follows the rewriting     *)
(*             shares nothing with calls, and waits until they are done;   *)
(*   "input"   one session of speech input, which shares nothing with them.*)
(***************************************************************************)
EXTENDS Speech, Lifespan

VARIABLE kind

\* Texts of up to three words, whose last one ends a sentence and whose second of
\* three has a recording.
MCTexts ==
    {t \in UNION {[1 .. n -> Words] : n \in 0 .. 3} :
        /\ t # << >> => t[Len(t)].end = "stop"
        /\ Len(t) = 3 => t[2].local /\ ~t[1].local}

MCInit ==
    /\ LlmInit /\ LifeInit /\ TtsInit /\ SttInit
    /\ kind \in {"calls", "life", "speech", "input"}
    /\ kind # "life" => ~database
    /\ kind # "speech" => streams = {}
    /\ kind \in {"life", "input"} => how = [c \in Calls |-> "post"]
    /\ kind = "speech" => how = [c \in Calls |-> "ask"]

Sending == \E s \in Speakers : stage'[s] \notin {"new", "rewrite", "cut"}

MCNext ==
    /\ \/ kind = "calls" /\ LlmNext /\ UNCHANGED <<lifeVars, ttsVars, sttVars>>
       \/ /\ kind = "life"
          /\ LifeNext \/ (life = "serve" /\ LlmNext /\ UNCHANGED lifeVars)
          /\ UNCHANGED <<ttsVars, sttVars>>
       \/ /\ kind = "speech"
          /\ \/ TtsNext
             \/ (\E s \in Speakers : CallGoesOn(s)) /\ UNCHANGED ttsVars
          /\ Sending => \A c \in Calls : pc'[c] \in {"new", "done"}
          /\ UNCHANGED <<lifeVars, sttVars>>
       \/ kind = "input" /\ SttNext /\ UNCHANGED <<llmVars, lifeVars, ttsVars>>
    /\ UNCHANGED kind

MCSpec ==
    /\ MCInit /\ [][MCNext]_<<llmVars, lifeVars, ttsVars, sttVars, kind>>
    /\ LlmFairness /\ LifeFairness /\ TtsFairness /\ SttFairness
=============================================================================
