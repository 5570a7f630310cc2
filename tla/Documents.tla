------------------------------ MODULE Documents ------------------------------
(***************************************************************************)
(* Documents that users upload to ask about (document/), around the stored *)
(* history of one conversation, which ChatHistory models.                  *)
(*                                                                         *)
(* An upload is written to a directory under the second of its arrival and *)
(* its own name.  Its client then asks for a summary: the handler parses   *)
(* the file, writes the text to a file of its own, copies that to another  *)
(* host, records name and path for the conversation, summarises, and adds  *)
(* the pair of messages to the history.  A question looks up the records   *)
(* of its conversation, loads their texts and has a model answer.  What is *)
(* read or written by a handler between two awaits holds the event loop;   *)
(* other handlers and the pool threads of chat turns run at the awaits.    *)
(*                                                                         *)
(* Uploads of one name are modelled, from this conversation (those that    *)
(* are also in Asks) and from others; different names never meet.  Texts   *)
(* are named by the upload they were in.  The limit of characters that a   *)
(* question passes on, and replies that change nothing, are left out.      *)
(***************************************************************************)
EXTENDS ChatHistory, FiniteSets

CONSTANTS Uploads,     \* uploads; those of this conversation are also Asks
          MaxSeconds,  \* bound: seconds that pass
          DocLimit,    \* max_documents: how many records a question looks at
          MaxDocErrors \* bound: failures outside the history

ASSUME DocumentAssumption ==
    MaxSeconds \in Nat /\ DocLimit \in Nat \ {0} /\ MaxDocErrors \in Nat

VARIABLES second,     \* the current second
          disk,       \* disk[s]: whose contents the file of second s has
          stamp,      \* stamp[u]: the second in the name of u's file; 0: none
          dstep,      \* dstep[u]: the next step of u's extraction
          body,       \* body[u]: the text that was extracted for u
          local,      \* uploads whose text file exists on this host
          remote,     \* uploads whose text file exists on the other host
          docs,       \* gsnd_uploaded_documents: uploads in order of their ids
          qstep,      \* qstep[q]: the next step of question q
          todo,       \* todo[q]: records whose texts q has not tried to load
          context,    \* context[q]: the texts q loaded
          docErrors

fileVars == <<second, disk, stamp>>
extractVars == <<dstep, body, local, remote, docs>>
askVars == <<qstep, todo, context>>
documentVars == <<vars, fileVars, extractVars, askVars, docErrors>>

Ours == Uploads \cap Asks
Questions == Asks \ Uploads

DocumentsTypeOK ==
    /\ TypeOK
    /\ stamp \in [Uploads -> 0 .. MaxSeconds]
    /\ dstep \in [Uploads -> {"new", "uploaded", "written", "sent", "unsent", "stored",
                              "save", "done"}]
    /\ local \subseteq Uploads /\ remote \subseteq Uploads
    /\ docs \in Seq(Uploads)
    /\ qstep \in [Questions -> {"new", "load", "stored", "done"}]
    /\ docErrors \in 0 .. MaxDocErrors

-------------------------------------------------------------------------------
DocumentsInit ==
    /\ Init
    /\ second = 1
    /\ disk = << >> /\ stamp = [u \in Uploads |-> 0]
    /\ dstep = [u \in Uploads |-> "new"]
    /\ body = << >>
    /\ local = {} /\ remote = {}
    /\ docs = << >>
    /\ qstep = [q \in Questions |-> "new"]
    /\ todo = [q \in Questions |-> {}]
    /\ context = [q \in Questions |-> {}]
    /\ docErrors = 0

Fails == docErrors < MaxDocErrors /\ docErrors' = docErrors + 1
Reach(u, s) == dstep' = [dstep EXCEPT ![u] = s]

\* What a record or a pair f says of x from now on.
With(f, x, v) == [y \in DOMAIN f \cup {x} |-> IF y = x THEN v ELSE f[y]]

\* The name of the file: its second, for one name of the client's file.
FileName(now) == now

Upload(u) ==
    /\ dstep[u] = "new" /\ loop = "idle"
    /\ second' \in second .. MaxSeconds
    /\ stamp' = [stamp EXCEPT ![u] = FileName(second')]
    /\ disk' = With(disk, FileName(second'), u)
    /\ Reach(u, "uploaded")
    /\ UNCHANGED <<vars, body, local, remote, docs, askVars, docErrors>>

-------------------------------------------------------------------------------
\* Extraction.

\* The file is parsed in a thread, and its text written when the loop is free;
\* an error of either ends the call.
Extract(u) ==
    /\ dstep[u] = "uploaded" /\ loop = "idle"
    /\ \/ /\ body' = With(body, u, disk[stamp[u]])
          /\ local' = local \cup {u}
          /\ Reach(u, "written")
          /\ UNCHANGED docErrors
       \/ Fails /\ Reach(u, "done") /\ UNCHANGED <<body, local>>
    /\ UNCHANGED <<vars, fileVars, remote, docs, askVars>>

\* scp reports success, fails, or has copied when its time is over.
Transfer(u) ==
    /\ dstep[u] = "written"
    /\ \/ remote' = remote \cup {u} /\ Reach(u, "sent") /\ UNCHANGED docErrors
       \/ remote' \in {remote, remote \cup {u}} /\ Fails /\ Reach(u, "unsent")
    /\ UNCHANGED <<vars, fileVars, body, local, docs, askVars>>

FaultyKeptAfter(u) == local \ {u}

\* The local text is removed only after a transfer that succeeded.
KeptAfter(u) == IF dstep[u] = "sent" THEN local \ {u} ELSE local

\* Neither removing the local text nor recording the document need succeed.
Record(u) ==
    /\ dstep[u] \in {"sent", "unsent"} /\ loop = "idle"
    /\ \/ local' = KeptAfter(u) /\ docs' = Append(docs, u) /\ UNCHANGED docErrors
       \/ local' = local /\ docs' = Append(docs, u) /\ Fails
       \/ local' = KeptAfter(u) /\ docs' = docs /\ Fails
    /\ Reach(u, "stored")
    /\ UNCHANGED <<vars, fileVars, body, remote, askVars>>

\* The summary, empty if the model fails, and the read of the history it is
\* appended to; upsert_history takes no lock.
ReadSummary(u) ==
    /\ dstep[u] = "stored" /\ loop = "idle"
    /\ \E t \in {"answer", ""}, db \in {row, << >>} :
        /\ Reads(db)
        /\ mem' = [mem EXCEPT ![u] = db \o <<UserMessage(u), AssistantMessage(u, t)>>]
        /\ text' = [text EXCEPT ![u] = t]
    /\ loop' = "ask"
    /\ Reach(u, "save")
    /\ UNCHANGED <<row, listed, shown, pc, front, feedbackVars, deleted, writeErrors,
                   fileVars, body, local, remote, docs, askVars, docErrors>>

\* The reply follows a request to index the collection, whatever that returns.
SaveSummary(u) ==
    /\ dstep[u] = "save"
    /\ Overwrite(mem[u])
    /\ loop' = "idle"
    /\ Reach(u, "done")
    /\ shown' = IF deleted THEN shown
                ELSE shown \o <<UserMessage(u), AssistantMessage(u, text[u])>>
    /\ UNCHANGED <<listed, requestVars, feedbackVars, deleted, readErrors,
                   fileVars, body, local, remote, docs, askVars, docErrors>>

-------------------------------------------------------------------------------
\* A question.

FaultyIsOurs(u) == TRUE

\* conv_id = %s AND user_id = %s
IsOurs(u) == u \in Ours

\* get_uploaded_documents: the newest records of the conversation.
Records ==
    LET ours == {i \in DOMAIN docs : IsOurs(docs[i])}
    IN  {docs[i] : i \in {j \in ours : Cardinality({k \in ours : k > j}) < DocLimit}}

\* What the search engine may return for a question.  The arguments of the call
\* are one place off: it asks for the documents of a user whose id is the
\* number of results, in a conversation whose id is the user's.
Scope(u) == IF u \in Ours THEN <<"user", "conversation">> ELSE <<"else", "elsewhere">>
Candidates == {u \in {docs[i] : i \in DOMAIN docs} : Scope(u) = <<"number", "user">>}

\* Without a candidate, or after an error, the recorded files are loaded.
Sources ==
    IF Candidates = {} THEN Records ELSE Records \cap Candidates

FindRecords(q) ==
    /\ qstep[q] = "new" /\ MayStart("ask")
    /\ \/ todo' = [todo EXCEPT ![q] = Sources] /\ UNCHANGED docErrors
       \/ todo' = todo /\ Fails
    /\ qstep' = [qstep EXCEPT ![q] = IF todo'[q] = {} THEN "done" ELSE "load"]
    /\ UNCHANGED <<vars, fileVars, extractVars, context>>

\* A text on this host, or else the other host's, which may not answer.  They are
\* loaded one after the other; each only adds to the context, so in any order.
LoadText(q, u) ==
    /\ qstep[q] = "load" /\ u \in todo[q]
    /\ \/ /\ u \in local \cup remote
          /\ context' = [context EXCEPT ![q] = @ \cup {body[u]}]
          /\ UNCHANGED docErrors
       \/ u \notin local /\ Fails /\ UNCHANGED context
    /\ todo' = [todo EXCEPT ![q] = @ \ {u}]
    /\ UNCHANGED <<vars, fileVars, extractVars, qstep>>

\* Without a text, or without an answer, the question is not stored.
AnswerQuestion(q) ==
    /\ qstep[q] = "load" /\ todo[q] = {}
    /\ \/ /\ context[q] # {} /\ AppendAnswer(q)
          /\ qstep' = [qstep EXCEPT ![q] = "stored"]
          /\ UNCHANGED docErrors
       \/ /\ context[q] = {} /\ qstep' = [qstep EXCEPT ![q] = "done"]
          /\ UNCHANGED <<vars, docErrors>>
       \/ Fails /\ qstep' = [qstep EXCEPT ![q] = "done"] /\ UNCHANGED vars
    /\ UNCHANGED <<fileVars, extractVars, todo, context>>

StoreQuestion(q) ==
    /\ SaveAsk(q) \/ RelistAsk(q)
    /\ UNCHANGED <<fileVars, extractVars, askVars, docErrors>>

\* A summary of another conversation goes to another history.
ExtractNext(u) ==
    \/ Extract(u) \/ Transfer(u) \/ Record(u)
    \/ u \in Ours /\ (ReadSummary(u) \/ SaveSummary(u))

QuestionNext(q) ==
    \/ FindRecords(q) \/ AnswerQuestion(q) \/ StoreQuestion(q)
    \/ \E u \in Uploads : LoadText(q, u)

OtherCalls ==
    /\ (\E r \in Turns : TurnNext(r)) \/ FeedbackNext \/ DeleteNext
    /\ UNCHANGED <<fileVars, extractVars, askVars, docErrors>>

DocumentsNext ==
    \/ \E u \in Uploads : Upload(u) \/ ExtractNext(u)
    \/ \E q \in Questions : QuestionNext(q)
    \/ OtherCalls

DocumentsSpec == DocumentsInit /\ [][DocumentsNext]_documentVars

-------------------------------------------------------------------------------
\* A recorded document can be read: whatever failed of writing, copying,
\* removing and recording its text, the path that was recorded names a file on
\* this host or on the other.
RecordedTextExists ==
    \A i \in DOMAIN docs : docs[i] \in local \cup remote

\* A question is answered from documents of its own conversation, unless a
\* file of another was uploaded under the same name in the same second, which
\* replaces it (the name is meant to avoid that, document/_upload.py:23).
AnswersFromOwn ==
    \A q \in Questions : \A t \in context[q] :
        t \in Ours \/ \E u \in Ours : stamp[u] = stamp[t]
=============================================================================
