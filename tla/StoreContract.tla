----------------------------- MODULE StoreContract -----------------------------
(***************************************************************************)
(* What the session store promises, without temporary files, claims, syncs *)
(* or sweeps: documents under public names that change one at a time and   *)
(* at once, each by the operation in progress, which reports when nothing  *)
(* of what it changed can be lost any more.                                *)
(***************************************************************************)
CONSTANT Session

VARIABLES doc,      \* name -> the document that any process finds
          kept,     \* name -> the document that a power failure leaves
          task,     \* the operation in progress, which has the store to itself
          told,     \* name -> the document that was reported as there to stay
          handed    \* sessions whose request was handed to a caller

vars == <<doc, kept, task, told, handed>>

Record(s) == <<"record", s>>
Request(s) == <<"request", s>>
Name == {Record(s) : s \in Session} \cup {Request(s) : s \in Session}

\* A record that decodes; another release may have left one that does not.
Decoded == {"active", "ended"}

\* What is called, the sessions it is about, the document it is to write,
\* whether an update removes the request too, the names it has changed, and
\* whether there is more to do.
NoTask == [op |-> "none", of |-> {}, new |-> "none", drop |-> FALSE, did |-> {},
           state |-> "open"]

Init ==
    /\ doc \in [Name -> {"garbled", "none"}]
    /\ \A s \in Session : doc[Request(s)] = "none"
    /\ kept = doc
    /\ task = NoTask
    /\ told = doc
    /\ handed = {}

-----------------------------------------------------------------------------
Begin(op, of, new, drop) ==
    /\ task = NoTask
    /\ task' = [op |-> op, of |-> of, new |-> new, drop |-> drop, did |-> {}, state |-> "open"]
    /\ UNCHANGED <<doc, kept, told, handed>>

Calls ==
    \/ \E s \in Session :
          \/ Begin("save", {s}, "active", FALSE)
          \/ \E new \in Decoded, drop \in BOOLEAN : Begin("update", {s}, new, drop)
          \/ Begin("publish", {s}, "request", FALSE)
          \/ \E op \in {"consume", "discard", "delete"} : Begin(op, {s}, "none", FALSE)
    \/ Begin("clean", Session, "none", FALSE)

\* One name changes, and the operation remembers that it has.
Becomes(n, new) ==
    /\ doc' = [doc EXCEPT ![n] = new]
    /\ told' = [told EXCEPT ![n] = "unknown"]
    /\ task' = [task EXCEPT !.did = @ \cup {n}]
    /\ UNCHANGED <<kept, handed>>

Save(s) ==
    /\ task.op = "save"
    /\ Becomes(Record(s), "active")

\* A session that has ended stays so.
Update(s) ==
    /\ task.op = "update"
    /\ doc[Record(s)] \in Decoded
    /\ doc[Record(s)] = "ended" => task.new = "ended"
    /\ Becomes(Record(s), task.new)

Publish(s) ==
    /\ task.op = "publish"
    /\ Becomes(Request(s), "request")

\* A request goes to a consumer, with the end of its session, or when asked.
Withdraw(s) ==
    /\ \/ task.op \in {"consume", "discard"}
       \/ task.op = "update" /\ task.drop /\ doc[Record(s)] \in Decoded
       \/ task.op = "delete" /\ doc[Record(s)] = "ended"
       \/ task.op = "clean" /\ doc[Record(s)] \in {"none", "ended"}
    /\ doc[Request(s)] = "request"
    /\ Becomes(Request(s), "none")

\* A record goes last, and only that of a session that has ended.
Remove(s) ==
    /\ task.op = "delete"
    /\ doc[Record(s)] = "ended" /\ doc[Request(s)] = "none"
    /\ Becomes(Record(s), "none")

\* CleanupLaunches goes on behind a request that it could not remove.
Tolerate(s) ==
    /\ task.op = "clean"
    /\ task' = [task EXCEPT !.did = @ \ {Request(s)}]
    /\ UNCHANGED <<doc, kept, told, handed>>

-----------------------------------------------------------------------------
\* Documents become durable, now or later, one by one or together.
Keeps == \E some \in SUBSET Name :
            kept' = [n \in Name |-> IF n \in some THEN doc[n] ELSE kept[n]]

Persist ==
    /\ Keeps
    /\ UNCHANGED <<doc, task, told, handed>>

\* What an operation is over with is done, ...
Done(s) ==
    /\ task.op = "save" => Record(s) \in task.did
    /\ task.op = "publish" => Request(s) \in task.did
    /\ task.op = "consume" => Request(s) \in task.did
    /\ task.op = "update" => doc[Record(s)] \in Decoded
    /\ task.op = "delete" => doc[Record(s)] = "none"
    /\ task.op \in {"consume", "discard", "delete"} \/ task.drop => doc[Request(s)] = "none"

\* ... and durable where it did it.
Complete ==
    /\ task.op # "clean" => \A s \in task.of : Done(s)
    /\ Keeps
    /\ \A n \in task.did : kept'[n] = doc[n]
    /\ task' = [task EXCEPT !.state = "complete"]
    /\ UNCHANGED <<doc, told, handed>>

\* The arguments of a session are handed out once.
HandOut ==
    \/ UNCHANGED handed
    \/ task.op = "consume" /\ \E s \in task.of \ handed : handed' = handed \cup {s}

Report ==
    /\ task.state = "complete"
    /\ told' = [n \in Name |-> IF n \in task.did THEN doc[n] ELSE told[n]]
    /\ HandOut
    /\ task' = NoTask
    /\ UNCHANGED <<doc, kept>>

\* An error, or the death of the process: what was changed stays changed.
Fail ==
    /\ task' = NoTask
    /\ UNCHANGED <<doc, kept, told, handed>>

PowerFailure ==
    /\ doc' = kept
    /\ task' = NoTask
    /\ UNCHANGED <<kept, told, handed>>

Works == \E s \in task.of :
    Save(s) \/ Update(s) \/ Publish(s) \/ Withdraw(s) \/ Remove(s) \/ Tolerate(s)

Next ==
    \/ Calls
    \/ task.state = "open" /\ (Works \/ Complete)
    \/ Report \/ Fail \/ Persist \/ PowerFailure

Spec == Init /\ [][Next]_vars
=============================================================================
