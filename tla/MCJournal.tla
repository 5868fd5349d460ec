----------------------------- MODULE MCJournal -----------------------------
(* Small instances of Journal for TLC. *)
EXTENDS Journal, TLC

Nobody == <<System, {}>>
Everybody == <<System, Consumers>>
Own == {<<c, {c}>> : c \in Consumers}

(* Every kind of event; an opening is shown whoever it is addressed to, the *)
(* one of a human's answer only to its recipients.                          *)
AllKinds ==
    {<<x[1], x[2][1], x[2][2]>> :
        x \in ({"note"} \X (Own \cup {Everybody}))
                \cup ({"opened"} \X (Own \cup {Nobody}))
                \cup ({"resolved"} \X {Nobody, Everybody})
                \cup ({"taken"} \X {Everybody})}

(* Notes of the system for everybody. *)
Notes == {<<"note", System, Consumers>>}
=============================================================================
