---------------------------- MODULE EmailProofs -----------------------------
(***************************************************************************)
(* The email channel for any number of mails, deliveries and customers:    *)
(* what a redelivery finds, wherever the processes interleave and stop.    *)
(***************************************************************************)
EXTENDS EmailInbound, TLAPS

Early == {"idle", "check", "find", "insert"}
Working == {"record", "respond", "reply", "escalate", "commit", "send"}

(* Conversation c has mail m as its header, or a later mail has replaced m *)
(* as a header.                                                            *)
IsHeader(c, m) == (c \in Rows /\ conv[c].header = m) \/ m \in moved

(* What a delivery knows at each point of the handler.                     *)
Known(d) ==
    LET q == dlv[d] IN
    /\ q.pc # "idle" => q.mail \in Written
    /\ q.pc \in Early => ~q.bump /\ d \notin Rows
    /\ q.pc \in Working => q.conv \in Rows
    /\ q.pc \in Working /\ ~q.bump => q.conv = d
    /\ q.pc \in Early \cup {"record", "respond"} => q.answer = NULL
    /\ q.pc = "send" => q.answer # NULL
    /\ q.pc # "done" => q.res = NULL

(* The messages that are stored by then.                                   *)
Stored(d) ==
    LET q == dlv[d] IN
    /\ q.pc \in {"respond", "reply", "escalate", "commit", "send"} =>
          MessageOf(d, "customer") \in messages
    /\ q.pc \in {"escalate", "commit", "send"} /\ q.answer # NULL =>
          MessageOf(d, "ai") \in messages

(* Past the commit, the mail is the header of the conversation.            *)
Recorded(d) ==
    dlv[d].pc = "send" \/ dlv[d].res = "ok" => IsHeader(dlv[d].conv, dlv[d].mail)

Local(d) == Known(d) /\ Stored(d) /\ Recorded(d)

(* A mail is the header of at most one conversation, and a conversation    *)
(* keeps the mail that created it as its header until another replaces it. *)
Headers ==
    /\ \A c, e \in Rows : conv[c].header = conv[e].header => c = e
    /\ \A c \in Rows : IsHeader(c, dlv[c].mail)

(* What an answer that SES accepted says about its delivery.               *)
Answers ==
    \A s \in sent :
        /\ dlv[s.id].pc \in {"send", "done"}
        /\ dlv[s.id].mail = s.mail /\ s.mail \in Written
        /\ IsHeader(dlv[s.id].conv, s.mail)
        /\ {MessageOf(s.id, "customer"), MessageOf(s.id, "ai")} \subseteq messages

(* A delivery past the check of a mail that was answered "ok" before knows *)
(* that the header has moved on.                                           *)
Recognised ==
    \A e \in Deliveries : \A d \in past[e] :
        /\ dlv[d].pc = "done"
        /\ /\ dlv[d].res = "ok" /\ dlv[d].mail = dlv[e].mail
           /\ dlv[e].pc \in {"find", "insert"} \cup Working \/ dlv[e].res = "ok"
           => dlv[d].mail \in moved

Locals == \A d \in Deliveries : Local(d)
IInv == TypeOK /\ Locals /\ Headers /\ Answers /\ Recognised

LEMMA InitIInv == Init => IInv
<1> SUFFICES ASSUME Init PROVE IInv
  OBVIOUS
<1> USE EmailAssumption DEF Init
<1>1. NewDelivery \in Delivery
  BY DEF NewDelivery, Delivery
<1>2. TypeOK
  BY <1>1 DEF TypeOK
<1>3. Locals
  BY NullAssumption
     DEF Locals, Local, Known, Stored, Recorded, NewDelivery, Early, Working, Rows
<1>4. Headers /\ Answers /\ Recognised
  BY DEF Headers, Answers, Recognised, Rows
<1> QED
  BY <1>2, <1>3, <1>4 DEF IInv

(* What a step of a delivery leaves behind for the others: nothing that    *)
(* was written, stored or a header is lost, and only its own conversation  *)
(* may appear.                                                             *)
Grows(d) ==
    /\ Written \subseteq Written' /\ Rows \subseteq Rows' /\ Rows' \subseteq Rows \cup {d}
    /\ messages \subseteq messages' /\ moved \subseteq moved'
    /\ \A c, m : IsHeader(c, m) => IsHeader(c, m)'

LEMMA Untouched ==
    ASSUME NEW d, NEW e \in Deliveries, e # d \/ Rows' = Rows, Grows(d), Local(e),
           dlv'[e] = dlv[e]
    PROVE  Local(e)'
<1>1. Early' = Early /\ Working' = Working
  BY DEF Early, Working
<1>2. Known(e)'
  BY <1>1 DEF Grows, Local, Known
<1>3. \A r : MessageOf(e, r)' = MessageOf(e, r)
  BY DEF MessageOf
<1>4. Stored(e)'
  BY <1>3 DEF Grows, Local, Stored
<1>5. Recorded(e)'
  BY DEF Grows, Local, Recorded
<1> QED
  BY <1>2, <1>4, <1>5 DEF Local

(* A step that changes neither the mails, the table nor what has moved.    *)
LEMMA GrowsSame ==
    ASSUME NEW d, UNCHANGED <<mail, conv, moved>>, messages \subseteq messages'
    PROVE  Grows(d)
BY DEF Grows, Written, Rows, IsHeader

(* One delivery steps: what remains to be shown about it.                  *)
Processing == {"find", "insert"} \cup Working

LEMMA OneSteps ==
    ASSUME IInv, NEW d \in Deliveries, NEW x \in Delivery, Grows(d),
           dlv' = [dlv EXCEPT ![d] = x], x.mail = dlv[d].mail,
           dlv[d].pc \notin {"idle", "done"}, mail' = mail, past' = past,
           conv' \in [Deliveries -> Row \cup {NULL}], messages' \subseteq Message,
           moved' \subseteq Mails,
           sent' \subseteq [id : Deliveries, mail : Mails, n : 0..(MaxRetries - 1)],
           Local(d)', Headers',
           dlv[d].pc = "send" => x.pc \in {"send", "done"} /\ x.conv = dlv[d].conv,
           \A s \in sent' \ sent :
              dlv[d].pc = "send" /\ s.id = d /\ s.mail = dlv[d].mail,
           x.pc \in Processing \/ x.res = "ok" =>
              dlv[d].pc \in Processing \/ ~Seen(dlv[d].mail)
    PROVE  IInv'
<1>1. TypeOK'
  BY DEF IInv, TypeOK
<1>2. dlv'[d] = x /\ \A e \in Deliveries \ {d} : dlv'[e] = dlv[e]
  BY DEF IInv, TypeOK
<1>3. Locals'
  BY <1>2, Untouched DEF IInv, Locals
<1>4. Answers'
  <2> SUFFICES ASSUME NEW s \in sent'
               PROVE  /\ dlv'[s.id].pc \in {"send", "done"}
                      /\ dlv'[s.id].mail = s.mail /\ s.mail \in Written'
                      /\ IsHeader(dlv[s.id].conv, s.mail)'
                      /\ {MessageOf(s.id, "customer")', MessageOf(s.id, "ai")'} \subseteq messages'
    BY DEF Answers
  <2>1. s.id \in Deliveries
    OBVIOUS
  <2>2. /\ dlv[s.id].pc \in {"send", "done"}
        /\ dlv[s.id].mail = s.mail /\ s.mail \in Written
        /\ IsHeader(dlv[s.id].conv, s.mail)
        /\ {MessageOf(s.id, "customer"), MessageOf(s.id, "ai")} \subseteq messages
    <3>1. CASE s \in sent
      BY <3>1 DEF IInv, Answers
    <3>2. CASE s \notin sent
      BY <2>1, <3>2 DEF IInv, Locals, Local, Known, Stored, Recorded
    <3> QED
      BY <3>1, <3>2
  <2>3. /\ dlv'[s.id].pc \in {"send", "done"} /\ dlv'[s.id].mail = dlv[s.id].mail
        /\ dlv'[s.id].conv = dlv[s.id].conv
    BY <1>2, <2>1, <2>2
  <2>4. \A r : MessageOf(s.id, r)' = MessageOf(s.id, r)
    BY <2>3 DEF MessageOf
  <2>5. IsHeader(dlv[s.id].conv, s.mail) => IsHeader(dlv[s.id].conv, s.mail)'
    <3>1. PICK c : c = dlv[s.id].conv
      OBVIOUS
    <3>2. IsHeader(c, s.mail) => IsHeader(c, s.mail)'
      BY DEF Grows
    <3>3. dlv'[s.id].conv = c
      BY <2>3, <3>1
    <3> QED
      BY <3>1, <3>2, <3>3 DEF IsHeader
  <2> QED
    BY <2>2, <2>3, <2>4, <2>5 DEF Grows
<1>5. Recognised'
  <2> SUFFICES ASSUME NEW e \in Deliveries, NEW a \in past[e]
               PROVE  /\ dlv'[a].pc = "done"
                      /\ /\ dlv'[a].res = "ok" /\ dlv'[a].mail = dlv'[e].mail
                         /\ dlv'[e].pc \in Processing \/ dlv'[e].res = "ok"
                         => dlv'[a].mail \in moved'
    BY DEF Recognised, Processing, Working
  <2>1. dlv[a].pc = "done" /\ a \in Deliveries
    BY DEF IInv, Recognised, TypeOK
  <2>2. dlv'[a] = dlv[a]
    BY <1>2, <2>1
  <2>3. CASE e # d
    BY <1>2, <2>1, <2>2, <2>3 DEF IInv, Recognised, Processing, Grows
  <2>4. CASE e = d
    <3> SUFFICES ASSUME dlv[a].res = "ok", dlv[a].mail = dlv[d].mail,
                        x.pc \in Processing \/ x.res = "ok"
                 PROVE  dlv[a].mail \in moved
      BY <1>2, <2>1, <2>2, <2>4 DEF Grows
    <3>1. CASE dlv[d].pc \in Processing
      BY <2>4, <3>1 DEF IInv, Recognised, Processing
    <3>2. CASE ~Seen(dlv[d].mail)
      BY <2>1, <3>2 DEF IInv, Locals, Local, Recorded, IsHeader, Seen
    <3> QED
      BY <3>1, <3>2
  <2> QED
    BY <2>1, <2>2, <2>3, <2>4
<1> QED
  BY <1>1, <1>3, <1>4, <1>5 DEF IInv

(* Most steps leave the table alone and mail nothing.                      *)
LEMMA HeadersSame ==
    ASSUME Headers, UNCHANGED <<conv, moved>>, \A c \in Rows : dlv'[c].mail = dlv[c].mail
    PROVE  Headers'
BY DEF Headers, Rows, IsHeader

LEMMA OneStepsInside ==
    ASSUME IInv, NEW d \in Deliveries, NEW x \in Delivery,
           UNCHANGED <<mail, conv, sent, moved, past>>,
           messages \subseteq messages', messages' \subseteq Message,
           dlv' = [dlv EXCEPT ![d] = x], x.mail = dlv[d].mail,
           dlv[d].pc \notin {"idle", "done"}, Local(d)',
           dlv[d].pc = "send" => x.pc \in {"send", "done"} /\ x.conv = dlv[d].conv,
           x.pc \in Processing \/ x.res = "ok" =>
              dlv[d].pc \in Processing \/ ~Seen(dlv[d].mail)
    PROVE  IInv'
<1>1. Grows(d)
  BY GrowsSame
<1>2. \A c \in Rows : dlv'[c].mail = dlv[c].mail
  BY DEF IInv, TypeOK, Rows
<1>3. Headers'
  BY <1>2, HeadersSame DEF IInv
<1>4. TypeOK
  BY DEF IInv
<1> QED
  BY <1>1, <1>3, <1>4, OneSteps DEF TypeOK

-----------------------------------------------------------------------------
(* A delivery that goes on, and one whose handler has returned.            *)
LEMMA GoesOn ==
    ASSUME IInv, NEW d \in Deliveries,
           NEW l \in {"find", "insert", "respond", "reply", "escalate", "commit", "send"},
           Goto(d, l)
    PROVE  \E x \in Delivery :
              /\ dlv' = [dlv EXCEPT ![d] = x] /\ dlv'[d] = x /\ x.pc = l
              /\ x.mail = dlv[d].mail /\ x.conv = dlv[d].conv /\ x.bump = dlv[d].bump
              /\ x.answer = dlv[d].answer /\ x.res = dlv[d].res
<1> DEFINE x == [dlv[d] EXCEPT !.pc = l]
<1>1. dlv[d] \in Delivery
  BY DEF IInv, TypeOK
<1>2. /\ x \in Delivery /\ x.pc = l
      /\ x.mail = dlv[d].mail /\ x.conv = dlv[d].conv /\ x.bump = dlv[d].bump
      /\ x.answer = dlv[d].answer /\ x.res = dlv[d].res
  BY <1>1 DEF Delivery
<1>3. dlv' = [dlv EXCEPT ![d] = x] /\ dlv'[d] = x
  BY DEF Goto, IInv, TypeOK
<1> QED
  BY <1>2, <1>3

LEMMA Returns ==
    ASSUME IInv, NEW d \in Deliveries, NEW s \in {"ok", "duplicate", "error", "crashed"},
           End(d, s)
    PROVE  \E x \in Delivery :
              /\ dlv' = [dlv EXCEPT ![d] = x] /\ dlv'[d] = x /\ x.pc = "done" /\ x.res = s
              /\ x.mail = dlv[d].mail /\ x.conv = dlv[d].conv
<1> DEFINE x == [dlv[d] EXCEPT !.pc = "done", !.res = s]
<1>1. dlv[d] \in Delivery
  BY DEF IInv, TypeOK
<1>2. /\ x \in Delivery /\ x.pc = "done" /\ x.res = s
      /\ x.mail = dlv[d].mail /\ x.conv = dlv[d].conv
  BY <1>1 DEF Delivery
<1>3. dlv' = [dlv EXCEPT ![d] = x] /\ dlv'[d] = x
  BY DEF End, IInv, TypeOK
<1> QED
  BY <1>2, <1>3

(* A handler that stops, or answers something else than "ok", leaves no    *)
(* more to be shown.                                                       *)
LEMMA ReturnsInside ==
    ASSUME IInv, NEW d \in Deliveries, NEW s \in {"duplicate", "error", "crashed"},
           End(d, s), dlv[d].pc \notin {"idle", "done"},
           UNCHANGED <<mail, conv, messages, sent, moved, past>>
    PROVE  IInv'
<1>1. PICK x \in Delivery :
        /\ dlv' = [dlv EXCEPT ![d] = x] /\ dlv'[d] = x /\ x.pc = "done" /\ x.res = s
        /\ x.mail = dlv[d].mail /\ x.conv = dlv[d].conv
  BY Returns
<1>2. Local(d)'
  <2>1. dlv[d].mail \in Written /\ Written' = Written
    BY DEF IInv, Locals, Local, Known, Written
  <2>2. Known(d)'
    BY <1>1, <2>1 DEF Known, Early, Working
  <2>3. Stored(d)' /\ Recorded(d)'
    BY <1>1 DEF Stored, Recorded
  <2> QED
    BY <2>2, <2>3 DEF Local
<1>3. messages' \subseteq Message
  BY DEF IInv, TypeOK
<1>4. x.pc \notin Processing
  BY <1>1 DEF Processing, Working
<1> QED
  BY <1>1, <1>2, <1>3, <1>4, OneStepsInside

(* The steps within the handler that change neither table: what has to be  *)
(* known of the delivery is what its new place asks for.                   *)
LEMMA Advances ==
    ASSUME IInv, NEW d \in Deliveries, NEW x \in Delivery,
           UNCHANGED <<mail, conv, sent, moved, past>>,
           messages \subseteq messages', messages' \subseteq Message,
           dlv' = [dlv EXCEPT ![d] = x], x.mail = dlv[d].mail, x.res = dlv[d].res,
           dlv[d].pc \notin {"idle", "done", "send"},
           x.pc \in Processing \ {"send"},
           x.pc = "insert" => ~x.bump /\ d \notin Rows,
           x.pc = "find" => ~x.bump /\ d \notin Rows /\ ~Seen(x.mail),
           x.pc \in Working => x.conv \in Rows /\ (x.bump \/ x.conv = d),
           x.pc \in {"find", "insert", "record", "respond"} => x.answer = NULL,
           x.pc \in {"find", "insert", "record"}
              \/ [by |-> d, mail |-> x.mail, conv |-> x.conv, role |-> "customer"] \in messages',
           x.pc \in {"escalate", "commit"} /\ x.answer # NULL =>
              [by |-> d, mail |-> x.mail, conv |-> x.conv, role |-> "ai"] \in messages',
           dlv[d].pc \in Processing \/ x.pc = "find"
    PROVE  IInv'
<1>1. dlv'[d] = x /\ dlv[d].mail \in Written /\ dlv[d].res = NULL
  BY DEF IInv, TypeOK, Locals, Local, Known
<1>2. Written' = Written /\ Rows' = Rows
  BY DEF Written, Rows
<1>3. Known(d)'
  <2>1. x.pc \in {"find", "insert"} \cup (Working \ {"send"})
    BY DEF Processing
  <2>2. x.pc # "idle" /\ x.pc # "done" /\ x.pc # "send" /\ x.pc # "check"
    BY <2>1 DEF Working
  <2> QED
    BY <1>1, <1>2, <2>1, <2>2 DEF Known, Early, Working
<1>4. Stored(d)'
  BY <1>1 DEF Stored, MessageOf
<1>5. Recorded(d)'
  BY <1>1, NullAssumption DEF Recorded
<1>6. Local(d)'
  BY <1>3, <1>4, <1>5 DEF Local
<1> QED
  BY <1>1, <1>6, OneStepsInside

LEMMA CheckIInv == ASSUME IInv, NEW d \in Deliveries, Check(d) PROVE IInv'
<1>1. /\ dlv[d].pc = "check" /\ UNCHANGED <<mail, conv, messages, sent, moved, past>>
      /\ messages \subseteq Message
  BY DEF Check, IInv, TypeOK
<1>2. CASE Seen(dlv[d].mail)
  BY <1>1, <1>2, ReturnsInside DEF Check
<1>3. CASE ~Seen(dlv[d].mail)
  <2>1. PICK x \in Delivery :
          /\ dlv' = [dlv EXCEPT ![d] = x] /\ x.pc = "find"
          /\ x.mail = dlv[d].mail /\ x.bump = dlv[d].bump
          /\ x.answer = dlv[d].answer /\ x.res = dlv[d].res
    BY <1>3, GoesOn DEF Check
  <2>2. ~dlv[d].bump /\ d \notin Rows /\ dlv[d].answer = NULL
    BY <1>1 DEF IInv, Locals, Local, Known, Early
  <2>3. x.pc \in Processing \ {"send"} /\ x.pc \notin Working
    BY <2>1 DEF Processing, Working
  <2> QED
    BY <1>1, <1>3, <2>1, <2>2, <2>3, Advances
<1> QED
  BY <1>2, <1>3

LEMMA FindIInv == ASSUME IInv, NEW d \in Deliveries, Find(d) PROVE IInv'
<1>1. /\ dlv[d].pc = "find" /\ UNCHANGED <<mail, conv, messages, sent, moved, past>>
      /\ messages \subseteq Message /\ dlv[d].pc \in Processing
  BY DEF Find, IInv, TypeOK, Processing
<1>2. ~dlv[d].bump /\ d \notin Rows /\ dlv[d].answer = NULL
  BY <1>1 DEF IInv, Locals, Local, Known, Early
<1>3. CASE Goto(d, "insert")
  <2>1. PICK x \in Delivery :
          /\ dlv' = [dlv EXCEPT ![d] = x] /\ x.pc = "insert"
          /\ x.mail = dlv[d].mail /\ x.bump = dlv[d].bump
          /\ x.answer = dlv[d].answer /\ x.res = dlv[d].res
    BY <1>3, GoesOn
  <2>2. x.pc \in Processing \ {"send"} /\ x.pc \notin Working
    BY <2>1 DEF Processing, Working
  <2> QED
    BY <1>1, <1>2, <2>1, <2>2, Advances
<1>4. CASE ~Goto(d, "insert")
  <2>1. PICK c \in Rows :
          dlv' = [dlv EXCEPT ![d].pc = "record", ![d].conv = c, ![d].bump = TRUE,
                             ![d].turn = conv[c].ai /\ conv[c].status = "open"]
    BY <1>4 DEF Find
  <2>2. conv[c] \in Row /\ c \in Deliveries /\ dlv[d] \in Delivery
    BY DEF Rows, IInv, TypeOK
  <2>3. PICK b \in BOOLEAN : b = (conv[c].ai /\ conv[c].status = "open")
    BY <2>2 DEF Row
  <2>4. PICK x : x = [dlv[d] EXCEPT !.pc = "record", !.conv = c, !.bump = TRUE, !.turn = b]
    OBVIOUS
  <2>5. /\ x \in Delivery /\ x.pc = "record" /\ x.conv = c /\ x.bump
        /\ x.mail = dlv[d].mail /\ x.answer = dlv[d].answer /\ x.res = dlv[d].res
    BY <2>2, <2>4 DEF Delivery
  <2>6. dlv' = [dlv EXCEPT ![d] = x]
    BY <2>1, <2>3, <2>4 DEF IInv, TypeOK
  <2>7. x.pc \in Processing \ {"send"}
    BY <2>5 DEF Processing, Working
  <2> QED
    BY <1>1, <1>2, <2>5, <2>6, <2>7, Advances
<1> QED
  BY <1>3, <1>4

(* The handler works on a conversation that is stored.                     *)
LEMMA AtWork ==
    ASSUME IInv, NEW d \in Deliveries, dlv[d].pc \in Working
    PROVE  /\ dlv[d].pc \in Processing /\ dlv[d].pc \notin {"idle", "done"}
           /\ dlv[d].conv \in Rows /\ (dlv[d].bump \/ dlv[d].conv = d)
           /\ dlv[d].mail \in Written /\ dlv[d].res = NULL
           /\ \A role \in {"customer", "ai"} : MessageOf(d, role) \in Message
<1>1. /\ dlv[d].pc \in Processing /\ dlv[d].pc \notin {"idle", "done"}
  BY DEF Processing, Working
<1>2. /\ dlv[d].conv \in Rows /\ (dlv[d].bump \/ dlv[d].conv = d)
      /\ dlv[d].mail \in Written /\ dlv[d].res = NULL
  BY <1>1 DEF IInv, Locals, Local, Known
<1>3. \A role \in {"customer", "ai"} : MessageOf(d, role) \in Message
  BY <1>2 DEF MessageOf, Message, Rows, Written
<1> QED
  BY <1>1, <1>2, <1>3

LEMMA RecordCustomerIInv == ASSUME IInv, NEW d \in Deliveries, RecordCustomer(d) PROVE IInv'
<1>1. /\ dlv[d].pc = "record" /\ UNCHANGED <<mail, conv, sent, moved, past>>
      /\ messages' = messages \cup {MessageOf(d, "customer")}
  BY DEF RecordCustomer
<1>2. dlv[d].pc \in Working
  BY <1>1 DEF Working
<1>3. messages' \subseteq Message
  BY <1>1, <1>2, AtWork DEF IInv, TypeOK
<1>4. PICK l \in {"respond", "commit"} : Goto(d, l)
  BY DEF RecordCustomer
<1>5. PICK x \in Delivery :
        /\ dlv' = [dlv EXCEPT ![d] = x] /\ x.pc = l
        /\ x.mail = dlv[d].mail /\ x.conv = dlv[d].conv /\ x.bump = dlv[d].bump
        /\ x.answer = dlv[d].answer /\ x.res = dlv[d].res
  BY <1>4, GoesOn
<1>6. dlv[d].answer = NULL
  BY <1>1 DEF IInv, Locals, Local, Known
<1>7. x.pc \in Processing \ {"send"} /\ x.pc \notin {"find", "insert", "record"}
  BY <1>4, <1>5 DEF Processing, Working
<1>8. [by |-> d, mail |-> x.mail, conv |-> x.conv, role |-> "customer"] \in messages'
  BY <1>1, <1>5 DEF MessageOf
<1> QED
  BY <1>1, <1>2, <1>3, <1>5, <1>6, <1>7, <1>8, AtWork, Advances

LEMMA RespondIInv == ASSUME IInv, NEW d \in Deliveries, Respond(d) PROVE IInv'
<1>1. /\ dlv[d].pc = "respond" /\ UNCHANGED <<mail, conv, messages, sent, moved, past>>
      /\ messages \subseteq Message
  BY DEF Respond, IInv, TypeOK
<1>2. dlv[d].pc \in Working
  BY <1>1 DEF Working
<1>3. dlv[d].answer = NULL /\ MessageOf(d, "customer") \in messages /\ dlv[d] \in Delivery
  BY <1>1 DEF IInv, Locals, Local, Known, Stored, TypeOK
<1>4. PICK x \in Delivery :
        /\ dlv' = [dlv EXCEPT ![d] = x]
        /\ (x.pc = "commit" /\ x.answer = NULL) \/ x.pc = "reply"
        /\ x.mail = dlv[d].mail /\ x.conv = dlv[d].conv /\ x.bump = dlv[d].bump
        /\ x.res = dlv[d].res
  <2>1. CASE Goto(d, "commit")
    BY <1>3, <2>1, GoesOn
  <2>2. CASE ~Goto(d, "commit")
    <3>1. PICK a \in {"text", "fallback"} :
            dlv' = [dlv EXCEPT ![d].pc = "reply", ![d].answer = a]
      BY <2>2 DEF Respond
    <3> DEFINE y == [dlv[d] EXCEPT !.pc = "reply", !.answer = a]
    <3>2. /\ y \in Delivery /\ y.pc = "reply" /\ y.mail = dlv[d].mail /\ y.conv = dlv[d].conv
          /\ y.bump = dlv[d].bump /\ y.res = dlv[d].res
      BY <1>3 DEF Delivery
    <3>3. dlv' = [dlv EXCEPT ![d] = y]
      BY <3>1 DEF IInv, TypeOK
    <3> QED
      BY <3>2, <3>3
  <2> QED
    BY <2>1, <2>2
<1>5. x.pc \in Processing \ {"send"} /\ x.pc \notin {"find", "insert", "record", "respond"}
      /\ x.pc # "escalate"
  BY <1>4 DEF Processing, Working
<1>6. [by |-> d, mail |-> x.mail, conv |-> x.conv, role |-> "customer"] \in messages'
  BY <1>1, <1>3, <1>4 DEF MessageOf
<1>7. x.pc = "commit" => x.answer = NULL
  BY <1>4
<1> QED
  BY <1>1, <1>2, <1>4, <1>5, <1>6, <1>7, AtWork, Advances

LEMMA RecordReplyIInv == ASSUME IInv, NEW d \in Deliveries, RecordReply(d) PROVE IInv'
<1>1. /\ dlv[d].pc = "reply" /\ UNCHANGED <<mail, conv, sent, moved, past>>
      /\ messages' = messages \cup {MessageOf(d, "ai")}
  BY DEF RecordReply
<1>2. dlv[d].pc \in Working
  BY <1>1 DEF Working
<1>3. messages' \subseteq Message
  BY <1>1, <1>2, AtWork DEF IInv, TypeOK
<1>4. PICK l \in {"escalate", "commit"} : Goto(d, l)
  BY DEF RecordReply
<1>5. PICK x \in Delivery :
        /\ dlv' = [dlv EXCEPT ![d] = x] /\ x.pc = l
        /\ x.mail = dlv[d].mail /\ x.conv = dlv[d].conv /\ x.bump = dlv[d].bump
        /\ x.answer = dlv[d].answer /\ x.res = dlv[d].res
  BY <1>4, GoesOn
<1>6. MessageOf(d, "customer") \in messages
  BY <1>1 DEF IInv, Locals, Local, Stored
<1>7. x.pc \in Processing \ {"send"} /\ x.pc \notin {"find", "insert", "record", "respond"}
  BY <1>4, <1>5 DEF Processing, Working
<1>8. /\ [by |-> d, mail |-> x.mail, conv |-> x.conv, role |-> "customer"] \in messages'
      /\ [by |-> d, mail |-> x.mail, conv |-> x.conv, role |-> "ai"] \in messages'
  BY <1>1, <1>5, <1>6 DEF MessageOf
<1> QED
  BY <1>1, <1>2, <1>3, <1>5, <1>7, <1>8, AtWork, Advances

-----------------------------------------------------------------------------
(* A stored row is updated and keeps its header.                           *)
LEMMA KeepsHeader ==
    ASSUME IInv, NEW c \in Rows, NEW x \in Row, x.header = conv[c].header,
           conv' = [conv EXCEPT ![c] = x], UNCHANGED <<mail, moved>>,
           messages \subseteq messages', \A e \in Rows : dlv'[e].mail = dlv[e].mail
    PROVE  /\ conv' \in [Deliveries -> Row \cup {NULL}]
           /\ \A d : Grows(d)
           /\ Headers'
<1>1. c \in Deliveries /\ conv \in [Deliveries -> Row \cup {NULL}] /\ x # NULL
  BY NullAssumption DEF Rows, IInv, TypeOK
<1>2. conv' \in [Deliveries -> Row \cup {NULL}] /\ Rows' = Rows
      /\ \A e \in Rows : conv'[e].header = conv[e].header
  BY <1>1 DEF Rows
<1>3. \A e, m : IsHeader(e, m)' <=> IsHeader(e, m)
  BY <1>2 DEF IsHeader
<1>4. \A d : Grows(d)
  BY <1>2, <1>3 DEF Grows, Written
<1>5. Headers'
  BY <1>2, <1>3 DEF IInv, Headers, IsHeader
<1> QED
  BY <1>2, <1>4, <1>5

LEMMA EscalateIInv == ASSUME IInv, NEW d \in Deliveries, Escalate(d) PROVE IInv'
<1>1. /\ dlv[d].pc = "escalate" /\ UNCHANGED <<mail, messages, sent, moved, past>>
      /\ messages \subseteq Message /\ Goto(d, "commit")
  BY DEF Escalate, IInv, TypeOK
<1>2. dlv[d].pc \in Working
  BY <1>1 DEF Working
<1>3. PICK x \in Delivery :
        /\ dlv' = [dlv EXCEPT ![d] = x] /\ dlv'[d] = x /\ x.pc = "commit"
        /\ x.mail = dlv[d].mail /\ x.conv = dlv[d].conv /\ x.bump = dlv[d].bump
        /\ x.answer = dlv[d].answer /\ x.res = dlv[d].res
  BY <1>1, GoesOn
<1>4. /\ MessageOf(d, "customer") \in messages
      /\ dlv[d].answer # NULL => MessageOf(d, "ai") \in messages
  BY <1>1 DEF IInv, Locals, Local, Stored
<1>5. x.pc \in Processing \ {"send"} /\ x.pc \notin {"find", "insert", "record", "respond"}
  BY <1>3 DEF Processing, Working
<1>6. CASE conv' = conv
  <2>1. /\ [by |-> d, mail |-> x.mail, conv |-> x.conv, role |-> "customer"] \in messages'
        /\ x.answer # NULL =>
              [by |-> d, mail |-> x.mail, conv |-> x.conv, role |-> "ai"] \in messages'
    BY <1>1, <1>3, <1>4 DEF MessageOf
  <2> QED
    BY <1>1, <1>2, <1>3, <1>5, <1>6, <2>1, AtWork, Advances
<1>7. CASE conv' # conv
  <2>1. PICK c : c = dlv[d].conv
    OBVIOUS
  <2>2. c \in Rows /\ c \in Deliveries /\ conv[c] \in Row
    BY <1>2, <2>1, AtWork DEF Rows, IInv, TypeOK
  <2>3. PICK r : r = [conv[c] EXCEPT !.status = "pending", !.ai = FALSE]
    OBVIOUS
  <2>4. r \in Row /\ r.header = conv[c].header
    BY <2>2, <2>3 DEF Row
  <2>5. conv' = [conv EXCEPT ![c] = r]
    BY <1>7, <2>1, <2>3 DEF Escalate, IInv, TypeOK
  <2>6. \A e \in Rows : dlv'[e].mail = dlv[e].mail
    BY <1>3 DEF Rows, IInv, TypeOK
  <2>7. conv' \in [Deliveries -> Row \cup {NULL}] /\ Grows(d) /\ Headers'
    BY <1>1, <2>2, <2>4, <2>5, <2>6, KeepsHeader
  <2>8. Local(d)'
    <3>1. Known(d)'
      BY <1>1, <1>2, <1>3, <2>7, AtWork DEF Known, Early, Grows
    <3>2. Stored(d)'
      BY <1>1, <1>3, <1>4 DEF Stored, MessageOf
    <3>3. Recorded(d)'
      BY <1>2, <1>3, NullAssumption, AtWork DEF Recorded
    <3> QED
      BY <3>1, <3>2, <3>3 DEF Local
  <2>9. TypeOK
    BY DEF IInv
  <2> QED
    BY <1>1, <1>2, <1>3, <2>7, <2>8, <2>9, AtWork, OneSteps DEF TypeOK
<1> QED
  BY <1>6, <1>7

(* The INSERT: both indexes have admitted the row.                         *)
LEMMA InsertIInv == ASSUME IInv, NEW d \in Deliveries, Insert(d) PROVE IInv'
<1> DEFINE m == dlv[d].mail
<1>1. /\ dlv[d].pc = "insert" /\ UNCHANGED <<mail, messages, sent, moved, past>>
      /\ messages \subseteq Message /\ dlv[d] \in Delivery
  BY DEF Insert, IInv, TypeOK
<1>2. /\ ~dlv[d].bump /\ d \notin Rows /\ dlv[d].answer = NULL /\ m \in Written
      /\ dlv[d].res = NULL
  BY <1>1 DEF IInv, Locals, Local, Known, Early
<1>3. CASE ~Admits(m)
  BY <1>1, <1>3, ReturnsInside DEF Insert
<1>4. CASE Admits(m)
  <2>1. mail[m] \in Mail /\ m \in Mails
    BY <1>2 DEF Written, IInv, TypeOK
  <2>2. ThreadOf(m) \in MsgId
    BY <2>1 DEF ThreadOf, Mail, MsgId
  <2>3. PICK r : r = [cust |-> mail[m].from, status |-> "open", ai |-> TRUE,
                      thread |-> ThreadOf(m), header |-> m]
    OBVIOUS
  <2>4. r \in Row /\ r.header = m /\ r # NULL
    <3>1. mail[m].from \in Customers
      BY <2>1 DEF Mail
    <3>2. r \in Row /\ r.header = m
      BY <2>1, <2>2, <2>3, <3>1 DEF Row
    <3> QED
      BY <3>2, NullAssumption
  <2>5. conv' = [conv EXCEPT ![d] = r]
    BY <1>4, <2>3 DEF Insert
  <2>6. PICK x : x = [dlv[d] EXCEPT !.pc = "record", !.conv = d, !.turn = TRUE]
    OBVIOUS
  <2>7. /\ x \in Delivery /\ x.pc = "record" /\ x.conv = d /\ x.mail = m
        /\ x.bump = dlv[d].bump /\ x.answer = dlv[d].answer /\ x.res = dlv[d].res
    BY <1>1, <2>6 DEF Delivery
  <2>8. dlv' = [dlv EXCEPT ![d] = x] /\ dlv'[d] = x
    BY <1>4, <2>6 DEF Insert, IInv, TypeOK
  <2>9. /\ conv' \in [Deliveries -> Row \cup {NULL}] /\ Rows' = Rows \cup {d}
        /\ conv'[d] = r /\ \A c \in Rows : c # d /\ conv'[c] = conv[c]
    BY <1>2, <2>4, <2>5 DEF Rows, IInv, TypeOK
  <2>10. \A c, n : IsHeader(c, n) => IsHeader(c, n)'
    BY <1>1, <2>9 DEF IsHeader
  <2>11. Grows(d)
    BY <1>1, <2>9, <2>10 DEF Grows, Written
  <2>12. Headers'
    <3>1. \A c \in Rows : conv[c].header # m
      BY <1>4 DEF Admits
    <3>2. \A c \in Rows : dlv'[c].mail = dlv[c].mail
      BY <2>7, <2>8, <2>9 DEF Rows, IInv, TypeOK
    <3>3. \A c, e \in Rows' : conv'[c].header = conv'[e].header => c = e
      BY <2>4, <2>9, <3>1 DEF IInv, Headers
    <3> QED
      BY <2>4, <2>7, <2>8, <2>9, <2>10, <3>2, <3>3 DEF Headers, IsHeader, IInv
  <2>13. Local(d)'
    <3>1. Known(d)'
      BY <1>1, <1>2, <2>7, <2>8, <2>9 DEF Known, Early, Working, Written
    <3>2. Stored(d)' /\ Recorded(d)'
      BY <1>2, <2>7, <2>8, NullAssumption DEF Stored, Recorded
    <3> QED
      BY <3>1, <3>2 DEF Local
  <2>14. x.pc \in Processing => dlv[d].pc \in Processing
    BY <1>1 DEF Processing
  <2>15. x.res # "ok" /\ TypeOK
    BY <1>2, <2>7, NullAssumption DEF IInv
  <2> QED
    BY <1>1, <2>7, <2>8, <2>9, <2>11, <2>12, <2>13, <2>14, <2>15, OneSteps DEF TypeOK
<1> QED
  BY <1>3, <1>4

(* The commit that makes a mail the header of a conversation.              *)
LEMMA Bumps ==
    ASSUME IInv, NEW d \in Deliveries, NEW c \in Rows, NEW m \in Mails,
           \A b \in Rows \ {c} : conv[b].header # m,
           conv' = [conv EXCEPT ![c].header = m],
           moved' = moved \cup ({conv[c].header} \ {m}),
           UNCHANGED <<mail, messages>>, \A e \in Rows : dlv'[e].mail = dlv[e].mail
    PROVE  /\ conv' \in [Deliveries -> Row \cup {NULL}] /\ moved' \subseteq Mails
           /\ Grows(d) /\ Headers' /\ Rows' = Rows /\ conv'[c].header = m
<1>1. /\ c \in Deliveries /\ conv \in [Deliveries -> Row \cup {NULL}] /\ conv[c] \in Row
      /\ conv[c].header \in Mails /\ moved \subseteq Mails
  BY DEF Rows, IInv, TypeOK, Row
<1>2. PICK r : r = [conv[c] EXCEPT !.header = m]
  OBVIOUS
<1>3. r \in Row /\ r.header = m /\ r # NULL
  BY <1>1, <1>2, NullAssumption DEF Row
<1>4. conv' = [conv EXCEPT ![c] = r]
  BY <1>1, <1>2
<1>5. /\ conv' \in [Deliveries -> Row \cup {NULL}] /\ Rows' = Rows /\ conv'[c] = r
      /\ \A b \in Rows \ {c} : conv'[b] = conv[b]
  BY <1>1, <1>3, <1>4 DEF Rows
<1>6. \A e, n : IsHeader(e, n) => IsHeader(e, n)'
  BY <1>3, <1>5 DEF IsHeader
<1>7. Grows(d)
  BY <1>5, <1>6 DEF Grows, Written
<1>8. Headers'
  <2>1. \A b, e \in Rows' : conv'[b].header = conv'[e].header => b = e
    BY <1>3, <1>5 DEF IInv, Headers
  <2> QED
    BY <1>5, <1>6, <2>1 DEF Headers, IsHeader, IInv
<1> QED
  BY <1>1, <1>3, <1>5, <1>7, <1>8

LEMMA CommitHeaderIInv == ASSUME IInv, NEW d \in Deliveries, CommitHeader(d) PROVE IInv'
<1>1. PICK c, m : c = dlv[d].conv /\ m = dlv[d].mail
  OBVIOUS
<1>2. /\ dlv[d].pc = "commit" /\ UNCHANGED <<mail, messages, sent, past>>
      /\ messages \subseteq Message
  BY DEF CommitHeader, IInv, TypeOK
<1>3. dlv[d].pc \in Working
  BY <1>2 DEF Working
<1>4. CASE dlv[d].bump /\ \E b \in Rows \ {c} : conv[b].header = m
  BY <1>1, <1>2, <1>4, ReturnsInside DEF CommitHeader
<1>5. CASE ~(dlv[d].bump /\ \E b \in Rows \ {c} : conv[b].header = m)
  <2>1. /\ conv' = IF dlv[d].bump THEN [conv EXCEPT ![c].header = m] ELSE conv
        /\ moved' = IF dlv[d].bump THEN moved \cup ({conv[c].header} \ {m}) ELSE moved
        /\ IF dlv[d].answer # NULL THEN Goto(d, "send") ELSE End(d, "ok")
    BY <1>1, <1>5 DEF CommitHeader
  <2>2. PICK x \in Delivery :
          /\ dlv' = [dlv EXCEPT ![d] = x] /\ dlv'[d] = x
          /\ x.mail = m /\ x.conv = c
          /\ \/ /\ x.pc = "send" /\ x.bump = dlv[d].bump /\ x.res = dlv[d].res
                /\ x.answer = dlv[d].answer /\ dlv[d].answer # NULL
             \/ x.pc = "done"
    <3>1. CASE dlv[d].answer # NULL
      BY <1>1, <2>1, <3>1, GoesOn
    <3>2. CASE dlv[d].answer = NULL
      BY <1>1, <2>1, <3>2, Returns
    <3> QED
      BY <3>1, <3>2
  <2>3. \A e \in Rows : dlv'[e].mail = dlv[e].mail
    BY <1>1, <2>2 DEF Rows, IInv, TypeOK
  <2>4. /\ c \in Rows /\ m \in Mails /\ m \in Written /\ (dlv[d].bump \/ c = d)
        /\ dlv[d].res = NULL
    BY <1>1, <1>3, AtWork DEF Written
  <2>5. /\ conv' \in [Deliveries -> Row \cup {NULL}] /\ moved' \subseteq Mails
        /\ Grows(d) /\ Headers' /\ IsHeader(c, m)'
    <3>1. CASE dlv[d].bump
      <4>1. \A b \in Rows \ {c} : conv[b].header # m
        BY <1>5, <3>1
      <4>2. /\ conv' = [conv EXCEPT ![c].header = m]
            /\ moved' = moved \cup ({conv[c].header} \ {m})
        BY <2>1, <3>1
      <4>3. /\ conv' \in [Deliveries -> Row \cup {NULL}] /\ moved' \subseteq Mails
            /\ Grows(d) /\ Headers' /\ Rows' = Rows /\ conv'[c].header = m
        <5>1. c \in Rows /\ m \in Mails
          BY <2>4
        <5>2. UNCHANGED <<mail, messages>>
          BY <1>2
        <5> QED
          BY <5>1, <5>2, <2>3, <4>1, <4>2, Bumps
      <4> QED
        BY <2>4, <4>3 DEF IsHeader
    <3>2. CASE ~dlv[d].bump
      <4>1. UNCHANGED <<conv, moved>> /\ TypeOK
        BY <2>1, <3>2 DEF IInv
      <4>2. Grows(d) /\ Headers'
        BY <1>2, <2>3, <4>1, GrowsSame, HeadersSame DEF IInv
      <4>3. IsHeader(c, m)
        BY <1>1, <2>4, <3>2 DEF IInv, Headers
      <4> QED
        BY <4>1, <4>2, <4>3 DEF TypeOK, Grows
    <3> QED
      BY <3>1, <3>2
  <2>6. Local(d)'
    <3>1. Known(d)'
      BY <2>2, <2>4, <2>5 DEF Known, Early, Working, Grows
    <3>2. Stored(d)'
      <4>1. /\ MessageOf(d, "customer") \in messages
            /\ dlv[d].answer # NULL => MessageOf(d, "ai") \in messages
        BY <1>2 DEF IInv, Locals, Local, Stored
      <4> QED
        BY <1>1, <1>2, <2>2, <4>1 DEF Stored, MessageOf
    <3>3. Recorded(d)'
      BY <2>2, <2>5 DEF Recorded, IsHeader
    <3> QED
      BY <3>1, <3>2, <3>3 DEF Local
  <2>7. TypeOK /\ dlv[d].pc \in Processing
    BY <1>3 DEF IInv, Processing
  <2> QED
    BY <1>1, <1>2, <2>2, <2>5, <2>6, <2>7, OneSteps DEF TypeOK
<1> QED
  BY <1>4, <1>5

LEMMA SendIInv == ASSUME IInv, NEW d \in Deliveries, Send(d) PROVE IInv'
<1>1. /\ dlv[d].pc = "send" /\ UNCHANGED <<mail, conv, messages, moved, past>>
      /\ dlv[d] \in Delivery
  BY DEF Send, IInv, TypeOK
<1>2. dlv[d].pc \in Working
  BY <1>1 DEF Working
<1>3. PICK x \in Delivery :
        /\ dlv' = [dlv EXCEPT ![d] = x] /\ dlv'[d] = x
        /\ x.mail = dlv[d].mail /\ x.conv = dlv[d].conv
        /\ \/ /\ x.pc = "send" /\ x.bump = dlv[d].bump /\ x.res = dlv[d].res
              /\ x.answer = dlv[d].answer
           \/ x.pc = "done"
  <2>1. CASE End(d, "ok")
    BY <2>1, Returns
  <2>2. CASE ~End(d, "ok")
    <3>1. /\ dlv[d].tries + 1 < MaxRetries
          /\ dlv' = [dlv EXCEPT ![d].tries = @ + 1]
      BY <2>2 DEF Send, Retry
    <3> DEFINE y == [dlv[d] EXCEPT !.tries = @ + 1]
    <3>2. /\ y \in Delivery /\ y.pc = "send" /\ y.bump = dlv[d].bump /\ y.res = dlv[d].res
          /\ y.answer = dlv[d].answer /\ y.mail = dlv[d].mail /\ y.conv = dlv[d].conv
      BY <1>1, <3>1, EmailAssumption DEF Delivery
    <3>3. dlv' = [dlv EXCEPT ![d] = y] /\ dlv'[d] = y
      BY <3>1 DEF IInv, TypeOK
    <3> QED
      BY <3>2, <3>3
  <2> QED
    BY <2>1, <2>2
<1>4. sent' = sent \/ sent' = sent \cup {[id |-> d, mail |-> dlv[d].mail, n |-> dlv[d].tries]}
  BY DEF Send, Accept
<1>5. /\ \A s \in sent' \ sent : s.id = d /\ s.mail = dlv[d].mail
      /\ sent' \subseteq [id : Deliveries, mail : Mails, n : 0..(MaxRetries - 1)]
  <2>1. dlv[d].mail \in Mails /\ dlv[d].tries \in 0..(MaxRetries - 1)
    BY <1>1, <1>2, AtWork DEF Delivery, Written
  <2>2. sent \subseteq [id : Deliveries, mail : Mails, n : 0..(MaxRetries - 1)]
    BY DEF IInv, TypeOK
  <2>3. [id |-> d, mail |-> dlv[d].mail, n |-> dlv[d].tries]
           \in [id : Deliveries, mail : Mails, n : 0..(MaxRetries - 1)]
    BY <2>1
  <2> QED
    BY <1>4, <2>2, <2>3
<1>6. Grows(d)
  BY <1>1, GrowsSame
<1>7. Headers'
  <2>1. \A c \in Rows : dlv'[c].mail = dlv[c].mail
    BY <1>3 DEF Rows, IInv, TypeOK
  <2> QED
    BY <1>1, <2>1, HeadersSame DEF IInv
<1>8. Local(d)'
  <2>1. Local(d)
    BY DEF IInv, Locals
  <2>2. Known(d)'
    BY <1>1, <1>2, <1>3, <1>6, <2>1, AtWork DEF Local, Known, Early, Working, Grows
  <2>3. Stored(d)'
    BY <1>1, <1>3, <2>1 DEF Local, Stored, MessageOf
  <2>4. Recorded(d)'
    <3>1. PICK c, m : c = dlv[d].conv /\ m = dlv[d].mail
      OBVIOUS
    <3>2. IsHeader(c, m)'
      BY <1>1, <1>6, <2>1, <3>1 DEF Local, Recorded, Grows
    <3> QED
      BY <1>3, <3>1, <3>2 DEF Recorded, IsHeader
  <2> QED
    BY <2>2, <2>3, <2>4 DEF Local
<1>9. TypeOK /\ dlv[d].pc \in Processing
  BY <1>2 DEF IInv, Processing
<1> QED
  BY <1>1, <1>3, <1>5, <1>6, <1>7, <1>8, <1>9, OneSteps DEF TypeOK

-----------------------------------------------------------------------------
(* Customers, SES and the staff.                                           *)
LEMMA NobodySteps ==
    ASSUME IInv, TypeOK', NEW d, Grows(d), Rows' = Rows, Headers',
           UNCHANGED <<dlv, sent, past>>
    PROVE  IInv'
<1>1. Locals'
  BY Untouched DEF IInv, Locals
<1>2. Answers'
  <2>1. \A s, r : MessageOf(s, r)' = MessageOf(s, r)
    BY DEF MessageOf
  <2>2. \A c, m : IsHeader(c, m) => IsHeader(c, m)'
    BY DEF Grows
  <2>3. \A s \in sent : IsHeader(dlv[s.id].conv, s.mail) => IsHeader(dlv[s.id].conv, s.mail)'
    BY <2>2 DEF IsHeader
  <2> QED
    BY <2>1, <2>3 DEF Grows, IInv, Answers
<1>3. Recognised'
  BY DEF Grows, IInv, Recognised, Working
<1> QED
  BY <1>1, <1>2, <1>3 DEF IInv

LEMMA WriteIInv == ASSUME IInv, NEW m \in Mails, Write(m) PROVE IInv'
<1>1. mail[m] = NULL /\ UNCHANGED <<conv, messages, sent, dlv, moved, past>> /\ m \notin Written
  BY DEF Write, Written
<1>2. PICK x \in Mail : mail' = [mail EXCEPT ![m] = x]
  <2>1. CASE \E c \in Customers :
               mail' = [mail EXCEPT ![m] = [from |-> c, irt |-> NULL, ref |-> NULL]]
    BY <2>1 DEF Mail
  <2>2. CASE \E p \in Written \cup {s.id : s \in sent}, irt \in BOOLEAN :
               LET m0 == IF p \in Mails THEN p ELSE dlv[p].mail IN
               mail' = [mail EXCEPT ![m] =
                          [from |-> mail[m0].from,
                           irt |-> IF irt THEN p ELSE NULL, ref |-> Root(p)]]
    <3>1. PICK p \in Written \cup {s.id : s \in sent}, irt \in BOOLEAN :
               LET m0 == IF p \in Mails THEN p ELSE dlv[p].mail IN
               mail' = [mail EXCEPT ![m] =
                          [from |-> mail[m0].from,
                           irt |-> IF irt THEN p ELSE NULL, ref |-> Root(p)]]
      BY <2>2
    <3>2. PICK m0 : m0 = IF p \in Mails THEN p ELSE dlv[p].mail
      OBVIOUS
    <3>3. p \in MsgId /\ m0 \in Written
      <4>1. CASE p \in Written
        BY <3>2, <4>1 DEF Written, MsgId
      <4>2. CASE p \in {s.id : s \in sent}
        <5>1. PICK s \in sent : p = s.id
          BY <4>2
        <5>2. p \in Deliveries /\ p \notin Mails /\ dlv[p].mail \in Written
          BY <5>1, EmailAssumption DEF IInv, TypeOK, Answers
        <5> QED
          BY <3>2, <5>2 DEF MsgId
      <4> QED
        BY <4>1, <4>2
    <3>4. mail[m0] \in Mail /\ m0 \in MsgId
      BY <3>3 DEF Written, IInv, TypeOK, MsgId
    <3>5. Root(p) \in MsgId \cup {NULL}
      BY <3>2, <3>4 DEF Root, Mail
    <3>6. PICK i : i = IF irt THEN p ELSE NULL
      OBVIOUS
    <3>7. [from |-> mail[m0].from, irt |-> i, ref |-> Root(p)] \in Mail
      BY <3>3, <3>4, <3>5, <3>6 DEF Mail
    <3> QED
      BY <3>1, <3>2, <3>6, <3>7
  <2> QED
    BY <2>1, <2>2 DEF Write
<1>3. TypeOK'
  BY <1>1, <1>2 DEF IInv, TypeOK
<1>4. Written \subseteq Written'
  BY <1>1, <1>2 DEF Written, IInv, TypeOK
<1>5. Rows' = Rows /\ (\A c, n : IsHeader(c, n) => IsHeader(c, n)') /\ Grows(m)
  BY <1>1, <1>4 DEF Rows, IsHeader, Grows
<1>6. Headers'
  BY <1>1, HeadersSame DEF IInv
<1> QED
  BY <1>1, <1>3, <1>5, <1>6, NobodySteps

LEMMA StaffIInv == ASSUME IInv, NEW c \in Deliveries, Staff(c) PROVE IInv'
<1>1. /\ c \in Rows /\ conv[c] \in Row
      /\ UNCHANGED <<mail, messages, sent, dlv, moved, past>>
  BY DEF Staff, Rows, IInv, TypeOK
<1>2. PICK x \in Row : x.header = conv[c].header /\ conv' = [conv EXCEPT ![c] = x]
  <2>1. PICK ai \in BOOLEAN, st \in {"open", "pending", "closed"} :
          conv' = [conv EXCEPT ![c].ai = ai, ![c].status = st]
    <3>1. CASE conv' = [conv EXCEPT ![c].status = "closed", ![c].ai = FALSE]
      BY <3>1
    <3>2. CASE \E ai \in BOOLEAN :
                 conv' = [conv EXCEPT ![c].ai = ai,
                            ![c].status = IF ai THEN "open" ELSE "pending"]
      <4>1. PICK ai \in BOOLEAN :
                 conv' = [conv EXCEPT ![c].ai = ai,
                            ![c].status = IF ai THEN "open" ELSE "pending"]
        BY <3>2
      <4>2. PICK st \in {"open", "pending", "closed"} : st = IF ai THEN "open" ELSE "pending"
        OBVIOUS
      <4> QED
        BY <4>1, <4>2
    <3> QED
      BY <3>1, <3>2 DEF Staff
  <2> DEFINE x == [conv[c] EXCEPT !.ai = ai, !.status = st]
  <2>2. x \in Row /\ x.header = conv[c].header
    BY <1>1 DEF Row
  <2>3. conv' = [conv EXCEPT ![c] = x]
    BY <2>1 DEF IInv, TypeOK
  <2> QED
    BY <2>2, <2>3
<1>3. \A e \in Rows : dlv'[e].mail = dlv[e].mail
  BY <1>1
<1>4. /\ conv' \in [Deliveries -> Row \cup {NULL}] /\ Grows(c) /\ Headers'
  BY <1>1, <1>2, <1>3, KeepsHeader
<1>5. Rows' = Rows
  BY <1>1, <1>4 DEF Grows
<1>6. TypeOK'
  BY <1>1, <1>4 DEF IInv, TypeOK
<1> QED
  BY <1>1, <1>4, <1>5, <1>6, NobodySteps

LEMMA DeliverIInv == ASSUME IInv, NEW d \in Deliveries, Deliver(d) PROVE IInv'
<1>1. /\ dlv[d].pc = "idle" /\ UNCHANGED <<mail, conv, messages, sent, moved>>
      /\ dlv[d] \in Delivery
      /\ past' = [past EXCEPT ![d] = {e \in Deliveries : dlv[e].pc = "done"}]
  BY DEF Deliver, IInv, TypeOK
<1>2. ~dlv[d].bump /\ d \notin Rows /\ dlv[d].answer = NULL /\ dlv[d].res = NULL
  BY <1>1 DEF IInv, Locals, Local, Known, Early
<1>3. PICK m \in Written : dlv' = [dlv EXCEPT ![d].pc = "check", ![d].mail = m]
  BY DEF Deliver
<1>4. PICK x : x = [dlv[d] EXCEPT !.pc = "check", !.mail = m]
  OBVIOUS
<1>5. /\ x \in Delivery /\ x.pc = "check" /\ x.mail = m /\ x.bump = dlv[d].bump
      /\ x.answer = dlv[d].answer /\ x.res = dlv[d].res
  BY <1>1, <1>4 DEF Delivery, Written
<1>6. /\ dlv' = [dlv EXCEPT ![d] = x] /\ dlv'[d] = x
      /\ \A e \in Deliveries \ {d} : dlv'[e] = dlv[e]
  BY <1>3, <1>4 DEF IInv, TypeOK
<1>7. TypeOK'
  BY <1>1, <1>5, <1>6 DEF IInv, TypeOK
<1>8. Grows(d) /\ Rows' = Rows /\ Written' = Written
  BY <1>1, GrowsSame DEF Rows, Written
<1>9. Local(d)'
  <2>1. Known(d)'
    BY <1>2, <1>5, <1>6, <1>8 DEF Known, Early, Working
  <2>2. Stored(d)' /\ Recorded(d)'
    BY <1>2, <1>5, <1>6, NullAssumption DEF Stored, Recorded
  <2> QED
    BY <2>1, <2>2 DEF Local
<1>10. Locals'
  BY <1>6, <1>8, <1>9, Untouched DEF IInv, Locals
<1>11. Headers'
  <2>1. \A c \in Rows : dlv'[c].mail = dlv[c].mail
    BY <1>2, <1>6 DEF Rows
  <2> QED
    BY <1>1, <2>1, HeadersSame DEF IInv
<1>12. Answers'
  <2> SUFFICES ASSUME NEW s \in sent
               PROVE  /\ dlv'[s.id] = dlv[s.id]
    BY <1>1, <1>8 DEF IInv, Answers, IsHeader, MessageOf
  <2>1. s.id \in Deliveries /\ s.id # d
    BY <1>1 DEF IInv, TypeOK, Answers
  <2> QED
    BY <1>6, <2>1
<1>13. Recognised'
  <2> SUFFICES ASSUME NEW e \in Deliveries, NEW a \in past'[e]
               PROVE  /\ dlv'[a].pc = "done"
                      /\ /\ dlv'[a].res = "ok" /\ dlv'[a].mail = dlv'[e].mail
                         /\ dlv'[e].pc \in Processing \/ dlv'[e].res = "ok"
                         => dlv'[a].mail \in moved'
    BY DEF Recognised, Processing, Working
  <2>1. CASE e = d
    <3>1. a \in Deliveries /\ a # d /\ dlv[a].pc = "done"
      BY <1>1, <2>1 DEF IInv, TypeOK
    <3>2. dlv'[e].pc \notin Processing /\ dlv'[e].res # "ok"
      BY <1>2, <1>5, <1>6, <2>1, NullAssumption DEF Processing, Working
    <3> QED
      BY <1>6, <3>1, <3>2
  <2>2. CASE e # d
    <3>1. a \in past[e]
      BY <1>1, <2>2 DEF IInv, TypeOK
    <3>2. a \in Deliveries /\ dlv[a].pc = "done" /\ a # d
      BY <1>1, <3>1 DEF IInv, TypeOK, Recognised
    <3> QED
      BY <1>1, <1>6, <2>2, <3>1, <3>2 DEF IInv, Recognised, Processing
  <2> QED
    BY <2>1, <2>2
<1> QED
  BY <1>7, <1>10, <1>11, <1>12, <1>13 DEF IInv

LEMMA NextIInv == IInv /\ [Next]_vars => IInv'
<1> SUFFICES ASSUME IInv, [Next]_vars PROVE IInv'
  OBVIOUS
<1>1. CASE UNCHANGED vars
  <2>1. UNCHANGED <<mail, conv, messages, sent, dlv, moved, past>>
    BY <1>1 DEF vars
  <2>2. TypeOK' /\ Headers' /\ Rows' = Rows /\ Grows(0)
    BY <2>1, GrowsSame, HeadersSame DEF IInv, TypeOK, Rows
  <2> QED
    BY <2>1, <2>2, NobodySteps
<1>2. ASSUME NEW m \in Mails, Write(m) PROVE IInv'
  BY <1>2, WriteIInv
<1>3. ASSUME NEW d \in Deliveries, Deliver(d) \/ Step(d) \/ Staff(d) PROVE IInv'
  BY <1>3, DeliverIInv, StaffIInv, CheckIInv, FindIInv, InsertIInv, RecordCustomerIInv,
     RespondIInv, RecordReplyIInv, EscalateIInv, CommitHeaderIInv, SendIInv DEF Step
<1>4. ASSUME NEW d \in Deliveries, Crash(d) PROVE IInv'
  BY <1>4, ReturnsInside DEF Crash
<1> QED
  BY <1>1, <1>2, <1>3, <1>4 DEF Next

LEMMA AlwaysIInv == Spec => []IInv
BY InitIInv, NextIInv, PTL DEF Spec

(* Every reachable state of the channel is well typed, and a sending makes *)
(* at most MaxRetries attempts.                                            *)
THEOREM EmailTypeCorrect == Spec => []TypeOK
BY AlwaysIInv, PTL DEF IInv

(* A mail that was answered "ok" before this delivery began is processed   *)
(* again only if another mail of the thread has replaced it as the header, *)
(* however the other deliveries interleave.                                *)
THEOREM RedeliveryRecognised == Spec => []SequentialRedelivery
<1>1. ASSUME IInv, NEW d \in Deliveries, NEW e \in Deliveries,
             dlv[d].res = "ok", dlv[e].res = "ok", d \in past[e], dlv[d].mail = dlv[e].mail
      PROVE  dlv[d].mail \in moved
  BY <1>1 DEF IInv, Recognised
<1>2. IInv => SequentialRedelivery
  BY <1>1 DEF SequentialRedelivery
<1> QED
  BY <1>2, AlwaysIInv, PTL

(* Two deliveries of one mail never create two conversations for it, for   *)
(* any interleaving, unless the header of the first has moved on.          *)
THEOREM NoSecondConversation == Spec => []OneConversationPerMail
<1>1. IInv => OneConversationPerMail
  BY DEF IInv, Headers, IsHeader, OneConversationPerMail
<1> QED
  BY <1>1, AlwaysIInv, PTL

(* No answer is mailed before the mail it answers is recorded as the       *)
(* header and both messages of the turn are stored.                        *)
THEOREM MailedOnlyAfterCommit == Spec => []MailedAfterCommit
<1>1. IInv => MailedAfterCommit
  BY DEF IInv, Answers, IsHeader, MailedAfterCommit
<1> QED
  BY <1>1, AlwaysIInv, PTL
=============================================================================
