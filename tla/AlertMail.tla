------------------------------ MODULE AlertMail ------------------------------
(***************************************************************************)
(* The mail of an alert: PDK_Alert and PDK_FrameAndSendMail of PDKAlert.c. *)
(* The loop runs over the users until it meets the one that the            *)
(* destination names; in every pass it fetches the SMTP settings again,    *)
(* the primary server's or else the secondary's, and the answer to "no     *)
(* connection" depends on a flag that an earlier pass may have set.        *)
(***************************************************************************)
EXTENDS Integers, Sequences

CONSTANTS
    MaxUsers,          \* IpmiConfig.MaxUsers
    UserId             \* the user ids

ASSUME AlertAssumption == MaxUsers \in Nat

VARIABLES
    userTable,         \* the users: id, status, and whether they have an address
    destination,       \* the user id that the destination's settings name
    selectable,        \* SetSelector is not beyond MAX_EMAIL_DESTINATIONS
    mailPc, user,      \* where the call is, and its loop index from 1
    smtpServerFlag,    \* 1 since a pass had to take the secondary server
    server,            \* whose settings are in the mail
    tried,             \* history: the servers that were sent a mail, in order
    mailAnswer         \* what the call answered

mailVars == <<userTable, destination, selectable, mailPc, user, smtpServerFlag,
              server, tried, mailAnswer>>

User == [Id : UserId, Enabled : BOOLEAN, Address : BOOLEAN]
Answers == {"0", "USER_DISABLED", "EMAILID_NOT_CONFIGURED", "USER_NOT_FOUND",
            "EMAIL_NO_CONNECT", "EMAIL_SENT", "EMAIL_FAILED"}

MailInit ==
    /\ userTable \in [1 .. MaxUsers -> User]
    /\ destination \in UserId
    /\ selectable \in BOOLEAN
    /\ mailPc = "idle" /\ user = 1 /\ smtpServerFlag = 0
    /\ server = "none" /\ tried = <<>> /\ mailAnswer = "0"

PDK_Alert ==
    /\ mailPc = "idle"
    /\ mailPc' = "fetch" /\ user' = 1 /\ smtpServerFlag' = 0
    /\ server' = "none" /\ tried' = <<>> /\ mailAnswer' = "0"
    /\ UNCHANGED <<userTable, destination, selectable>>

AnswerWith(code) ==
    /\ mailAnswer' = code
    /\ mailPc' = "answered"

-----------------------------------------------------------------------------
(* A pass.  The settings come from a library that may fail at each call.   *)

FetchPrimary ==
    /\ mailPc = "fetch" /\ user <= MaxUsers
    /\ server' = "primary"
    /\ mailPc' = "compare"
    /\ UNCHANGED <<userTable, destination, selectable, user, smtpServerFlag, tried,
                   mailAnswer>>

FetchSecondary ==
    /\ mailPc = "fetch" /\ user <= MaxUsers
    /\ smtpServerFlag' = 1
    /\ server' = "secondary"
    /\ mailPc' = "compare"
    /\ UNCHANGED <<userTable, destination, selectable, user, tried, mailAnswer>>

\* No settings at all: the answer is 0, as for a mail that was sent.
FetchNothing ==
    /\ mailPc = "fetch" /\ user <= MaxUsers
    /\ smtpServerFlag' = 1
    /\ AnswerWith("0")
    /\ UNCHANGED <<userTable, destination, selectable, user, server, tried>>

NextUser ==
    /\ mailPc = "compare"
    /\ userTable[user].Id # destination
    /\ user' = user + 1
    /\ mailPc' = "fetch"
    /\ UNCHANGED <<userTable, destination, selectable, smtpServerFlag, server,
                   tried, mailAnswer>>

NoSuchUser ==
    /\ mailPc = "fetch" /\ user > MaxUsers
    /\ AnswerWith("USER_NOT_FOUND")
    /\ UNCHANGED <<userTable, destination, selectable, user, smtpServerFlag, server,
                   tried>>

\* The checks of the user, in their order; the name of the interface may be
\* missing or too long, which answers 0 as well.
RefuseUser ==
    LET u == userTable[user]
    IN  /\ mailPc = "compare"
        /\ u.Id = destination
        /\ \/ ~u.Enabled /\ AnswerWith("USER_DISABLED")
           \/ u.Enabled /\ ~selectable /\ AnswerWith("0")
           \/ u.Enabled /\ selectable /\ ~u.Address /\ AnswerWith("EMAILID_NOT_CONFIGURED")
           \/ u.Enabled /\ selectable /\ u.Address /\ AnswerWith("0")
        /\ UNCHANGED <<userTable, destination, selectable, user, smtpServerFlag,
                       server, tried>>

FrameMail ==
    LET u == userTable[user]
    IN  /\ mailPc = "compare"
        /\ u.Id = destination /\ u.Enabled /\ selectable /\ u.Address
        /\ mailPc' = "send"
        /\ UNCHANGED <<userTable, destination, selectable, user, smtpServerFlag,
                       server, tried, mailAnswer>>

-----------------------------------------------------------------------------
(* smtp_mail, and the second try.                                          *)

\* The connection was made: the mail was sent or refused.
Deliver ==
    /\ mailPc \in {"send", "resend"}
    /\ tried' = Append(tried, server)
    /\ \E code \in {"EMAIL_SENT", "EMAIL_FAILED"} : AnswerWith(code)
    /\ UNCHANGED <<userTable, destination, selectable, user, smtpServerFlag, server>>

\* Mutation: the second try is made whatever the flag.
MayAlwaysTrySecondary == mailPc = "send"

\* Mutation: the second try is never made.
NeverTrySecondary == FALSE

\* The second try is made only if the flag is clear.
MayTrySecondary == mailPc = "send" /\ smtpServerFlag = 0

\* No connection: the secondary server is next, if its settings can be had.
\* They may also be empty, and then "no connection" remains the answer.
NoConnection ==
    /\ mailPc \in {"send", "resend"}
    /\ tried' = Append(tried, server)
    /\ IF MayTrySecondary
       THEN \/ server' = "secondary" /\ mailPc' = "resend" /\ UNCHANGED mailAnswer
            \/ server' = "empty" /\ AnswerWith("EMAIL_NO_CONNECT")
            \/ server' = "none" /\ AnswerWith("0")
       ELSE AnswerWith("EMAIL_NO_CONNECT") /\ UNCHANGED server
    /\ UNCHANGED <<userTable, destination, selectable, user, smtpServerFlag>>

\* The stack has the answer, and the settings may change before the next alert.
NextAlert ==
    /\ mailPc = "answered"
    /\ mailPc' = "idle"
    /\ destination' \in UserId
    /\ \/ UNCHANGED userTable
       \/ \E i \in 1 .. MaxUsers, u \in User : userTable' = [userTable EXCEPT ![i] = u]
    /\ user' = 1 /\ smtpServerFlag' = 0 /\ server' = "none" /\ tried' = <<>>
    /\ mailAnswer' = "0"
    /\ UNCHANGED selectable

MailNext ==
    \/ PDK_Alert
    \/ FetchPrimary \/ FetchSecondary \/ FetchNothing
    \/ NextUser \/ NoSuchUser \/ RefuseUser \/ FrameMail
    \/ Deliver \/ NoConnection
    \/ NextAlert
MailSpec == MailInit /\ [][MailNext]_mailVars

-----------------------------------------------------------------------------
(* Properties                                                              *)

\* At most two mails for an alert.
MailTypeOK ==
    /\ userTable \in [1 .. MaxUsers -> User]
    /\ destination \in UserId /\ selectable \in BOOLEAN
    /\ mailPc \in {"idle", "fetch", "compare", "send", "resend", "answered"}
    /\ user \in 1 .. MaxUsers + 1
    /\ smtpServerFlag \in {0, 1}
    /\ server \in {"none", "primary", "secondary", "empty"}
    /\ tried \in Seq({"primary", "secondary"}) /\ Len(tried) <= 2
    /\ mailAnswer \in Answers

\* A mail goes to the first user in the table that the destination names, and
\* only if that user is enabled and has an address; a server is not tried twice,
\* and the secondary never before the primary.
MailGoesToItsUser ==
    tried # <<>> =>
        /\ userTable[user].Id = destination
        /\ userTable[user].Enabled /\ userTable[user].Address
        /\ \A i \in 1 .. user - 1 : userTable[i].Id # destination
        /\ tried \in {<<"primary">>, <<"secondary">>, <<"primary", "secondary">>}

\* "No connection" is answered only when the secondary server was tried, has no
\* address, or - whatever server is in the mail now - an earlier pass of the loop
\* could not have the primary's settings.
NoConnectionIsExplained ==
    mailAnswer = "EMAIL_NO_CONNECT" =>
        \/ tried[Len(tried)] = "secondary"
        \/ server = "empty"
        \/ smtpServerFlag = 1 /\ user > 1
=============================================================================
