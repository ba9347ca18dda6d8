---------------------------- MODULE MailMessage ----------------------------
(***************************************************************************)
(* mailer/message.go: build makes the bytes of a mail out of a Message: a  *)
(* header and a body of one part, of two alternatives, or of either with   *)
(* attachments behind it.  Texts and addresses are opaque; an encoding     *)
(* puts its name on what it encodes and is undone by that name only.       *)
(***************************************************************************)
EXTENDS Naturals, Sequences, FiniteSets

CONSTANTS
    Messages,   \* the messages that pass validate
    LineLength  \* 76 in the code

(* A slice of Go: the elements it has, in their order. *)
IsList(s) == s \in Seq({s[i] : i \in DOMAIN s})

MailMessageAssumption ==
    /\ LineLength \in Nat \ {0}
    /\ \A m \in Messages :
          /\ IsList(m.to) /\ IsList(m.cc) /\ IsList(m.bcc) /\ IsList(m.attachments)
          /\ \A i \in 1..Len(m.attachments) : m.attachments[i].size \in Nat
          /\ m.from # ""
          /\ m.to # <<>>
          /\ m.text # "" \/ m.html # ""

VARIABLES
    message,   \* the Message
    built,     \* what build returned: "none", "nil" or "error"
    mail,      \* the mail it returned: its header and its body
    envelope   \* the recipients smtpSend will name

vars == <<message, built, mail, envelope>>

NoMail == [header |-> <<>>, body |-> <<>>]

Init ==
    /\ message \in Messages
    /\ built = "none"
    /\ mail = NoMail
    /\ envelope = <<>>

----------------------------------------------------------------------------
(* recipients *)
Recipients(m) == m.to \o m.cc \o m.bcc

Encode(encoding, data) == <<encoding, data>>

(* writeQuotedPrintable under a header that says so. *)
WritePart(type, body) ==
    [type |-> type, enc |-> "quoted-printable",
     data |-> Encode("quoted-printable", body)]

Plain(m) == WritePart("text/plain", m.text)
Html(m) == WritePart("text/html", m.html)

Multipart(type, parts) == [type |-> type, parts |-> parts]

HasBoth(m) == m.html # "" /\ m.text # ""

(* Variant: the alternatives the other way round. *)
HtmlFirst(m) == Multipart("multipart/alternative", <<Html(m), Plain(m)>>)

(* writeAlternative: plain text first, the richer form last. *)
WriteAlternative(m) == Multipart("multipart/alternative", <<Plain(m), Html(m)>>)

(* writeBodyPart, and build without attachments. *)
WriteBodyPart(m) ==
    IF HasBoth(m) THEN WriteAlternative(m)
    ELSE IF m.html # "" THEN Html(m) ELSE Plain(m)

(* The lines of base64 a file of size bytes makes: the characters of each, *)
(* LineLength at a time.                                                   *)
Lines(size) ==
    LET encoded == 4 * ((size + 2) \div 3)
    IN  [k \in 1..((encoded + LineLength - 1) \div LineLength) |->
            {c \in 1..encoded : (k - 1) * LineLength < c /\ c <= k * LineLength}]

WriteAttachment(a) ==
    [type |-> IF a.type = "" THEN "application/octet-stream" ELSE a.type,
     name |-> a.name, enc |-> "base64", data |-> Encode("base64", a.data),
     lines |-> Lines(a.size)]

HasAttachments(m) == m.attachments # <<>>

Body(m) ==
    IF HasAttachments(m)
    THEN Multipart("multipart/mixed", <<WriteBodyPart(m)>> \o
            [i \in 1..Len(m.attachments) |-> WriteAttachment(m.attachments[i])])
    ELSE WriteBodyPart(m)

(* encodeSubject *)
EncodeSubject(s) == IF s.ascii THEN <<s.text>> ELSE Encode("Q", s.text)

(* The fields build sets before it looks at Headers.                       *)
OwnFields(m) ==
    [n \in {"From", "To", "Subject", "Date", "Mime-Version"}
           \cup {f \in {"Cc"} : m.cc # <<>>}
           \cup {f \in {"Reply-To"} : m.replyTo # ""} |->
        CASE n = "From"     -> <<m.from>>
          [] n = "To"       -> m.to
          [] n = "Cc"       -> m.cc
          [] n = "Reply-To" -> <<m.replyTo>>
          [] n = "Subject"  -> EncodeSubject(m.subject)
          [] OTHER          -> <<n>>]

(* A key of Headers is a name in one of its spellings; MIMEHeader.Set      *)
(* knows only the name.                                                    *)
Named(m) == {k[1] : k \in DOMAIN m.headers}

(* The spelling of each name that range over the map comes to last.        *)
LastSpelled(m) ==
    {last \in [Named(m) -> DOMAIN m.headers] : \A n \in Named(m) : last[n][1] = n}

(* The header: the fields of build, overwritten by Headers, and then the   *)
(* type of the body; only a body of one part also sets its encoding.       *)
Header(m, last) ==
    LET body == Body(m)
        own == OwnFields(m)
        set == {"Content-Type"}
               \cup {f \in {"Content-Transfer-Encoding"} : "enc" \in DOMAIN body}
    IN  [n \in DOMAIN own \cup Named(m) \cup set |->
            IF n = "Content-Type" THEN <<body.type>>
            ELSE IF n \in set THEN <<body.enc>>
            ELSE IF n \in Named(m) THEN <<m.headers[last[n]]>>
            ELSE own[n]]

Build ==
    /\ built = "none"
    /\ built' = "nil"
    /\ \E last \in LastSpelled(message) :
          mail' = [header |-> Header(message, last), body |-> Body(message)]
    /\ envelope' = Recipients(message)
    /\ UNCHANGED message

(* newBoundary finds no random bytes for the inner multipart. *)
BuildFails ==
    /\ built = "none"
    /\ HasAttachments(message)
    /\ HasBoth(message)
    /\ built' = "error"
    /\ UNCHANGED <<message, mail, envelope>>

Next ==
    \/ Build
    \/ BuildFails
    \/ built # "none" /\ UNCHANGED vars

Spec == Init /\ [][Next]_vars

----------------------------------------------------------------------------
(* Properties: what a mail client makes of the mail.                       *)

(* A client undoes the encoding the part names. *)
Decode(part) == IF part.data[1] = part.enc THEN part.data[2] ELSE "garbled"

(* A client looks at the header for the kind of the body; in a mixed body  *)
(* the first part is the text and the others are attachments.              *)
IsMixed == mail.header["Content-Type"] = <<"multipart/mixed">>
TextOf == IF IsMixed THEN mail.body.parts[1] ELSE mail.body
FilesOf == IF IsMixed THEN Tail(mail.body.parts) ELSE <<>>

(* A client shows the last alternative it can show. *)
Shown(types) ==
    LET parts == IF TextOf.type = "multipart/alternative" THEN TextOf.parts ELSE <<TextOf>>
        fit == {i \in 1..Len(parts) : parts[i].type \in types}
    IN  IF fit = {} THEN ""
        ELSE Decode(parts[CHOOSE i \in fit : \A j \in fit : j <= i])

BodyReads ==
    /\ Shown({"text/plain", "text/html"}) =
          IF message.html # "" THEN message.html ELSE message.text
    /\ Shown({"text/plain"}) = message.text

(* The files are there in their order, every character on one line and no  *)
(* line empty or too long.                                                 *)
FilesRead ==
    /\ Len(FilesOf) = Len(message.attachments)
    /\ \A i \in 1..Len(FilesOf) :
          LET file == FilesOf[i]
              given == message.attachments[i]
          IN  /\ file.name = given.name
              /\ Decode(file) = given.data
              /\ \A c \in 1..(4 * ((given.size + 2) \div 3)) :
                    Cardinality({k \in DOMAIN file.lines : c \in file.lines[k]}) = 1
              /\ \A k \in DOMAIN file.lines :
                    Cardinality(file.lines[k]) \in 1..LineLength

(* The header tells the kind of the body, whatever Headers says of it; on  *)
(* a multipart body only Headers can put an encoding.                      *)
LabelsFit ==
    /\ mail.header["Content-Type"] = <<mail.body.type>>
    /\ IF "enc" \in DOMAIN mail.body
       THEN mail.header["Content-Transfer-Encoding"] = <<mail.body.enc>>
       ELSE "Content-Transfer-Encoding" \in DOMAIN mail.header =>
                "Content-Transfer-Encoding" \in Named(message)

(* The people a list names. *)
PeopleIn(s) == {s[i] : i \in 1..Len(s)}

(* Everybody is sent the mail, and a recipient in BCC alone is named in no *)
(* field that names people, unless Headers sets it.                        *)
BccHidden ==
    /\ PeopleIn(envelope) =
          PeopleIn(message.to) \cup PeopleIn(message.cc) \cup PeopleIn(message.bcc)
    /\ \A n \in {"From", "Sender", "Reply-To", "To", "Cc", "Bcc"}
                \cap (DOMAIN mail.header \ Named(message)) :
          PeopleIn(mail.header[n]) \cap PeopleIn(message.bcc) \subseteq
              {message.from, message.replyTo}
                  \cup PeopleIn(message.to) \cup PeopleIn(message.cc)

(* A mail reads as the message it was built from: whichever of its parts   *)
(* there are, in the form the client can show, with every file whole and   *)
(* no hidden recipient told.                                               *)
ReadsAsWritten ==
    built = "nil" => BodyReads /\ FilesRead /\ LabelsFit /\ BccHidden
=============================================================================
