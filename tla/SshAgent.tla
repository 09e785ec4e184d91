------------------------------ MODULE SshAgent ------------------------------
(***************************************************************************)
(* What src/src/ssh_agent.rs reads off the wire between ssh and its agent: *)
(* a frame is a type and a body, the body a sequence of fields, and the    *)
(* log names each message by the fields it carries.  Nothing it reads is   *)
(* refused: a body that does not fit its type is named as malformed.       *)
(*                                                                         *)
(* A frame is a sequence of cells.  A byte is a cell, a u32 is a cell, and *)
(* a string is its length and that many cells.                             *)
(***************************************************************************)
EXTENDS Naturals, Sequences

FAILURE == 5
SUCCESS == 6
REQUEST_IDENTITIES == 11
IDENTITIES_ANSWER == 12
SIGN_REQUEST == 13
SIGN_RESPONSE == 14
EXTENSION == 27
EXTENSION_FAILURE == 28
USERAUTH_REQUEST == 50

(* The extension that ties an agent to a session, by its name in cells.    *)
SessionBind == <<9>>

-----------------------------------------------------------------------------
(* Cursor: what a read takes, and what it leaves.  A short frame ends the  *)
(* parse.                                                                  *)

Short == [ok |-> FALSE, val |-> <<>>, rest |-> <<>>]
Took(val, rest) == [ok |-> TRUE, val |-> val, rest |-> rest]

(* byte and u32.                                                           *)
Cell(s) == IF s = <<>> THEN Short ELSE Took(Head(s), Tail(s))
Bytes(s) ==
    IF s = <<>> THEN Short
    ELSE IF Head(s) >= Len(s) THEN Short
    ELSE Took(SubSeq(s, 2, Head(s) + 1), SubSeq(s, Head(s) + 2, Len(s)))

(* One string after another.                                               *)
Two(s) ==
    LET a == Bytes(s)  b == Bytes(a.rest)
    IN IF a.ok /\ b.ok THEN Took(<<a.val, b.val>>, b.rest) ELSE Short
Three(s) ==
    LET a == Two(s)  b == Bytes(a.rest)
    IN IF a.ok /\ b.ok THEN Took(<<a.val[1], a.val[2], b.val>>, b.rest) ELSE Short

(* The first n strings of s, all or nothing: each begins where the last    *)
(* one ended, and none may end after s does.                               *)
Strings(s, n) ==
    LET begin[k \in Nat] ==
            IF k = 0 THEN 1
            ELSE LET at == begin[k - 1] IN IF at > Len(s) THEN Len(s) + 2 ELSE at + s[at] + 1
    IN IF begin[n] > Len(s) + 1 THEN Short
       ELSE Took([k \in 1 .. n |-> SubSeq(s, begin[k - 1] + 1, begin[k] - 1)],
                 SubSeq(s, begin[n], Len(s)))

-----------------------------------------------------------------------------
(* Messages, as much of them as the log names.                             *)

Nobody == <<>>
Message(kind, keys, text, number) ==
    [kind |-> kind, keys |-> keys, text |-> text, number |-> number]
Plain(kind) == Message(kind, <<>>, Nobody, 0)
Malformed(frame) ==
    Message("MALFORMED", <<>>, Nobody, IF frame = <<>> THEN 0 ELSE frame[1])

(* key: a blob that starts with its algorithm, known by all of it.         *)
IsKey(blob) == Bytes(blob).ok

(* Slip: the user is read before the session id.                           *)
UserauthAtOnce(data) ==
    LET it == Cell(data)
        names == Two(it.rest)
    IN IF it.ok /\ it.val = USERAUTH_REQUEST /\ names.ok THEN names.val ELSE Nobody
(* userauth: the user and the service of the request a signature covers.   *)
Userauth(data) ==
    LET id == Bytes(data)
        it == Cell(id.rest)
        names == Two(it.rest)
    IN IF id.ok /\ it.ok /\ it.val = USERAUTH_REQUEST /\ names.ok
       THEN names.val ELSE Nobody

(* A count, and that many keys, each with its comment.                     *)
Identities(frame, body) ==
    LET n == Cell(body)
        read == Strings(n.rest, 2 * n.val)
        keys == [i \in 1 .. n.val |-> read.val[2 * i - 1]]
    IN IF n.ok /\ read.ok /\ \A i \in 1 .. n.val : IsKey(keys[i])
       THEN Message("IDENTITIES_ANSWER", keys, Nobody, n.val) ELSE Malformed(frame)

SignRequest(frame, body) ==
    LET read == Two(body)
        flags == Cell(read.rest)
    IN IF read.ok /\ flags.ok /\ IsKey(read.val[1])
       THEN Message("SIGN_REQUEST", <<read.val[1]>>, Userauth(read.val[2]), flags.val)
       ELSE Malformed(frame)

SignResponse(frame, body) ==
    LET signature == Bytes(body) IN
    IF signature.ok THEN Message("SIGN_RESPONSE", <<>>, Nobody, Len(signature.val))
    ELSE Malformed(frame)

Extension(frame, body) ==
    LET name == Bytes(body)
        read == Three(name.rest)
        forwarding == Cell(read.rest)
    IN IF ~ name.ok THEN Malformed(frame)
       ELSE IF name.val # SessionBind THEN Message("EXTENSION", <<>>, name.val, 0)
       ELSE IF read.ok /\ forwarding.ok /\ IsKey(read.val[1])
       THEN Message("SESSION_BIND", <<read.val[1]>>, Nobody, forwarding.val)
       ELSE Malformed(frame)

Describe(frame) ==
    IF frame = <<>> THEN Malformed(frame)
    ELSE LET kind == frame[1]  body == Tail(frame) IN
         CASE kind = FAILURE -> Plain("FAILURE")
           [] kind = SUCCESS -> Plain("SUCCESS")
           [] kind = EXTENSION_FAILURE -> Plain("EXTENSION_FAILURE")
           [] kind = REQUEST_IDENTITIES -> Plain("REQUEST_IDENTITIES")
           [] kind = IDENTITIES_ANSWER -> Identities(frame, body)
           [] kind = SIGN_REQUEST -> SignRequest(frame, body)
           [] kind = SIGN_RESPONSE -> SignResponse(frame, body)
           [] kind = EXTENSION -> Extension(frame, body)
           [] OTHER -> Message("OTHER", <<>>, Nobody, kind)

-----------------------------------------------------------------------------
(* The wire form the protocol gives each message: the reference the        *)
(* reading above is checked against.                                       *)

Str(cells) == <<Len(cells)>> \o cells
KeyBlob(algorithm, material) == Str(algorithm) \o material

(* What a signature over an ssh login, or over something else, covers.     *)
Login(session, user, service) ==
    Str(session) \o <<USERAUTH_REQUEST>> \o Str(user) \o Str(service)

EncodedIdentities(blobs) ==
    LET all[k \in 0 .. Len(blobs)] ==
            IF k = 0 THEN <<>> ELSE all[k - 1] \o Str(blobs[k]) \o Str(<<4>>)
    IN <<IDENTITIES_ANSWER, Len(blobs)>> \o all[Len(blobs)]
EncodedSign(blob, data, flags) ==
    <<SIGN_REQUEST>> \o Str(blob) \o Str(data) \o <<flags>>
EncodedResponse(signature) == <<SIGN_RESPONSE>> \o Str(signature)
EncodedBind(blob, session, signature, forwarding) ==
    <<EXTENSION>> \o Str(SessionBind) \o Str(blob) \o Str(session) \o Str(signature)
        \o <<forwarding>>
=============================================================================
