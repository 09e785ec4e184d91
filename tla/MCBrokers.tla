----------------------------- MODULE MCBrokers -----------------------------
(* Brokers on messages of every shape; the proxy does not care what is an  *)
(* answer to what.                                                         *)
EXTENDS Brokers, TLC

Blob == KeyBlob(<<7>>, <<3, 1>>)
Bare == KeyBlob(<<7, 7>>, <<>>)

MCExchanges ==
    {(* A signature over an ssh login, and the signature. *)
     Exchange(Wire(EncodedSign(Blob, Login(<<1, 2>>, <<5>>, <<6>>), 2),
                   Message("SIGN_REQUEST", <<Blob>>, << <<5>>, <<6>> >>, 2)),
              Wire(EncodedResponse(<<8, 8>>), Message("SIGN_RESPONSE", <<>>, Nobody, 2))),
     (* One over anything else, with a byte to spare, and a list of keys. *)
     Exchange(Wire(EncodedSign(Blob, Str(<<1>>) \o <<51>>, 0) \o <<99>>,
                   Message("SIGN_REQUEST", <<Blob>>, Nobody, 0)),
              Wire(EncodedIdentities(<<Blob, Bare>>),
                   Message("IDENTITIES_ANSWER", <<Blob, Bare>>, Nobody, 2))),
     (* A session's bind, and a count of keys that are not there. *)
     Exchange(Wire(EncodedBind(Blob, <<1>>, <<2, 3>>, 1), Message("SESSION_BIND", <<Blob>>, Nobody, 1)),
              Wire(<<IDENTITIES_ANSWER, 1>>,
                   Message("MALFORMED", <<>>, Nobody, IDENTITIES_ANSWER)))}
=============================================================================
