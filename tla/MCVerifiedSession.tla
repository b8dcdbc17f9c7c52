------------------------- MODULE MCVerifiedSession --------------------------
(* Instances of VerifiedSession for TLC.                                   *)
EXTENDS VerifiedSession

CONSTANTS t1, c1, c2

OneTenant == {t1}
TwoCalls == {c1, c2}
TheKey == <<7>>

\* A message with this author and content.
Said(author, content) ==
    [channel_id |-> <<0>>, message_id |-> <<1>>, timestamp |-> 5,
     author |-> author, content |-> content]

\* One message was signed; the others share its bytes, cut elsewhere.
TheSigned == {Said(<<1>>, <<0>>)}
TheMessages == TheSigned \cup {Said(<<>>, <<1, 0>>), Said(<<1, 0>>, <<>>)}

\* Any of them with no signature, the signed one's, or one under another key.
Signatures == {<<>>} \cup {Sign(key, m).signature : key \in {TheKey, <<8>>}, m \in TheSigned}
TheWire == [message : TheMessages, signature : Signatures]
=============================================================================
