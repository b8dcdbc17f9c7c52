--------------------------- MODULE MessageSigning ---------------------------
(***************************************************************************)
(* The canonical encoding of a message and its verification (src/verify).  *)
(* A text is the sequence of its bytes.  What has a fixed width, a length  *)
(* prefix (u32) or the timestamp (u64), is one element: a length is        *)
(* written modulo LengthLimit, which is 2^32 in the code.                  *)
(*                                                                         *)
(* HMAC-SHA256 is ideal: the pair of the key and the signed bytes.         *)
(***************************************************************************)
EXTENDS Naturals, Sequences

CONSTANTS
    LengthLimit,    \* one more than the longest length a prefix can hold
    Key             \* the bytes of the verifier's key

\* HmacVerifier::new refuses an empty key (EmptyKey).
ASSUME KeyIsNotEmpty == Key # <<>>
ASSUME LengthLimitIsPositive == LengthLimit \in Nat \ {0}

Bytes == Seq(Nat)

Message == [channel_id : Bytes, message_id : Bytes, timestamp : Nat,
            author : Bytes, content : Bytes]

-----------------------------------------------------------------------------
\* Faulty LengthPrefixed, for ContextIsAuthentic.
WithoutPrefix(data) == data

\* Message::write_length_prefixed
LengthPrefixed(data) == <<Len(data) % LengthLimit>> \o data

CanonicalBytes(m) ==
    LengthPrefixed(m.channel_id) \o LengthPrefixed(m.message_id)
        \o <<m.timestamp>>
        \o LengthPrefixed(m.author) \o LengthPrefixed(m.content)

\* The length of each text is what its prefix says.
FitsPrefixes(m) ==
    \A text \in {m.channel_id, m.message_id, m.author, m.content} :
        Len(text) < LengthLimit

\* HmacVerifier::compute_mac, with any key
Mac(key, m) == <<key, CanonicalBytes(m)>>

\* HmacVerifier::sign
Sign(key, m) == [message |-> m, signature |-> Mac(key, m)]

\* HmacVerifier::verify: "Ok" stands for Ok(signed.message).
Verify(signed) ==
    IF signed.signature = <<>> THEN "MissingSignature"
    ELSE IF signed.signature = Mac(Key, signed.message) THEN "Ok"
    ELSE "InvalidSignature"
=============================================================================
