------------------------------ MODULE MC_WsChat ------------------------------
(* The chat lab with a handful of sessions and rooms, and its JSON codec.  *)
EXTENDS WsChat, JsonCodec

\* Once a session has been sent a frame, every frame make_payload can
\* build parses back with parse_json_object to exactly its fields
\* (JsonCodecAgrees: escape_json against parse_string's unescaping, and a
\* field named "type" overriding the type).  JsonCodecAgrees is a
\* constant formula, so TLC evaluates it once.
JsonRoundTrip ==
    (\E s \in Session : posted[s] # << >>) => JsonCodecAgrees

=============================================================================
