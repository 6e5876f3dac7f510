--------------------------- MODULE DecodableStream ---------------------------
(***************************************************************************)
(* What a viewer of the H.264 stream is promised, whatever is dropped,     *)
(* coalesced or reordered between the encoder and its decoder: it is       *)
(* configured for ever newer encoder sessions, it starts a reference chain *)
(* only at a keyframe, and from there it is handed each next reference     *)
(* frame or jumps forward to a newer keyframe.  It never decodes a frame   *)
(* whose reference it lacks, and never goes back.                          *)
(***************************************************************************)
EXTENDS Naturals

\* [session, ref, base]: the configured encoder session, the last reference
\* frame decoded and the keyframe its chain started at; 0 where there is none.
VARIABLE decoder

Init == decoder = [session |-> 0, ref |-> 0, base |-> 0]

\* A description (re)configures the decoder, which then awaits a keyframe.
Configure ==
    /\ decoder'.session > 0
    /\ decoder'.session >= decoder.session
    /\ decoder' = [session |-> decoder'.session, ref |-> 0, base |-> 0]

\* A keyframe needs nothing but the configuration, and is newer than the chain.
Resync ==
    /\ decoder.session > 0
    /\ decoder'.ref > decoder.ref
    /\ decoder' = [session |-> decoder.session,
                   ref     |-> decoder'.ref,
                   base    |-> decoder'.ref]

\* A delta is decodable only right after the frame it references.
Advance ==
    /\ decoder.ref > 0
    /\ decoder' = [session |-> decoder.session,
                   ref     |-> decoder.ref + 1,
                   base    |-> decoder.base]

Next == Configure \/ Resync \/ Advance

Spec == Init /\ [][Next]_decoder
=============================================================================
