-------------------------- MODULE AvccViewerProofs --------------------------
(* The browser's side of the stream, for any faults, connections, frames and *)
(* recoveries: what is painted was handled after the last reconnect(), and   *)
(* video is painted in the order it was encoded.                             *)
EXTENDS AvccViewer, SequenceTheorems, TLAPS

Image == [connection : Nat, n : Nat]
Item == [live : BOOLEAN, connection : Nat \ {0}, n : Nat \ {0}]

\* A view without the bounds, which the outcomes of a function may exceed.
View == [stopped : BOOLEAN, painted : BOOLEAN, awaiting : BOOLEAN,
         configured : BOOLEAN, config : Nat, connection : Nat \ {0},
         reconnecting : BOOLEAN, timer : {"none", "retry", "reconnect"},
         recoveries : Nat, buffer : Nat,
         decoding : Seq(Item), presenter : PresenterOf(Image),
         canvas : Image, givenUp : Nat]

Formed(v) ==
    /\ v \in View
    /\ v.reconnecting <=> v.timer = "reconnect"
    /\ Len(v.presenter.waiting) <= MaxWaiting
    /\ v.config <= v.connection

\* What may still be painted was handled after the last reconnect().
Paintable(v) ==
    /\ v.givenUp < v.connection
    /\ v.canvas.connection <= v.connection
    /\ \A i \in DOMAIN v.decoding :
         /\ v.decoding[i].connection <= v.connection
         /\ v.decoding[i].live => v.decoding[i].connection > v.givenUp
    /\ \A i \in DOMAIN v.presenter.waiting :
         /\ v.presenter.waiting[i].connection <= v.connection
         /\ v.presenter.waiting[i].connection > v.givenUp

\* The canvas, what waits for a tick, what is inside the decoders, and what was encoded:
\* in this order.
Ordered(v, top) ==
    /\ v.canvas.n <= top
    /\ \A i \in DOMAIN v.decoding : v.canvas.n <= v.decoding[i].n /\ v.decoding[i].n <= top
    /\ \A i \in DOMAIN v.presenter.waiting :
         v.canvas.n <= v.presenter.waiting[i].n /\ v.presenter.waiting[i].n <= top
    /\ \A i, j \in DOMAIN v.decoding : i < j => v.decoding[i].n <= v.decoding[j].n
    /\ \A i, j \in DOMAIN v.presenter.waiting :
         i < j => v.presenter.waiting[i].n <= v.presenter.waiting[j].n
    /\ \A i \in DOMAIN v.presenter.waiting, j \in DOMAIN v.decoding :
         v.presenter.waiting[i].n <= v.decoding[j].n

Good(v, top) == Formed(v) /\ Paintable(v) /\ Ordered(v, top)

-----------------------------------------------------------------------------
(* The functions of the effect, from good views to good views.              *)

\* What a function leaves alone: the canvas, and the connection unless it is given up.
Keeps(v, w) ==
    /\ w.canvas = v.canvas /\ w.stopped = v.stopped /\ w.buffer \in {v.buffer, 0}
    /\ \/ w.connection = v.connection /\ w.timer = v.timer
       \/ w.timer = "reconnect"

LEMMA ItemsOf ==
    ASSUME NEW s \in Seq(Item)
    PROVE  \A i \in DOMAIN s : /\ s[i] \in Item /\ s[i].live \in BOOLEAN
                              /\ s[i].connection \in Nat \ {0} /\ s[i].n \in Nat \ {0}
<1>1. \A i \in DOMAIN s : s[i] \in Item
    OBVIOUS
<1> QED
    BY <1>1 DEF Item

LEMMA ImagesOf ==
    ASSUME NEW s \in Seq(Image)
    PROVE  \A i \in DOMAIN s : s[i] \in Image /\ s[i].connection \in Nat /\ s[i].n \in Nat
<1>1. \A i \in DOMAIN s : s[i] \in Image
    OBVIOUS
<1> QED
    BY <1>1 DEF Image

LEMMA ViewFields ==
    ASSUME NEW v \in View
    PROVE  /\ v.connection \in Nat \ {0} /\ v.recoveries \in Nat /\ v.config \in Nat /\ v.buffer \in Nat
           /\ v.givenUp \in Nat /\ v.canvas \in Image /\ v.canvas.connection \in Nat /\ v.canvas.n \in Nat
           /\ v.decoding \in Seq(Item) /\ v.presenter \in PresenterOf(Image)
           /\ v.presenter.waiting \in Seq(Image)
           /\ v.stopped \in BOOLEAN /\ v.reconnecting \in BOOLEAN
           /\ v.presenter.drawn \in BOOLEAN /\ v.presenter.stopped \in BOOLEAN
<1>1. v.canvas \in Image /\ v.presenter \in PresenterOf(Image)
    BY DEF View
<1>2. v.presenter \in [waiting : Seq(Image), drawn : BOOLEAN, scheduled : BOOLEAN, stopped : BOOLEAN]
    BY <1>1 DEF PresenterOf
<1> QED
    BY <1>1, <1>2 DEF View, Image

LEMMA DisownedItems ==
    ASSUME NEW s \in Seq(Item)
    PROVE  /\ Disowned(s) \in Seq(Item) /\ DOMAIN Disowned(s) = DOMAIN s
           /\ \A i \in DOMAIN s : /\ ~Disowned(s)[i].live /\ Disowned(s)[i].n = s[i].n
                                  /\ Disowned(s)[i].connection = s[i].connection
<1>1. \A i \in DOMAIN s : s[i] \in Item
    OBVIOUS
<1>2. \A x \in Item : /\ [x EXCEPT !.live = FALSE] \in Item /\ ~[x EXCEPT !.live = FALSE].live
                      /\ [x EXCEPT !.live = FALSE].n = x.n
                      /\ [x EXCEPT !.live = FALSE].connection = x.connection
    BY DEF Item
<1>3. Disowned(s) = [i \in 1 .. Len(s) |-> [s[i] EXCEPT !.live = FALSE]]
    BY DEF Disowned
<1>4. \A i \in 1 .. Len(s) : [s[i] EXCEPT !.live = FALSE] \in Item
    BY <1>1, <1>2
<1>5. Disowned(s) \in Seq(Item)
    BY <1>3, <1>4, IsASeq
<1> QED
    BY <1>1, <1>2, <1>3, <1>5

LEMMA CloseGood ==
    ASSUME NEW top \in Nat, NEW v, Good(v, top)
    PROVE  /\ Good(CloseDecoder(v), top) /\ Keeps(v, CloseDecoder(v))
           /\ CloseDecoder(v).connection = v.connection /\ CloseDecoder(v).givenUp = v.givenUp
           /\ CloseDecoder(v).reconnecting = v.reconnecting /\ CloseDecoder(v).timer = v.timer
           /\ \A i \in DOMAIN CloseDecoder(v).decoding : ~CloseDecoder(v).decoding[i].live
           /\ CloseDecoder(v).presenter.waiting = <<>>
<1> DEFINE w == CloseDecoder(v)
           decoding == Disowned(v.decoding)
           presenter == Cleared(v.presenter)
<1>1. v \in View /\ v.decoding \in Seq(Item) /\ v.presenter \in PresenterOf(Image)
    BY DEF Good, Formed, View
<1>2. /\ decoding \in Seq(Item) /\ DOMAIN decoding = DOMAIN v.decoding
      /\ \A i \in DOMAIN decoding : /\ ~decoding[i].live /\ decoding[i].n = v.decoding[i].n
                                    /\ decoding[i].connection = v.decoding[i].connection
    BY <1>1, DisownedItems
<1>3. presenter \in PresenterOf(Image) /\ presenter.waiting = <<>>
    <2>1. <<>> \in Seq(Image)
        OBVIOUS
    <2>2. presenter = [v.presenter EXCEPT !.waiting = <<>>]
        BY DEF Cleared
    <2> HIDE DEF presenter
    <2> DEFINE none == <<>>
    <2>3. none \in Seq(Image) /\ presenter = [v.presenter EXCEPT !.waiting = none]
        BY <2>1, <2>2
    <2>4. /\ v.presenter \in [waiting : Seq(Image), drawn : BOOLEAN, scheduled : BOOLEAN, stopped : BOOLEAN]
        BY <1>1 DEF PresenterOf
    <2> HIDE DEF none
    <2>5. presenter \in PresenterOf(Image) /\ presenter.waiting = none
        BY <2>3, <2>4 DEF PresenterOf
    <2> QED
        BY <2>5 DEF none
<1>4. w = [v EXCEPT !.configured = FALSE, !.decoding = decoding, !.presenter = presenter]
    BY <1>1 DEF CloseDecoder, View
<1> HIDE DEF w, decoding, presenter
<1>5. /\ w \in View /\ w.decoding = decoding /\ w.presenter = presenter
      /\ w.stopped = v.stopped /\ w.config = v.config /\ w.connection = v.connection
      /\ w.reconnecting = v.reconnecting /\ w.timer = v.timer /\ w.buffer = v.buffer
      /\ w.canvas = v.canvas /\ w.givenUp = v.givenUp
    BY <1>1, <1>2, <1>3, <1>4 DEF View
<1>6. Formed(w)
    BY <1>3, <1>5, PresenterAssumption DEF Good, Formed
<1>7. Paintable(w)
    BY <1>2, <1>3, <1>5 DEF Good, Paintable
<1>8. Ordered(w, top)
    BY <1>2, <1>3, <1>5 DEF Good, Ordered
<1>9. /\ Good(w, top) /\ Keeps(v, w)
      /\ \A i \in DOMAIN w.decoding : ~w.decoding[i].live
      /\ w.presenter.waiting = <<>>
    BY <1>2, <1>3, <1>4, <1>5, <1>6, <1>7, <1>8 DEF Good, Keeps
<1> QED
    BY <1>5, <1>9 DEF w

\* The new connection starts with nothing to paint.
LEMMA ReconnectGood ==
    ASSUME NEW top \in Nat, NEW v, Good(v, top)
    PROVE  Good(Reconnect(v), top) /\ Keeps(v, Reconnect(v))
<1>1. CASE v.stopped \/ v.reconnecting
    BY <1>1 DEF Reconnect, Keeps
<1>2. CASE ~(v.stopped \/ v.reconnecting)
    <2> DEFINE w == CloseDecoder(v)
               x == Reconnect(v)
    <2>1. /\ Good(w, top) /\ Keeps(v, w) /\ w.connection = v.connection
          /\ \A i \in DOMAIN w.decoding : ~w.decoding[i].live
          /\ w.presenter.waiting = <<>>
        BY CloseGood
    <2>2. x = [w EXCEPT !.reconnecting = TRUE, !.connection = w.connection + 1, !.recoveries = w.recoveries + 1,
                        !.config = 0, !.awaiting = TRUE, !.buffer = 0, !.timer = "reconnect",
                        !.givenUp = w.connection]
        BY <1>2, <2>1 DEF Reconnect
    <2> HIDE DEF w, x
    <2>3. w \in View
        BY <2>1 DEF Good, Formed
    <2>9. w.connection \in Nat \ {0} /\ w.recoveries \in Nat
        BY <2>3 DEF View
    <2>10. w.connection + 1 \in Nat \ {0} /\ w.recoveries + 1 \in Nat /\ w.connection \in Nat
        BY <2>9
    <2>4. /\ x \in View /\ x.reconnecting /\ x.timer = "reconnect" /\ x.connection = w.connection + 1
          /\ x.config = 0 /\ x.buffer = 0 /\ x.givenUp = w.connection
          /\ x.decoding = w.decoding /\ x.presenter = w.presenter /\ x.canvas = w.canvas
          /\ x.stopped = w.stopped /\ w.connection \in Nat \ {0}
        BY <2>2, <2>3, <2>9, <2>10 DEF View
    <2>5. Formed(x)
        BY <2>1, <2>4 DEF Good, Formed
    <2>6. Paintable(x)
        <3>1. \A i \in DOMAIN w.decoding : w.decoding[i].connection \in Nat
            <4>1. w.decoding \in Seq(Item)
                BY <2>3 DEF View
            <4> QED
                BY <4>1, ItemsOf
        <3>2. w.canvas.connection \in Nat /\ w.canvas.connection <= w.connection
            BY <2>1, <2>3 DEF Good, Paintable, View, Image
        <3>3. \A i \in DOMAIN w.decoding : w.decoding[i].connection <= w.connection + 1
            BY <2>1, <2>4, <3>1 DEF Good, Paintable
        <3> QED
            BY <2>1, <2>4, <3>2, <3>3 DEF Paintable
    <2>7. Ordered(x, top)
        BY <2>1, <2>4 DEF Good, Ordered
    <2>8. Good(x, top) /\ Keeps(v, x)
        BY <2>1, <2>4, <2>5, <2>6, <2>7 DEF Good, Keeps
    <2> QED
        BY <2>8 DEF x
<1> QED
    BY <1>1, <1>2

\* A change of the flags and of the description that the decoder will get.
LEMMA FlagsGood ==
    ASSUME NEW top \in Nat, NEW v, Good(v, top), NEW w \in View,
           w.stopped = v.stopped, w.connection = v.connection, w.reconnecting = v.reconnecting,
           w.timer = v.timer, w.decoding = v.decoding, w.presenter = v.presenter, w.canvas = v.canvas,
           w.givenUp = v.givenUp, w.config <= w.connection, w.buffer = v.buffer
    PROVE  Good(w, top) /\ Keeps(v, w)
<1>1. Formed(w)
    BY DEF Good, Formed
<1>2. Paintable(w)
    BY DEF Good, Paintable
<1>3. Ordered(w, top)
    BY DEF Good, Ordered
<1> QED
    BY <1>1, <1>2, <1>3 DEF Good, Keeps

LEMMA KeepsAgain ==
    ASSUME NEW u, NEW v, NEW w, Keeps(u, v), Keeps(v, w)
    PROVE  Keeps(u, w)
BY DEF Keeps

\* The outcomes of a function that makes a decoder, with the bounds left to the caller.
LEMMA MadeGood ==
    ASSUME NEW top \in Nat, NEW v, Good(v, top)
    PROVE  Good(MakeDecoder(v), top) /\ Keeps(v, MakeDecoder(v))
<1> DEFINE w == MakeDecoder(v)
<1>1. v \in View /\ v.config <= v.connection
    BY DEF Good, Formed
<1>2. w = [v EXCEPT !.configured = TRUE]
    BY DEF MakeDecoder
<1> HIDE DEF w
<1>3. /\ w \in View /\ w.stopped = v.stopped /\ w.connection = v.connection
      /\ w.reconnecting = v.reconnecting /\ w.timer = v.timer /\ w.decoding = v.decoding
      /\ w.presenter = v.presenter /\ w.canvas = v.canvas /\ w.givenUp = v.givenUp
      /\ w.config = v.config /\ w.buffer = v.buffer
    BY <1>1, <1>2 DEF View
<1>4. Good(w, top) /\ Keeps(v, w)
    BY <1>1, <1>3, FlagsGood
<1> QED
    BY <1>4 DEF w

LEMMA ConfigureGood ==
    ASSUME NEW top \in Nat, NEW v, Good(v, top), NEW w \in ConfigureDecoder(v, v.connection)
    PROVE  Good(w, top) /\ Keeps(v, w)
<1> DEFINE u == CloseDecoder(v)
           closed == [u EXCEPT !.config = v.connection, !.awaiting = TRUE]
<1>1. Good(u, top) /\ Keeps(v, u) /\ u.connection = v.connection
    BY CloseGood
<1>2. w = MakeDecoder(closed) \/ w = Reconnect(closed)
    BY DEF ConfigureDecoder, When
<1> HIDE DEF u
<1>3. u \in View /\ u.connection \in Nat \ {0}
    BY <1>1, ViewFields DEF Good, Formed
<1>4. /\ closed \in View /\ closed.stopped = u.stopped /\ closed.connection = u.connection
      /\ closed.reconnecting = u.reconnecting /\ closed.timer = u.timer /\ closed.decoding = u.decoding
      /\ closed.presenter = u.presenter /\ closed.canvas = u.canvas /\ closed.givenUp = u.givenUp
      /\ closed.config = u.connection /\ closed.buffer = u.buffer
    BY <1>1, <1>3 DEF View
<1> HIDE DEF closed
<1>5. Good(closed, top) /\ Keeps(u, closed)
    BY <1>1, <1>3, <1>4, FlagsGood
<1>6. Good(w, top) /\ Keeps(closed, w)
    BY <1>2, <1>5, MadeGood, ReconnectGood
<1>7. Keeps(v, closed)
    BY <1>1, <1>5, KeepsAgain
<1> QED
    BY <1>6, <1>7, KeepsAgain

LEMMA ResetGood ==
    ASSUME NEW top \in Nat, NEW v, Good(v, top), NEW w \in ResetDecoderForKeyframe(v)
    PROVE  Good(w, top) /\ Keeps(v, w)
<1> DEFINE u == CloseDecoder(v)
           more == u.recoveries + 1
           closed == [u EXCEPT !.recoveries = more, !.awaiting = TRUE]
<1>1. Good(u, top) /\ Keeps(v, u) /\ u.connection = v.connection
    BY CloseGood
<1>2. w = closed \/ w = MakeDecoder(closed) \/ w = Reconnect(closed)
    BY DEF ResetDecoderForKeyframe, When
<1> HIDE DEF u
<1>3. u \in View /\ u.config <= u.connection /\ more \in Nat
    BY <1>1, ViewFields DEF Good, Formed
<1> HIDE DEF more
<1>4. /\ closed \in View /\ closed.stopped = u.stopped /\ closed.connection = u.connection
      /\ closed.reconnecting = u.reconnecting /\ closed.timer = u.timer /\ closed.decoding = u.decoding
      /\ closed.presenter = u.presenter /\ closed.canvas = u.canvas /\ closed.givenUp = u.givenUp
      /\ closed.config = u.config /\ closed.buffer = u.buffer
    BY <1>1, <1>3 DEF View
<1> HIDE DEF closed
<1>5. Good(closed, top) /\ Keeps(u, closed)
    BY <1>1, <1>3, <1>4, FlagsGood
<1>6. Good(w, top) /\ Keeps(closed, w)
    BY <1>2, <1>5, MadeGood, ReconnectGood DEF Keeps
<1>7. Keeps(v, closed)
    BY <1>1, <1>5, KeepsAgain
<1> QED
    BY <1>6, <1>7, KeepsAgain

\* The frame that goes into the decoder is the newest.
LEMMA DecodeGood ==
    ASSUME NEW top \in Nat \ {0}, NEW v, Good(v, top)
    PROVE  Good(Decode(v, top), top) /\ Keeps(v, Decode(v, top))
<1> DEFINE item == [live |-> TRUE, n |-> top, connection |-> v.connection]
           decoding == Append(v.decoding, item)
           w == Decode(v, top)
<1>1. v \in View /\ v.decoding \in Seq(Item) /\ v.connection \in Nat \ {0} /\ v.givenUp < v.connection
    BY ViewFields DEF Good, Formed, Paintable
<1>2. item \in Item /\ item.live /\ item.n = top /\ item.connection = v.connection
    BY <1>1 DEF Item
<1>3. w = [v EXCEPT !.decoding = decoding]
    BY DEF Decode
<1> HIDE DEF item
<1>4. /\ decoding \in Seq(Item) /\ DOMAIN decoding = 1 .. Len(v.decoding) + 1
      /\ DOMAIN v.decoding = 1 .. Len(v.decoding) /\ Len(v.decoding) \in Nat
      /\ \A i \in DOMAIN v.decoding : decoding[i] = v.decoding[i]
      /\ decoding[Len(v.decoding) + 1] = item
    BY <1>1, <1>2
<1> HIDE DEF decoding, w
<1>5. ASSUME NEW i \in DOMAIN decoding
      PROVE  \/ i \in DOMAIN v.decoding /\ decoding[i] = v.decoding[i]
             \/ i = Len(v.decoding) + 1 /\ decoding[i] = item
    <2>1. i \in 1 .. Len(v.decoding) \/ i = Len(v.decoding) + 1
        BY <1>4
    <2> QED
        BY <1>4, <2>1
<1>6. /\ w \in View /\ w.stopped = v.stopped /\ w.connection = v.connection
      /\ w.reconnecting = v.reconnecting /\ w.timer = v.timer /\ w.decoding = decoding
      /\ w.presenter = v.presenter /\ w.canvas = v.canvas /\ w.givenUp = v.givenUp
      /\ w.config = v.config /\ w.buffer = v.buffer
    BY <1>1, <1>3, <1>4 DEF View
<1>7. Formed(w)
    BY <1>6 DEF Good, Formed
<1>8. Paintable(w)
    BY <1>1, <1>2, <1>5, <1>6 DEF Good, Paintable
<1>9. Ordered(w, top)
    <2>1. \A i, j \in DOMAIN decoding : i < j => decoding[i].n <= decoding[j].n
        <3> SUFFICES ASSUME NEW i \in DOMAIN decoding, NEW j \in DOMAIN decoding, i < j
                     PROVE  decoding[i].n <= decoding[j].n
            OBVIOUS
        <3>1. i \in DOMAIN v.decoding /\ decoding[i] = v.decoding[i]
            BY <1>4, <1>5
        <3> QED
            BY <1>2, <1>5, <3>1 DEF Good, Ordered
    <2>2. \A i \in DOMAIN decoding : v.canvas.n <= decoding[i].n /\ decoding[i].n <= top
        BY <1>2, <1>5 DEF Good, Ordered
    <2>3. \A i \in DOMAIN v.presenter.waiting, j \in DOMAIN decoding :
            v.presenter.waiting[i].n <= decoding[j].n
        BY <1>2, <1>5 DEF Good, Ordered
    <2> QED
        BY <1>6, <2>1, <2>2, <2>3 DEF Good, Ordered
<1>10. Good(w, top) /\ Keeps(v, w)
    BY <1>6, <1>7, <1>8, <1>9 DEF Good, Keeps
<1> QED
    BY <1>10 DEF w

LEMMA SameGood == ASSUME NEW top, NEW v, Good(v, top) PROVE Good(v, top) /\ Keeps(v, v)
BY DEF Keeps

\* What handling a chunk comes to.
LEMMA ChunkShapes ==
    ASSUME NEW top \in Nat, NEW v, NEW kind \in Kind, NEW w \in HandleChunk(v, kind, top)
    PROVE  \/ w = v \/ w \in ConfigureDecoder(v, v.connection) \/ w \in ResetDecoderForKeyframe(v)
           \/ w = Decode(v, top)
           \/ w = [Decode(v, top) EXCEPT !.awaiting = FALSE]
<1>1. CASE kind \in {"seed", "description"}
    BY <1>1 DEF HandleChunk
<1>2. CASE kind = "keyframe"
    <2>1. w \in Keyframe(v, top)
        BY <1>2 DEF HandleChunk
    <2> QED
        BY <2>1 DEF Keyframe, Threw, When
<1>3. CASE kind = "delta"
    <2>1. w \in Delta(v, top)
        BY <1>3 DEF HandleChunk
    <2> QED
        BY <2>1 DEF Delta, Threw, When
<1>4. CASE kind = "disposable"
    <2>1. w \in Disposable(v, top)
        BY <1>4 DEF HandleChunk
    <2> QED
        BY <2>1 DEF Disposable, Threw, When
<1> QED
    BY <1>1, <1>2, <1>3, <1>4 DEF Kind

LEMMA ChunkGood ==
    ASSUME NEW top \in Nat \ {0}, NEW v, Good(v, top), NEW kind \in Kind,
           NEW w \in HandleChunk(v, kind, top)
    PROVE  Good(w, top) /\ Keeps(v, w)
<1>1. CASE w = v
    BY <1>1, SameGood
<1>2. CASE w \in ConfigureDecoder(v, v.connection)
    BY <1>2, ConfigureGood
<1>3. CASE w \in ResetDecoderForKeyframe(v)
    BY <1>3, ResetGood
<1>4. CASE w = Decode(v, top)
    BY <1>4, DecodeGood
<1>5. CASE w = [Decode(v, top) EXCEPT !.awaiting = FALSE]
    <2> DEFINE u == Decode(v, top)
    <2>1. Good(u, top) /\ Keeps(v, u)
        BY <1>5, DecodeGood
    <2> HIDE DEF u
    <2>2. u \in View /\ u.config <= u.connection
        BY <2>1 DEF Good, Formed
    <2>3. w = [u EXCEPT !.awaiting = FALSE]
        BY <1>5 DEF u
    <2>4. /\ w \in View /\ w.stopped = u.stopped /\ w.connection = u.connection
          /\ w.reconnecting = u.reconnecting /\ w.timer = u.timer /\ w.decoding = u.decoding
          /\ w.presenter = u.presenter /\ w.canvas = u.canvas /\ w.givenUp = u.givenUp
          /\ w.config = u.config /\ w.buffer = u.buffer
        BY <2>2, <2>3 DEF View
    <2>5. Good(w, top) /\ Keeps(u, w)
        BY <2>1, <2>2, <2>4, FlagsGood
    <2> QED
        BY <2>1, <2>5, KeepsAgain
<1> QED
    BY <1>1, <1>2, <1>3, <1>4, <1>5, ChunkShapes

\* A chunk that puts no frame into the decoder.
LEMMA StillGood ==
    ASSUME NEW old \in Nat, NEW top \in Nat, NEW v, Good(v, old), NEW kind \in Kind,
           NEW w \in HandleChunk(v, kind, top), ~(Len(w.decoding) > Len(v.decoding))
    PROVE  Good(w, old) /\ Keeps(v, w)
<1>1. v \in View /\ v.decoding \in Seq(Item)
    BY ViewFields DEF Good, Formed
<1>2. w # Decode(v, top) /\ w # [Decode(v, top) EXCEPT !.awaiting = FALSE]
    <2> DEFINE item == [live |-> TRUE, n |-> top, connection |-> v.connection]
               u == Decode(v, top)
               decoding == Append(v.decoding, item)
    <2>1. Len(decoding) = Len(v.decoding) + 1 /\ Len(v.decoding) \in Nat
        BY <1>1
    <2>2. u = [v EXCEPT !.decoding = decoding]
        BY DEF Decode
    <2> HIDE DEF decoding, u
    <2> DEFINE x == [u EXCEPT !.awaiting = FALSE]
    <2>3. u.decoding = decoding /\ x.decoding = decoding
        BY <1>1, <2>2 DEF View
    <2> HIDE DEF x
    <2>5. Len(u.decoding) > Len(v.decoding) /\ Len(x.decoding) > Len(v.decoding)
        BY <2>1, <2>3
    <2>6. w # u /\ w # x
        BY <2>5
    <2>4. w # u /\ w # [u EXCEPT !.awaiting = FALSE]
        BY <2>6 DEF x
    <2> QED
        BY <2>4 DEF u
<1>3. w = v \/ w \in ConfigureDecoder(v, v.connection) \/ w \in ResetDecoderForKeyframe(v)
    BY <1>2, ChunkShapes
<1> QED
    BY <1>3, SameGood, ConfigureGood, ResetGood

-----------------------------------------------------------------------------
(* What the presenter does with a frame, and the canvas.                    *)

LEMMA TailOf ==
    ASSUME NEW S, NEW s \in Seq(S), s # <<>>
    PROVE  /\ Tail(s) \in Seq(S) /\ Head(s) \in S /\ Head(s) = s[1]
           /\ 1 \in DOMAIN s /\ Len(Tail(s)) = Len(s) - 1 /\ Len(s) \in Nat \ {0}
           /\ \A i \in DOMAIN Tail(s) : i + 1 \in DOMAIN s /\ Tail(s)[i] = s[i + 1] /\ i \in Nat \ {0}
OBVIOUS

\* The frame that leaves the decoder is older than what stays there.
LEMMA OutputGood ==
    ASSUME NEW top \in Nat, NEW v, Good(v, top), v.decoding # <<>>,
           NEW w, w = [v EXCEPT !.decoding = Tail(v.decoding)]
    PROVE  /\ Good(w, top) /\ w.canvas = v.canvas /\ w.connection = v.connection /\ w.timer = v.timer
           /\ w.givenUp = v.givenUp /\ w.presenter = v.presenter /\ w.stopped = v.stopped
           /\ w.recoveries = v.recoveries /\ w.buffer = v.buffer
           /\ \A i \in DOMAIN w.decoding : Head(v.decoding).n <= w.decoding[i].n
           /\ Head(v.decoding) \in Item
           /\ Head(v.decoding).n <= top /\ v.canvas.n <= Head(v.decoding).n
           /\ \A i \in DOMAIN v.presenter.waiting : v.presenter.waiting[i].n <= Head(v.decoding).n
           /\ Head(v.decoding).connection <= v.connection
           /\ Head(v.decoding).live => Head(v.decoding).connection > v.givenUp
<1> DEFINE rest == Tail(v.decoding)
<1>1. v \in View /\ v.decoding \in Seq(Item)
    BY ViewFields DEF Good, Formed
<1>2. /\ rest \in Seq(Item) /\ Head(v.decoding) \in Item /\ Head(v.decoding) = v.decoding[1]
      /\ 1 \in DOMAIN v.decoding
      /\ \A i \in DOMAIN rest : i + 1 \in DOMAIN v.decoding /\ rest[i] = v.decoding[i + 1] /\ i \in Nat \ {0}
    BY <1>1, TailOf
<1> HIDE DEF rest
<1>3. w = [v EXCEPT !.decoding = rest]
    BY DEF rest
<1>4. /\ w \in View /\ w.stopped = v.stopped /\ w.connection = v.connection
      /\ w.reconnecting = v.reconnecting /\ w.timer = v.timer /\ w.decoding = rest
      /\ w.presenter = v.presenter /\ w.canvas = v.canvas /\ w.givenUp = v.givenUp
      /\ w.config = v.config /\ w.buffer = v.buffer /\ w.recoveries = v.recoveries
    BY <1>1, <1>2, <1>3 DEF View
<1>5. Formed(w)
    BY <1>4 DEF Good, Formed
<1>6. Paintable(w)
    BY <1>2, <1>4 DEF Good, Paintable
<1>7. \A i \in DOMAIN rest : v.decoding[1].n <= rest[i].n
    BY <1>2 DEF Good, Ordered
<1>8. Ordered(w, top)
    <2>1. \A i, j \in DOMAIN rest : i < j => rest[i].n <= rest[j].n
        <3> SUFFICES ASSUME NEW i \in DOMAIN rest, NEW j \in DOMAIN rest, i < j
                     PROVE  rest[i].n <= rest[j].n
            OBVIOUS
        <3>1. i + 1 \in DOMAIN v.decoding /\ j + 1 \in DOMAIN v.decoding /\ i + 1 < j + 1
            BY <1>2
        <3> QED
            BY <1>2, <3>1 DEF Good, Ordered
    <2>2. v.canvas.n <= top /\ \A i \in DOMAIN rest : v.canvas.n <= rest[i].n /\ rest[i].n <= top
        BY <1>2 DEF Good, Ordered
    <2>3. \A i \in DOMAIN v.presenter.waiting, j \in DOMAIN rest : v.presenter.waiting[i].n <= rest[j].n
        BY <1>2 DEF Good, Ordered
    <2> QED
        BY <1>4, <2>1, <2>2, <2>3 DEF Good, Ordered
<1> QED
    BY <1>2, <1>4, <1>5, <1>6, <1>7, <1>8 DEF Good, Paintable, Ordered

\* Everything but the canvas and the presenter.
Around(v, w) ==
    /\ w.connection = v.connection /\ w.timer = v.timer /\ w.givenUp = v.givenUp
    /\ w.stopped = v.stopped /\ w.recoveries = v.recoveries /\ w.decoding = v.decoding
    /\ w.buffer = v.buffer

\* A picture that is due before all that waits or is being decoded.
LEMMA PaintGood ==
    ASSUME NEW top \in Nat, NEW v, Good(v, top), NEW picture \in Image,
           picture.connection <= v.connection, picture.n <= top,
           \A i \in DOMAIN v.decoding : picture.n <= v.decoding[i].n,
           \A i \in DOMAIN v.presenter.waiting : picture.n <= v.presenter.waiting[i].n
    PROVE  /\ Good(Paint(v, picture), top) /\ Around(v, Paint(v, picture))
           /\ Paint(v, picture).canvas \in {v.canvas, picture}
<1>1. CASE v.stopped
    BY <1>1 DEF Paint, Around
<1>2. CASE ~v.stopped
    <2> DEFINE w == Paint(v, picture)
    <2>1. v \in View
        BY DEF Good, Formed
    <2>2. w = [v EXCEPT !.painted = TRUE, !.canvas = picture]
        BY <1>2 DEF Paint
    <2> HIDE DEF w
    <2>3. /\ w \in View /\ w.canvas = picture /\ w.connection = v.connection /\ w.timer = v.timer
          /\ w.givenUp = v.givenUp /\ w.stopped = v.stopped /\ w.recoveries = v.recoveries
          /\ w.decoding = v.decoding /\ w.presenter = v.presenter /\ w.config = v.config
          /\ w.buffer = v.buffer /\ w.reconnecting = v.reconnecting
        BY <2>1, <2>2 DEF View
    <2>4. Formed(w)
        BY <2>3 DEF Good, Formed
    <2>5. Paintable(w)
        BY <2>3 DEF Good, Paintable
    <2>6. Ordered(w, top)
        BY <2>3 DEF Good, Ordered
    <2>7. Good(w, top) /\ Around(v, w) /\ w.canvas = picture
        BY <2>3, <2>4, <2>5, <2>6 DEF Good, Around
    <2> QED
        BY <2>7 DEF w
<1> QED
    BY <1>1, <1>2

LEMMA PresenterGood ==
    ASSUME NEW top \in Nat, NEW v, Good(v, top), NEW p \in PresenterOf(Image),
           Len(p.waiting) <= MaxWaiting,
           \A i \in DOMAIN p.waiting :
             /\ p.waiting[i].connection <= v.connection /\ p.waiting[i].connection > v.givenUp
             /\ v.canvas.n <= p.waiting[i].n /\ p.waiting[i].n <= top
             /\ \A j \in DOMAIN v.decoding : p.waiting[i].n <= v.decoding[j].n,
           \A i, j \in DOMAIN p.waiting : i < j => p.waiting[i].n <= p.waiting[j].n,
           NEW w, w = [v EXCEPT !.presenter = p]
    PROVE  Good(w, top) /\ Around(v, w) /\ w.canvas = v.canvas /\ w.presenter = p
<1>1. v \in View
    BY DEF Good, Formed
<1>2. /\ w \in View /\ w.canvas = v.canvas /\ w.connection = v.connection /\ w.timer = v.timer
      /\ w.givenUp = v.givenUp /\ w.stopped = v.stopped /\ w.recoveries = v.recoveries
      /\ w.decoding = v.decoding /\ w.presenter = p /\ w.config = v.config
      /\ w.buffer = v.buffer /\ w.reconnecting = v.reconnecting
    BY <1>1 DEF View
<1>3. Formed(w)
    BY <1>2 DEF Good, Formed
<1>4. Paintable(w)
    BY <1>2 DEF Good, Paintable
<1>5. Ordered(w, top)
    BY <1>2 DEF Good, Ordered
<1> QED
    BY <1>2, <1>3, <1>4, <1>5 DEF Good, Around

\* The oldest of those that wait makes room for one more.
LEMMA WaitShape ==
    ASSUME NEW p \in PresenterOf(Image), NEW picture \in Image, Len(p.waiting) <= MaxWaiting
    PROVE  /\ Wait(p, picture) \in PresenterOf(Image) /\ Len(Wait(p, picture).waiting) <= MaxWaiting
           /\ \E k \in {0, 1} : \A i \in DOMAIN Wait(p, picture).waiting :
                \/ Wait(p, picture).waiting[i] = picture /\ i = Len(Wait(p, picture).waiting)
                \/ /\ i + k \in DOMAIN p.waiting
                   /\ Wait(p, picture).waiting[i] = p.waiting[i + k]
                   /\ i < Len(Wait(p, picture).waiting)
<1> DEFINE room == IF Len(p.waiting) = MaxWaiting THEN Tail(p.waiting) ELSE p.waiting
           waiting == Append(room, picture)
           w == Wait(p, picture)
<1>1. p.waiting \in Seq(Image) /\ p \in [waiting : Seq(Image), drawn : BOOLEAN, scheduled : BOOLEAN, stopped : BOOLEAN]
    BY DEF PresenterOf
<1>2. /\ room \in Seq(Image) /\ Len(room) < MaxWaiting
      /\ \E k \in {0, 1} : \A i \in DOMAIN room : i + k \in DOMAIN p.waiting /\ room[i] = p.waiting[i + k]
    <2>1. CASE Len(p.waiting) = MaxWaiting
        <3>1. p.waiting # <<>>
            BY <2>1, PresenterAssumption
        <3>2. room = Tail(p.waiting)
            BY <2>1
        <3> HIDE DEF room
        <3>3. /\ room \in Seq(Image) /\ Len(room) = Len(p.waiting) - 1 /\ Len(p.waiting) \in Nat \ {0}
              /\ \A i \in DOMAIN room : i + 1 \in DOMAIN p.waiting /\ room[i] = p.waiting[i + 1]
            BY <1>1, <3>1, <3>2, TailOf
        <3> QED
            BY <2>1, <3>3
    <2>2. CASE Len(p.waiting) # MaxWaiting
        <3>1. room = p.waiting
            BY <2>2
        <3> HIDE DEF room
        <3>2. Len(room) \in Nat /\ Len(room) < MaxWaiting /\ \A i \in DOMAIN room : i + 0 = i
            BY <1>1, <2>2, <3>1, PresenterAssumption
        <3> QED
            BY <1>1, <3>1, <3>2
    <2> QED
        BY <2>1, <2>2
<1> HIDE DEF room
<1>3. /\ waiting \in Seq(Image) /\ Len(waiting) = Len(room) + 1 /\ Len(room) \in Nat
      /\ \A i \in DOMAIN waiting : \/ waiting[i] = picture /\ i = Len(waiting)
                                   \/ i \in DOMAIN room /\ waiting[i] = room[i] /\ i < Len(waiting)
    BY <1>2
<1>4. w = [p EXCEPT !.waiting = waiting, !.scheduled = TRUE]
    BY DEF Wait, room
<1> HIDE DEF waiting, w
<1>5. w \in PresenterOf(Image) /\ w.waiting = waiting
    BY <1>1, <1>3, <1>4 DEF PresenterOf
<1>6. Len(waiting) <= MaxWaiting
    BY <1>2, <1>3, PresenterAssumption
<1>7. PICK k \in {0, 1} : \A i \in DOMAIN room : i + k \in DOMAIN p.waiting /\ room[i] = p.waiting[i + k]
    BY <1>2
<1>8. /\ w \in PresenterOf(Image) /\ Len(w.waiting) <= MaxWaiting
      /\ \A i \in DOMAIN w.waiting :
           \/ w.waiting[i] = picture /\ i = Len(w.waiting)
           \/ /\ i + k \in DOMAIN p.waiting /\ w.waiting[i] = p.waiting[i + k]
              /\ i < Len(w.waiting)
    BY <1>3, <1>5, <1>6, <1>7
<1> QED
    BY <1>8 DEF w

LEMMA PresentGood ==
    ASSUME NEW top \in Nat, NEW v, Good(v, top), NEW picture \in Image,
           picture.connection <= v.connection, picture.connection > v.givenUp,
           picture.n <= top, v.canvas.n <= picture.n,
           \A i \in DOMAIN v.decoding : picture.n <= v.decoding[i].n,
           \A i \in DOMAIN v.presenter.waiting : v.presenter.waiting[i].n <= picture.n
    PROVE  /\ Good(Present(v, picture), top) /\ Around(v, Present(v, picture))
           /\ Present(v, picture).canvas \in {v.canvas, picture}
<1> DEFINE p == v.presenter
           q == Enqueued(p, picture)
           kept == [v EXCEPT !.presenter = q]
<1>1. /\ p \in PresenterOf(Image) /\ Len(p.waiting) <= MaxWaiting /\ p.waiting \in Seq(Image)
      /\ p \in [waiting : Seq(Image), drawn : BOOLEAN, scheduled : BOOLEAN, stopped : BOOLEAN]
    BY ViewFields DEF Good, Formed, PresenterOf
<1>2. CASE p.stopped
    <2>1. q = p /\ ~DrawsNow(p)
        BY <1>2 DEF Enqueued, DrawsNow
    <2>2. kept = v
        <3>1. v \in View
            BY DEF Good, Formed
        <3> QED
            BY <2>1, <3>1 DEF View
    <2> QED
        BY <2>1, <2>2 DEF Present, Around
<1>3. CASE ~p.stopped /\ DrawsNow(p)
    <2>1. q = [p EXCEPT !.drawn = TRUE, !.scheduled = TRUE] /\ p.waiting = <<>>
        BY <1>3 DEF Enqueued, DrawsNow
    <2> HIDE DEF q
    <2>2. q \in PresenterOf(Image) /\ q.waiting = p.waiting
        BY <1>1, <2>1 DEF PresenterOf
    <2>3. q.waiting = <<>> /\ Len(q.waiting) <= MaxWaiting
        BY <1>1, <2>1, <2>2
    <2>4. kept = [v EXCEPT !.presenter = q]
        OBVIOUS
    <2> HIDE DEF kept
    <2>5. Good(kept, top) /\ Around(v, kept) /\ kept.canvas = v.canvas /\ kept.presenter = q
        BY <2>2, <2>3, <2>4, PresenterGood
    <2>6. /\ Good(Paint(kept, picture), top) /\ Around(kept, Paint(kept, picture))
          /\ Paint(kept, picture).canvas \in {kept.canvas, picture}
        BY <2>3, <2>5, PaintGood DEF Around
    <2>7. Present(v, picture) = Paint(kept, picture)
        BY <1>3 DEF Present, kept, q
    <2> QED
        BY <2>5, <2>6, <2>7 DEF Around
<1>4. CASE ~p.stopped /\ ~DrawsNow(p)
    <2>1. q = Wait(p, picture)
        BY <1>4 DEF Enqueued
    <2> HIDE DEF q
    <2>2. /\ Wait(p, picture) \in PresenterOf(Image) /\ Len(Wait(p, picture).waiting) <= MaxWaiting
          /\ \E k \in {0, 1} : \A i \in DOMAIN Wait(p, picture).waiting :
               \/ Wait(p, picture).waiting[i] = picture /\ i = Len(Wait(p, picture).waiting)
               \/ /\ i + k \in DOMAIN p.waiting
                  /\ Wait(p, picture).waiting[i] = p.waiting[i + k]
                  /\ i < Len(Wait(p, picture).waiting)
        <3> HIDE DEF p
        <3> QED
            BY <1>1, WaitShape
    <2>10. q \in PresenterOf(Image) /\ Len(q.waiting) <= MaxWaiting
        BY <2>1, <2>2
    <2>3. PICK k \in {0, 1} : \A i \in DOMAIN q.waiting :
            \/ q.waiting[i] = picture /\ i = Len(q.waiting)
            \/ /\ i + k \in DOMAIN p.waiting /\ q.waiting[i] = p.waiting[i + k]
               /\ i < Len(q.waiting)
        BY <2>1, <2>2
    <2>4. q.waiting \in Seq(Image)
        BY <2>10 DEF PresenterOf
    <2>5. ASSUME NEW i \in DOMAIN q.waiting
          PROVE  /\ q.waiting[i].connection <= v.connection /\ q.waiting[i].connection > v.givenUp
                 /\ v.canvas.n <= q.waiting[i].n /\ q.waiting[i].n <= top /\ q.waiting[i].n <= picture.n
                 /\ \A j \in DOMAIN v.decoding : q.waiting[i].n <= v.decoding[j].n
        <3>1. CASE q.waiting[i] = picture
            <4>1. picture.n \in Nat
                BY DEF Image
            <4> QED
                BY <3>1, <4>1
        <3>2. CASE i + k \in DOMAIN p.waiting /\ q.waiting[i] = p.waiting[i + k]
            BY <3>2 DEF Good, Paintable, Ordered
        <3> QED
            BY <2>3, <3>1, <3>2
    <2>6. ASSUME NEW i \in DOMAIN q.waiting, NEW j \in DOMAIN q.waiting, i < j
          PROVE  q.waiting[i].n <= q.waiting[j].n
        <3>1. i \in Nat /\ j \in Nat /\ Len(q.waiting) \in Nat /\ i <= Len(q.waiting) /\ j <= Len(q.waiting)
            BY <2>4
        <3>2. i + k \in DOMAIN p.waiting /\ q.waiting[i] = p.waiting[i + k]
            BY <2>3, <2>6, <3>1
        <3>3. CASE q.waiting[j] = picture
            BY <2>5, <3>3
        <3>4. CASE j + k \in DOMAIN p.waiting /\ q.waiting[j] = p.waiting[j + k]
            <4>1. i + k < j + k
                BY <2>6, <3>1
            <4> QED
                BY <3>2, <3>4, <4>1 DEF Good, Ordered
        <3> QED
            BY <2>3, <3>3, <3>4
    <2>7. kept = [v EXCEPT !.presenter = q]
        OBVIOUS
    <2> HIDE DEF kept
    <2>8. Good(kept, top) /\ Around(v, kept) /\ kept.canvas = v.canvas
        BY <2>5, <2>6, <2>7, <2>10, PresenterGood
    <2>9. Present(v, picture) = kept
        BY <1>4 DEF Present, kept, q
    <2> QED
        BY <2>8, <2>9
<1> QED
    BY <1>2, <1>3, <1>4

\* The tick draws the oldest that waits, unless a frame was drawn since the last one.
LEMMA TickGood ==
    ASSUME NEW top \in Nat, NEW v, Good(v, top)
    PROVE  LET p == v.presenter
               ticked == [v EXCEPT !.presenter = Ticked(p)]
               w == IF DrawsAtTick(p) THEN Paint(ticked, Head(p.waiting)) ELSE ticked
           IN  /\ Good(w, top) /\ Around(v, w)
               /\ \/ w.canvas = v.canvas
                  \/ w.canvas.connection > v.givenUp /\ v.canvas.n <= w.canvas.n
<1> DEFINE p == v.presenter
           rest == IF p.drawn \/ p.waiting = <<>> THEN p.waiting ELSE Tail(p.waiting)
           q == Ticked(p)
           ticked == [v EXCEPT !.presenter = q]
           w == IF DrawsAtTick(p) THEN Paint(ticked, Head(p.waiting)) ELSE ticked
<1>1. /\ p \in PresenterOf(Image) /\ Len(p.waiting) <= MaxWaiting /\ p.waiting \in Seq(Image)
      /\ p \in [waiting : Seq(Image), drawn : BOOLEAN, scheduled : BOOLEAN, stopped : BOOLEAN]
    BY ViewFields DEF Good, Formed, PresenterOf
<1>2. PICK k \in {0, 1} :
        /\ \A i \in DOMAIN rest : i + k \in DOMAIN p.waiting /\ rest[i] = p.waiting[i + k] /\ i \in Nat \ {0}
        /\ rest \in Seq(Image) /\ Len(rest) <= MaxWaiting
        /\ p.waiting # <<>> /\ ~p.drawn => k = 1
    <2>1. CASE p.drawn \/ p.waiting = <<>>
        <3>1. rest = p.waiting
            BY <2>1
        <3> HIDE DEF rest
        <3>2. \A i \in DOMAIN rest : i + 0 = i /\ i \in Nat \ {0}
            BY <1>1, <3>1
        <3> QED
            BY <1>1, <2>1, <3>1, <3>2
    <2>2. CASE ~(p.drawn \/ p.waiting = <<>>)
        <3>1. rest = Tail(p.waiting) /\ p.waiting # <<>>
            BY <2>2
        <3> HIDE DEF rest
        <3>2. /\ rest \in Seq(Image) /\ Len(rest) = Len(p.waiting) - 1 /\ Len(p.waiting) \in Nat \ {0}
              /\ \A i \in DOMAIN rest : i + 1 \in DOMAIN p.waiting /\ rest[i] = p.waiting[i + 1] /\ i \in Nat \ {0}
            BY <1>1, <3>1, TailOf
        <3>3. Len(rest) <= MaxWaiting
            BY <1>1, <3>2, PresenterAssumption
        <3> QED
            BY <3>2, <3>3
    <2> QED
        BY <2>1, <2>2
<1>3. \E more \in BOOLEAN : q = [p EXCEPT !.waiting = rest, !.drawn = FALSE, !.scheduled = more]
    BY DEF Ticked
<1> HIDE DEF rest, q
<1>4. q \in PresenterOf(Image) /\ q.waiting = rest
    BY <1>1, <1>2, <1>3 DEF PresenterOf
<1>5. ASSUME NEW i \in DOMAIN rest
      PROVE  /\ rest[i].connection <= v.connection /\ rest[i].connection > v.givenUp
             /\ v.canvas.n <= rest[i].n /\ rest[i].n <= top
             /\ \A j \in DOMAIN v.decoding : rest[i].n <= v.decoding[j].n
    <2>1. i + k \in DOMAIN p.waiting /\ rest[i] = p.waiting[i + k]
        BY <1>2
    <2> QED
        BY <2>1 DEF Good, Paintable, Ordered
<1>6. ASSUME NEW i \in DOMAIN rest, NEW j \in DOMAIN rest, i < j
      PROVE  rest[i].n <= rest[j].n
    <2>1. /\ i + k \in DOMAIN p.waiting /\ rest[i] = p.waiting[i + k]
          /\ j + k \in DOMAIN p.waiting /\ rest[j] = p.waiting[j + k] /\ i + k < j + k
        BY <1>2, <1>6
    <2> QED
        BY <2>1 DEF Good, Ordered
<1>7. ticked = [v EXCEPT !.presenter = q]
    OBVIOUS
<1> HIDE DEF ticked
<1>11. /\ Len(q.waiting) <= MaxWaiting
       /\ \A i \in DOMAIN q.waiting :
            /\ q.waiting[i].connection <= v.connection /\ q.waiting[i].connection > v.givenUp
            /\ v.canvas.n <= q.waiting[i].n /\ q.waiting[i].n <= top
            /\ \A j \in DOMAIN v.decoding : q.waiting[i].n <= v.decoding[j].n
       /\ \A i, j \in DOMAIN q.waiting : i < j => q.waiting[i].n <= q.waiting[j].n
    BY <1>2, <1>4, <1>5, <1>6
<1>8. Good(ticked, top) /\ Around(v, ticked) /\ ticked.canvas = v.canvas /\ ticked.presenter = q
    BY <1>4, <1>7, <1>11, PresenterGood
<1>9. CASE ~DrawsAtTick(p)
    <2>1. w = ticked
        BY <1>9
    <2> QED
        BY <1>8, <2>1 DEF ticked, q
<1>10. CASE DrawsAtTick(p)
    <2> DEFINE first == Head(p.waiting)
    <2>1. p.waiting # <<>> /\ ~p.drawn /\ k = 1
        BY <1>2, <1>10 DEF DrawsAtTick
    <2>2. first \in Image /\ first = p.waiting[1] /\ 1 \in DOMAIN p.waiting
        BY <1>1, <2>1, TailOf
    <2> HIDE DEF first
    <2>3. /\ first.connection <= v.connection /\ first.connection > v.givenUp
          /\ v.canvas.n <= first.n /\ first.n <= top
          /\ \A j \in DOMAIN v.decoding : first.n <= v.decoding[j].n
        BY <2>2 DEF Good, Paintable, Ordered
    <2>4. \A i \in DOMAIN rest : first.n <= rest[i].n
        <3> SUFFICES ASSUME NEW i \in DOMAIN rest PROVE first.n <= rest[i].n
            OBVIOUS
        <3>1. i + 1 \in DOMAIN p.waiting /\ rest[i] = p.waiting[i + 1] /\ 1 < i + 1
            BY <1>2, <2>1
        <3> QED
            BY <2>2, <3>1 DEF Good, Ordered
    <2>5. /\ Good(Paint(ticked, first), top) /\ Around(ticked, Paint(ticked, first))
          /\ Paint(ticked, first).canvas \in {ticked.canvas, first}
        BY <1>4, <1>8, <2>2, <2>3, <2>4, PaintGood DEF Around
    <2>6. w = Paint(ticked, first)
        BY <1>10 DEF first
    <2>7. /\ Good(w, top) /\ Around(v, w)
          /\ \/ w.canvas = v.canvas
             \/ w.canvas.connection > v.givenUp /\ v.canvas.n <= w.canvas.n
        BY <1>8, <2>3, <2>5, <2>6 DEF Around
    <2> QED
        BY <2>7 DEF ticked, q
<1> QED
    BY <1>9, <1>10

-----------------------------------------------------------------------------
(* The invariant, and what each step does to it.                            *)

Bounded(v) ==
    /\ v.connection <= MaxConnections /\ v.recoveries <= MaxRecoveries
    /\ v.buffer <= MaxConnections
    /\ v.timer # "none" => v.connection < MaxConnections

Nets == {"connecting", "open", "visiting", "closed"}
Sending == [seed : BOOLEAN, description : 0 .. MaxDescriptions, keyframe : BOOLEAN]

ViewerInv ==
    /\ Good(view, frames) /\ Bounded(view)
    /\ net \in Nets
    /\ server \in Sending
    /\ frames \in 0 .. MaxFrames
    /\ owed \in BOOLEAN
    /\ seeds \subseteq [connection : 1 .. MaxConnections]

\* What a step may do to the canvas.
Painted(v, w) ==
    \/ w.canvas = v.canvas
    \/ /\ w.canvas.connection > v.givenUp
       /\ w.canvas.n > 0 => w.canvas.n >= v.canvas.n

LEMMA GoodLater ==
    ASSUME NEW m \in Nat, NEW n \in Nat, m <= n, NEW v, Good(v, m)
    PROVE  Good(v, n)
<1>1. v.canvas.n \in Nat /\ v.decoding \in Seq(Item) /\ v.presenter.waiting \in Seq(Image)
    BY ViewFields DEF Good, Formed
<1>2. /\ \A i \in DOMAIN v.decoding : v.decoding[i].n \in Nat
      /\ \A i \in DOMAIN v.presenter.waiting : v.presenter.waiting[i].n \in Nat
    BY <1>1, ItemsOf, ImagesOf
<1> QED
    BY <1>1, <1>2 DEF Good, Ordered

LEMMA WithinBounded ==
    ASSUME NEW v, NEW w, Bounded(v), Keeps(v, w), Within(w), w \in View
    PROVE  Bounded(w)
<1>1. w.connection \in Nat
    BY ViewFields
<1> QED
    BY <1>1, ViewerAssumption DEF Bounded, Keeps, Within

LEMMA FrameBounds ==
    ASSUME frames \in 0 .. MaxFrames
    PROVE  /\ NextFrame \in 0 .. MaxFrames /\ frames <= NextFrame /\ NextFrame # 0
           /\ frames \in Nat /\ NextFrame \in Nat
BY ViewerAssumption DEF NextFrame

LEMMA SentTypes ==
    ASSUME server \in Sending, NEW kind, Sendable(kind), Sent(kind)
    PROVE  server' \in Sending
<1> DEFINE seed == server.seed \/ kind = "seed"
           description == server.description + (IF kind = "description" THEN 1 ELSE 0)
           keyframe == kind = "keyframe" \/ (server.keyframe /\ kind # "description")
<1>1. seed \in BOOLEAN /\ keyframe \in BOOLEAN
    BY DEF Sending
<1>2. description \in 0 .. MaxDescriptions
    <2>1. server.description \in 0 .. MaxDescriptions /\ MaxDescriptions \in Nat
        BY ViewerAssumption DEF Sending
    <2> QED
        BY <2>1 DEF Sendable
<1>3. server' = [seed |-> seed, description |-> description, keyframe |-> keyframe]
    BY DEF Sent
<1> HIDE DEF seed, description, keyframe
<1> QED
    BY <1>1, <1>2, <1>3 DEF Sending

\* A chunk that is handled, in a read or behind the chunk that ended one.
LEMMA VisitGood ==
    ASSUME ViewerInv, NEW kind \in Kind, NEW v \in HandleChunk(view, kind, NextFrame),
           Visits(kind, v)
    PROVE  /\ Good(v, frames') /\ Bounded(v) /\ Keeps(view, v)
           /\ frames' \in 0 .. MaxFrames /\ server' \in Sending /\ owed' \in BOOLEAN
           /\ seeds' \subseteq [connection : 1 .. MaxConnections]
<1> DEFINE top == NextFrame
<1>1. /\ top \in 0 .. MaxFrames /\ frames <= top /\ top # 0 /\ top \in Nat /\ frames \in Nat
      /\ frames' = IF Decoded(v) THEN top ELSE frames
    BY FrameBounds DEF ViewerInv, Visits
<1>2. v \in HandleChunk(view, kind, top) /\ Within(v)
    BY DEF Visits
<1> HIDE DEF top
<1>3. Good(view, frames) /\ Good(view, top)
    BY <1>1, GoodLater DEF ViewerInv
<1>4. Good(v, frames') /\ Keeps(view, v)
    <2>1. CASE Decoded(v)
        BY <1>1, <1>2, <1>3, <2>1, ChunkGood
    <2>2. CASE ~Decoded(v)
        <3>1. Good(v, frames) /\ Keeps(view, v)
            BY <1>1, <1>2, <1>3, <2>2, StillGood DEF Decoded
        <3> QED
            BY <1>1, <2>2, <3>1
    <2> QED
        BY <2>1, <2>2
<1>5. v \in View /\ view \in View
    BY <1>3, <1>4 DEF Good, Formed
<1>6. Bounded(v)
    BY <1>2, <1>4, <1>5, WithinBounded DEF ViewerInv
<1>7. owed' \in BOOLEAN
    BY DEF ViewerInv, Visits, Requested
<1>8. seeds' \subseteq [connection : 1 .. MaxConnections]
    <2>1. view.connection \in 1 .. MaxConnections
        BY <1>5, ViewFields, ViewerAssumption DEF ViewerInv, Bounded
    <2> QED
        BY <2>1 DEF ViewerInv, Visits
<1>9. server' \in Sending
    BY SentTypes DEF ViewerInv, Visits
<1>10. frames' \in 0 .. MaxFrames
    BY <1>1 DEF ViewerInv
<1> QED
    BY <1>4, <1>6, <1>7, <1>8, <1>9, <1>10

\* What is left of a read is kept: nothing else of the view changes.
LEMMA BufferGood ==
    ASSUME NEW top \in Nat, NEW v, Good(v, top), Bounded(v), NEW rest \in Nat,
           rest <= MaxConnections
    PROVE  /\ Good([v EXCEPT !.buffer = rest], top) /\ Bounded([v EXCEPT !.buffer = rest])
           /\ [v EXCEPT !.buffer = rest].canvas = v.canvas
<1> DEFINE w == [v EXCEPT !.buffer = rest]
<1>1. v \in View
    BY DEF Good, Formed
<1>2. /\ w \in View /\ w.stopped = v.stopped /\ w.connection = v.connection
      /\ w.reconnecting = v.reconnecting /\ w.timer = v.timer /\ w.decoding = v.decoding
      /\ w.presenter = v.presenter /\ w.canvas = v.canvas /\ w.givenUp = v.givenUp
      /\ w.config = v.config /\ w.buffer = rest /\ w.recoveries = v.recoveries
    BY <1>1 DEF View
<1> HIDE DEF w
<1>3. Good(w, top) /\ Bounded(w) /\ w.canvas = v.canvas
    BY <1>2 DEF Good, Formed, Paintable, Ordered, Bounded
<1> QED
    BY <1>3 DEF w

LEMMA ReadStep ==
    ASSUME ViewerInv, NEW kind \in Kind, NEW more \in BOOLEAN, Read(kind, more)
    PROVE  ViewerInv' /\ view'.canvas = view.canvas
<1> DEFINE rest == IF more THEN view.connection ELSE 0
<1>1. PICK v \in HandleChunk(view, kind, NextFrame) :
        /\ Visits(kind, v)
        /\ IF v.reconnecting THEN view' = v /\ net' = "visiting"
           ELSE view' = [v EXCEPT !.buffer = rest] /\ net' = net
    BY DEF Read
<1>2. /\ Good(v, frames') /\ Bounded(v) /\ Keeps(view, v)
      /\ frames' \in 0 .. MaxFrames /\ server' \in Sending /\ owed' \in BOOLEAN
      /\ seeds' \subseteq [connection : 1 .. MaxConnections]
    BY <1>1, VisitGood
<1>3. rest \in Nat /\ rest <= MaxConnections /\ frames' \in Nat
    <2>1. view.connection \in Nat /\ view.connection <= MaxConnections /\ MaxConnections \in Nat
        BY ViewFields, ViewerAssumption DEF ViewerInv, Good, Formed, Bounded
    <2> QED
        BY <1>2, <2>1, ViewerAssumption
<1> HIDE DEF rest
<1>4. view' = v \/ view' = [v EXCEPT !.buffer = rest]
    BY <1>1
<1>5. Good(view', frames') /\ Bounded(view') /\ view'.canvas = v.canvas
    <2> DEFINE top == frames'
               kept == [v EXCEPT !.buffer = rest]
    <2>1. top \in Nat /\ Good(v, top)
        BY <1>2, <1>3
    <2> HIDE DEF top
    <2>2. Good(kept, top) /\ Bounded(kept) /\ kept.canvas = v.canvas
        BY <1>2, <1>3, <2>1, BufferGood
    <2>3. view' = v \/ view' = kept
        BY <1>4
    <2> HIDE DEF kept
    <2>4. Good(view', top) /\ Bounded(view') /\ view'.canvas = v.canvas
        BY <1>2, <2>1, <2>2, <2>3
    <2> QED
        BY <2>4 DEF top
<1>6. net' \in Nets /\ v.canvas = view.canvas
    BY <1>1, <1>2 DEF ViewerInv, Keeps, Nets
<1> QED
    BY <1>2, <1>5, <1>6 DEF ViewerInv

LEMMA VisitRestStep ==
    ASSUME ViewerInv, NEW kind \in Kind, VisitRest(kind)
    PROVE  ViewerInv' /\ view'.canvas = view.canvas
<1>1. PICK v \in HandleChunk(view, kind, NextFrame) : Visits(kind, v) /\ view' = v
    BY DEF VisitRest
<1>2. /\ Good(v, frames') /\ Bounded(v) /\ Keeps(view, v)
      /\ frames' \in 0 .. MaxFrames /\ server' \in Sending /\ owed' \in BOOLEAN
      /\ seeds' \subseteq [connection : 1 .. MaxConnections]
    BY <1>1, VisitGood
<1>3. net' = net
    BY DEF VisitRest
<1> QED
    BY <1>1, <1>2, <1>3 DEF ViewerInv, Keeps

LEMMA VisitEndsStep ==
    ASSUME ViewerInv, NEW more \in BOOLEAN, VisitEnds(more)
    PROVE  ViewerInv' /\ view'.canvas = view.canvas
<1> DEFINE rest == IF more THEN view.givenUp ELSE 0
<1>1. view' = [view EXCEPT !.buffer = rest] /\ net' = "closed" /\ UNCHANGED <<server, frames, owed, seeds>>
    BY DEF VisitEnds
<1>2. Good(view, frames) /\ Bounded(view) /\ frames \in Nat /\ view \in View /\ MaxConnections \in Nat
    BY ViewerAssumption DEF ViewerInv, Good, Formed
<1>3. rest \in Nat /\ rest <= MaxConnections
    <2>1. /\ view.givenUp \in Nat /\ view.connection \in Nat /\ view.givenUp < view.connection
          /\ view.connection <= MaxConnections
        BY <1>2, ViewFields DEF Good, Paintable, Bounded
    <2> QED
        BY <1>2, <2>1
<1> HIDE DEF rest
<1>4. Good(view', frames) /\ Bounded(view') /\ view'.canvas = view.canvas
    BY <1>1, <1>2, <1>3, BufferGood
<1> QED
    BY <1>1, <1>4 DEF ViewerInv, Nets

LEMMA ReadPartStep ==
    ASSUME ViewerInv, ReadPart
    PROVE  ViewerInv' /\ view'.canvas = view.canvas
<1> DEFINE w == view'
           connection == view.connection
<1>1. view \in View /\ view.config <= view.connection /\ connection \in Nat /\ connection <= MaxConnections
    BY ViewFields DEF ViewerInv, Good, Formed, Bounded
<1>2. w = [view EXCEPT !.buffer = connection]
    BY DEF ReadPart
<1> HIDE DEF w, connection
<1>3. /\ w \in View /\ w.stopped = view.stopped /\ w.connection = view.connection
      /\ w.reconnecting = view.reconnecting /\ w.timer = view.timer /\ w.decoding = view.decoding
      /\ w.presenter = view.presenter /\ w.canvas = view.canvas /\ w.givenUp = view.givenUp
      /\ w.config = view.config /\ w.buffer = connection /\ w.recoveries = view.recoveries
    BY <1>1, <1>2 DEF View
<1>4. Good(w, frames) /\ Bounded(w) /\ w.canvas = view.canvas
    BY <1>1, <1>3 DEF ViewerInv, Good, Formed, Paintable, Ordered, Bounded
<1>5. Good(view', frames) /\ Bounded(view') /\ view'.canvas = view.canvas
    BY <1>4 DEF w
<1> QED
    BY <1>5 DEF ViewerInv, ReadPart

LEMMA ReadMisframedStep ==
    ASSUME ViewerInv, NEW kind \in Kind, ReadMisframed(kind)
    PROVE  ViewerInv' /\ view'.canvas = view.canvas
<1>1. server' \in Sending
    BY SentTypes DEF ViewerInv, ReadMisframed
<1>2. view' = view /\ net' = net /\ seeds' = seeds /\ frames' = frames /\ owed' \in BOOLEAN
    BY DEF ReadMisframed
<1> QED
    BY <1>1, <1>2 DEF ViewerInv

\* The timers: nothing that may be painted changes.
LEMMA TimersGood ==
    ASSUME NEW top \in Nat, NEW v, Good(v, top), NEW w \in View,
           w.reconnecting <=> w.timer = "reconnect", w.connection >= v.connection,
           w.decoding = v.decoding, w.presenter = v.presenter, w.canvas = v.canvas,
           w.givenUp = v.givenUp, w.config = v.config
    PROVE  Good(w, top)
<1>1. v \in View
    BY DEF Good, Formed
<1>2. /\ v.connection \in Nat /\ w.connection \in Nat /\ v.givenUp \in Nat /\ v.config \in Nat
      /\ v.canvas.connection \in Nat
      /\ v.decoding \in Seq(Item) /\ v.presenter.waiting \in Seq(Image)
    BY <1>1, ViewFields
<1>3. /\ \A i \in DOMAIN v.decoding : v.decoding[i].connection \in Nat
      /\ \A i \in DOMAIN v.presenter.waiting : v.presenter.waiting[i].connection \in Nat
    BY <1>2, ItemsOf, ImagesOf
<1>4. Formed(w)
    BY <1>2 DEF Good, Formed
<1>5. Paintable(w)
    BY <1>2, <1>3 DEF Good, Paintable
<1>6. Ordered(w, top)
    BY DEF Good, Ordered
<1> QED
    BY <1>4, <1>5, <1>6 DEF Good

LEMMA StreamEndsStep ==
    ASSUME ViewerInv, StreamEnds
    PROVE  ViewerInv' /\ view'.canvas = view.canvas
<1>1. view \in View /\ (view.reconnecting <=> view.timer = "reconnect") /\ Good(view, frames) /\ frames \in Nat
    BY ViewerAssumption DEF ViewerInv, Good, Formed
<1>2. view.connection \in Nat /\ view' = ScheduleRetry(view) /\ Within(view')
    BY <1>1, ViewFields DEF StreamEnds
<1>3. CASE view' = view
    BY <1>3 DEF ViewerInv, StreamEnds, Nets
<1>4. CASE view' # view
    <2> DEFINE w == view'
    <2>1. w = [view EXCEPT !.timer = "retry"] /\ view.timer = "none"
        BY <1>2, <1>4 DEF ScheduleRetry
    <2> HIDE DEF w
    <2>2. /\ w \in View /\ w.connection = view.connection /\ w.reconnecting = view.reconnecting
          /\ w.timer = "retry" /\ w.decoding = view.decoding
          /\ w.presenter = view.presenter /\ w.canvas = view.canvas /\ w.givenUp = view.givenUp
          /\ w.config = view.config /\ w.buffer = view.buffer /\ w.recoveries = view.recoveries
        BY <1>1, <2>1 DEF View
    <2>3. (w.reconnecting <=> w.timer = "reconnect") /\ w.connection >= view.connection
        BY <1>1, <1>2, <2>1, <2>2
    <2>4. Good(w, frames)
        BY <1>1, <2>2, <2>3, TimersGood
    <2>5. Within(w)
        BY <1>2 DEF w
    <2>6. Bounded(w)
        BY <2>2, <2>5 DEF ViewerInv, Bounded, Within
    <2>7. Good(view', frames) /\ Bounded(view') /\ view'.canvas = view.canvas
        BY <2>2, <2>4, <2>6 DEF w
    <2> QED
        BY <2>7 DEF ViewerInv, StreamEnds, Nets
<1> QED
    BY <1>3, <1>4

LEMMA TimerFiresStep ==
    ASSUME ViewerInv, TimerFires
    PROVE  ViewerInv' /\ view'.canvas = view.canvas
<1> DEFINE w == view'
           next == view.connection + 1
<1>1. view \in View /\ Good(view, frames) /\ frames \in Nat
    BY ViewerAssumption DEF ViewerInv, Good, Formed
<1>2. view.connection \in Nat \ {0} /\ next \in Nat \ {0} /\ next > view.connection /\ next <= MaxConnections
    BY <1>1, ViewFields, ViewerAssumption DEF ViewerInv, Bounded, TimerFires
<1>3. w = [view EXCEPT !.timer = "none", !.reconnecting = FALSE, !.connection = next]
    BY DEF TimerFires
<1> HIDE DEF w, next
<1>4. /\ w \in View /\ w.connection = next /\ w.reconnecting = FALSE
      /\ w.timer = "none" /\ w.decoding = view.decoding
      /\ w.presenter = view.presenter /\ w.canvas = view.canvas /\ w.givenUp = view.givenUp
      /\ w.config = view.config /\ w.buffer = view.buffer /\ w.recoveries = view.recoveries
    BY <1>1, <1>2, <1>3 DEF View
<1>5. (w.reconnecting <=> w.timer = "reconnect") /\ w.connection >= view.connection
    BY <1>2, <1>4
<1>6. Good(w, frames)
    BY <1>1, <1>4, <1>5, TimersGood
<1>7. Bounded(w)
    BY <1>2, <1>4 DEF ViewerInv, Bounded
<1>8. Good(view', frames) /\ Bounded(view') /\ view'.canvas = view.canvas
    BY <1>4, <1>6, <1>7 DEF w
<1>9. server' \in Sending /\ net' = "connecting"
    BY ViewerAssumption DEF TimerFires, NothingSent, Sending
<1> QED
    BY <1>8, <1>9 DEF ViewerInv, TimerFires, Nets

\* Reconnecting, by itself or because configure() threw.
LEMMA TroubleStep ==
    ASSUME ViewerInv, Good(view', frames), Keeps(view, view'), Within(view'),
           net' \in Nets, owed' \in BOOLEAN,
           UNCHANGED <<server, frames, seeds>>
    PROVE  ViewerInv' /\ view'.canvas = view.canvas
<1>1. view' \in View
    BY DEF Good, Formed
<1>2. Bounded(view')
    BY <1>1, WithinBounded DEF ViewerInv
<1> QED
    BY <1>2 DEF ViewerInv, Keeps

LEMMA DecoderErrorStep ==
    ASSUME ViewerInv, DecoderError
    PROVE  ViewerInv' /\ view'.canvas = view.canvas
<1>1. frames \in Nat /\ Good(view, frames) /\ view' = Reconnect(view)
    BY ViewerAssumption DEF ViewerInv, DecoderError
<1>2. Good(view', frames) /\ Keeps(view, view')
    BY <1>1, ReconnectGood
<1>3. net' \in Nets /\ owed' \in BOOLEAN
    BY DEF ViewerInv, Nets, DecoderError
<1> QED
    BY <1>2, <1>3, TroubleStep DEF DecoderError

LEMMA SilenceStep ==
    ASSUME ViewerInv, Silence
    PROVE  ViewerInv' /\ view'.canvas = view.canvas
<1>1. frames \in Nat /\ Good(view, frames) /\ view' = Reconnect(view)
    BY ViewerAssumption DEF ViewerInv, Silence
<1>2. Good(view', frames) /\ Keeps(view, view')
    BY <1>1, ReconnectGood
<1>3. net' \in Nets /\ owed' \in BOOLEAN
    BY DEF ViewerInv, Nets, Silence
<1> QED
    BY <1>2, <1>3, TroubleStep DEF Silence

LEMMA StallStep ==
    ASSUME ViewerInv, Stall
    PROVE  ViewerInv' /\ view'.canvas = view.canvas
<1>1. frames \in Nat /\ Good(view, frames) /\ view' \in ResetDecoderForKeyframe(view)
    BY ViewerAssumption DEF ViewerInv, Stall
<1>2. Good(view', frames) /\ Keeps(view, view')
    BY <1>1, ResetGood
<1>3. net' \in Nets /\ owed' \in BOOLEAN
    BY DEF ViewerInv, Nets, Stall, Requested
<1> QED
    BY <1>2, <1>3, TroubleStep DEF Stall

\* A step that paints, with everything else of the view as it was.
LEMMA PaintStep ==
    ASSUME ViewerInv, NEW v, v.connection = view.connection, v.timer = view.timer,
           v.recoveries = view.recoveries, v.buffer = view.buffer,
           Good(view', frames), Around(v, view'), seeds' \subseteq seeds,
           UNCHANGED <<net, server, frames, owed>>
    PROVE  ViewerInv'
<1>1. Bounded(view')
    BY DEF ViewerInv, Bounded, Around
<1> QED
    BY <1>1 DEF ViewerInv

LEMMA OutputStep ==
    ASSUME ViewerInv, Output
    PROVE  ViewerInv' /\ Painted(view, view')
<1> DEFINE frame == Head(view.decoding)
           rest == [view EXCEPT !.decoding = Tail(view.decoding)]
           shown == [connection |-> frame.connection, n |-> frame.n]
           live == ~view.stopped /\ frame.live
<1>1. /\ frames \in Nat /\ Good(view, frames) /\ view.decoding # <<>>
      /\ UNCHANGED <<net, server, frames, owed, seeds>>
    BY ViewerAssumption DEF ViewerInv, Output
<1>2. view' = IF live THEN Present(rest, shown) ELSE rest
    BY DEF Output
<1>3. rest = [view EXCEPT !.decoding = Tail(view.decoding)]
    OBVIOUS
<1> HIDE DEF rest
<1>4. /\ Good(rest, frames) /\ rest.canvas = view.canvas /\ rest.connection = view.connection
      /\ rest.timer = view.timer /\ rest.givenUp = view.givenUp /\ rest.presenter = view.presenter
      /\ rest.recoveries = view.recoveries /\ rest.buffer = view.buffer
      /\ \A i \in DOMAIN rest.decoding : frame.n <= rest.decoding[i].n
      /\ frame \in Item /\ frame.n <= frames /\ view.canvas.n <= frame.n
      /\ \A i \in DOMAIN view.presenter.waiting : view.presenter.waiting[i].n <= frame.n
      /\ frame.connection <= view.connection
      /\ frame.live => frame.connection > view.givenUp
    <2>1. /\ Good(rest, frames) /\ rest.canvas = view.canvas /\ rest.connection = view.connection
          /\ rest.timer = view.timer /\ rest.givenUp = view.givenUp /\ rest.presenter = view.presenter
          /\ rest.stopped = view.stopped /\ rest.recoveries = view.recoveries /\ rest.buffer = view.buffer
          /\ \A i \in DOMAIN rest.decoding : Head(view.decoding).n <= rest.decoding[i].n
          /\ Head(view.decoding) \in Item
          /\ Head(view.decoding).n <= frames /\ view.canvas.n <= Head(view.decoding).n
          /\ \A i \in DOMAIN view.presenter.waiting : view.presenter.waiting[i].n <= Head(view.decoding).n
          /\ Head(view.decoding).connection <= view.connection
          /\ Head(view.decoding).live => Head(view.decoding).connection > view.givenUp
        <3> HIDE DEF frame
        <3>1. frames \in Nat /\ Good(view, frames) /\ view.decoding # <<>>
            BY <1>1
        <3> QED
            BY <3>1, <1>3, OutputGood, ZenonT(60)
    <2> QED
        BY <2>1
<1> HIDE DEF frame
<1>5. CASE live
    <2>1. shown \in Image /\ shown.connection = frame.connection /\ shown.n = frame.n
        BY <1>4 DEF Item, Image
    <2> HIDE DEF shown
    <2>2. /\ shown.connection <= rest.connection /\ shown.connection > rest.givenUp
          /\ shown.n <= frames /\ rest.canvas.n <= shown.n
          /\ \A i \in DOMAIN rest.decoding : shown.n <= rest.decoding[i].n
          /\ \A i \in DOMAIN rest.presenter.waiting : rest.presenter.waiting[i].n <= shown.n
        BY <1>4, <1>5, <2>1
    <2>3. /\ Good(Present(rest, shown), frames) /\ Around(rest, Present(rest, shown))
          /\ Present(rest, shown).canvas \in {rest.canvas, shown}
        BY <1>1, <1>4, <2>1, <2>2, PresentGood
    <2>4. view' = Present(rest, shown)
        BY <1>2, <1>5 DEF shown
    <2>5. Good(view', frames) /\ Around(rest, view') /\ view'.canvas \in {view.canvas, shown}
        BY <1>4, <2>3, <2>4
    <2>6. ViewerInv'
        BY <1>1, <1>4, <2>5, PaintStep
    <2>7. Painted(view, view')
        BY <1>4, <2>2, <2>5 DEF Painted
    <2> QED
        BY <2>6, <2>7
<1>6. CASE ~live
    <2>1. view' = rest
        BY <1>2, <1>6
    <2>2. Around(rest, rest)
        BY DEF Around
    <2>3. ViewerInv'
        BY <1>1, <1>4, <2>1, <2>2, PaintStep
    <2> QED
        BY <1>4, <2>1, <2>3 DEF Painted
<1> QED
    BY <1>5, <1>6

LEMMA SeedDecodedStep ==
    ASSUME ViewerInv, NEW seed \in seeds, SeedDecoded(seed)
    PROVE  ViewerInv' /\ Painted(view, view')
<1> DEFINE picture == [connection |-> seed.connection, n |-> 0]
<1>1. /\ frames \in Nat /\ Good(view, frames) /\ seeds' \subseteq seeds
      /\ UNCHANGED <<net, server, frames, owed>> /\ view \in View
      /\ view' = IF SeedPaints(seed) THEN Paint(view, picture) ELSE view
    BY ViewerAssumption DEF ViewerInv, SeedDecoded, Good, Formed
<1>2. CASE SeedPaints(seed)
    <2>1. view.connection \in Nat \ {0} /\ view.decoding \in Seq(Item) /\ view.presenter.waiting \in Seq(Image)
        BY <1>1, ViewFields
    <2>2. /\ \A i \in DOMAIN view.decoding : view.decoding[i].n \in Nat
          /\ \A i \in DOMAIN view.presenter.waiting : view.presenter.waiting[i].n \in Nat
        BY <2>1, ItemsOf, ImagesOf
    <2>3. picture \in Image /\ picture.connection = view.connection /\ picture.n = 0
        BY <1>2, <2>1 DEF SeedPaints, Image
    <2> HIDE DEF picture
    <2>4. /\ picture.connection <= view.connection /\ picture.n <= frames
          /\ \A i \in DOMAIN view.decoding : picture.n <= view.decoding[i].n
          /\ \A i \in DOMAIN view.presenter.waiting : picture.n <= view.presenter.waiting[i].n
        BY <1>1, <2>1, <2>2, <2>3
    <2>5. /\ Good(Paint(view, picture), frames) /\ Around(view, Paint(view, picture))
          /\ Paint(view, picture).canvas \in {view.canvas, picture}
        BY <1>1, <2>3, <2>4, PaintGood
    <2>6. Good(view', frames) /\ Around(view, view') /\ view'.canvas \in {view.canvas, picture}
        BY <1>1, <1>2, <2>5
    <2>7. ViewerInv'
        BY <1>1, <2>6, PaintStep
    <2>8. picture.connection > view.givenUp
        BY <1>1, <2>3 DEF Good, Paintable
    <2>9. Painted(view, view')
        BY <2>3, <2>6, <2>8 DEF Painted
    <2> QED
        BY <2>7, <2>9
<1>3. CASE ~SeedPaints(seed)
    <2>1. view' = view
        BY <1>1, <1>3
    <2>2. Around(view, view)
        BY DEF Around
    <2>3. ViewerInv'
        BY <1>1, <2>1, <2>2, PaintStep
    <2> QED
        BY <2>1, <2>3 DEF Painted
<1> QED
    BY <1>2, <1>3

LEMMA TickStep ==
    ASSUME ViewerInv, Tick
    PROVE  ViewerInv' /\ Painted(view, view')
<1> DEFINE p == view.presenter
           ticked == [view EXCEPT !.presenter = Ticked(p)]
           w == IF DrawsAtTick(p) THEN Paint(ticked, Head(p.waiting)) ELSE ticked
<1>1. frames \in Nat /\ Good(view, frames) /\ UNCHANGED <<net, server, frames, owed, seeds>> /\ view' = w
    BY ViewerAssumption DEF ViewerInv, Tick
<1>2. /\ Good(w, frames) /\ Around(view, w)
      /\ \/ w.canvas = view.canvas
         \/ w.canvas.connection > view.givenUp /\ view.canvas.n <= w.canvas.n
    BY <1>1, TickGood
<1> HIDE DEF w
<1>3. Good(view', frames) /\ Around(view, view') /\ Painted(view, view')
    BY <1>1, <1>2 DEF Painted
<1>4. ViewerInv'
    BY <1>1, <1>3, PaintStep
<1> QED
    BY <1>3, <1>4

LEMMA RequestKeyframeStep ==
    ASSUME ViewerInv, RequestKeyframe
    PROVE  ViewerInv' /\ view'.canvas = view.canvas
BY DEF ViewerInv, RequestKeyframe

LEMMA UnmountStep ==
    ASSUME ViewerInv, Unmount
    PROVE  ViewerInv' /\ view'.canvas = view.canvas
<1> DEFINE u == CloseDecoder(view)
           p == Closed(u.presenter)
           w == view'
<1>1. frames \in Nat /\ Good(view, frames)
    BY ViewerAssumption DEF ViewerInv
<1>2. /\ Good(u, frames) /\ Keeps(view, u) /\ u.connection = view.connection
      /\ u.presenter.waiting = <<>>
    BY <1>1, CloseGood
<1>3. u \in View /\ u.presenter \in PresenterOf(Image) /\ view.buffer \in Nat /\ view.connection \in Nat
    BY <1>1, <1>2, ViewFields DEF Good, Formed
<1>4. w = [u EXCEPT !.stopped = TRUE, !.timer = "none", !.reconnecting = FALSE, !.buffer = 0, !.presenter = p]
    <2> DEFINE closed == [u EXCEPT !.stopped = TRUE, !.timer = "none", !.reconnecting = FALSE, !.buffer = 0]
    <2>1. w = [closed EXCEPT !.presenter = Closed(closed.presenter)]
        BY DEF Unmount
    <2>2. closed.presenter = u.presenter
        BY <1>3 DEF View
    <2> QED
        BY <2>1, <2>2
<1>5. p \in PresenterOf(Image) /\ p.waiting = u.presenter.waiting
    <2> DEFINE none == <<>>
    <2>1. none \in Seq(Image) /\ p = [u.presenter EXCEPT !.waiting = none, !.scheduled = FALSE, !.stopped = TRUE]
        BY DEF Closed
    <2>2. u.presenter \in [waiting : Seq(Image), drawn : BOOLEAN, scheduled : BOOLEAN, stopped : BOOLEAN]
        BY <1>3 DEF PresenterOf
    <2>3. u.presenter.waiting = none
        BY <1>2
    <2> HIDE DEF none, p, u
    <2> QED
        BY <2>1, <2>2, <2>3 DEF PresenterOf
<1> HIDE DEF u, p, w
<1>6. /\ w \in View /\ w.stopped = TRUE /\ w.timer = "none" /\ w.reconnecting = FALSE /\ w.buffer = 0
      /\ w.connection = u.connection /\ w.config = u.config /\ w.decoding = u.decoding
      /\ w.presenter = p /\ w.canvas = u.canvas /\ w.givenUp = u.givenUp /\ w.recoveries = u.recoveries
    BY <1>3, <1>4, <1>5 DEF View
<1>7. Formed(w)
    BY <1>2, <1>5, <1>6 DEF Good, Formed
<1>8. Paintable(w)
    BY <1>2, <1>5, <1>6 DEF Good, Paintable
<1>9. Ordered(w, frames)
    BY <1>2, <1>5, <1>6 DEF Good, Ordered
<1>10. u.recoveries = view.recoveries
    <2>1. view \in View
        BY <1>1 DEF Good, Formed
    <2> QED
        BY <2>1 DEF u, CloseDecoder, View
<1>11. Bounded(w)
    BY <1>2, <1>6, <1>10, ViewerAssumption DEF ViewerInv, Bounded
<1>12. Good(view', frames) /\ Bounded(view') /\ view'.canvas = view.canvas
    BY <1>2, <1>6, <1>7, <1>8, <1>9, <1>11 DEF Good, Keeps, w
<1> QED
    BY <1>12 DEF ViewerInv, Unmount, Nets

LEMMA ViewerInit == Init => ViewerInv
<1> SUFFICES ASSUME Init PROVE ViewerInv
    OBVIOUS
<1> DEFINE none == <<>>
           presenter == NewPresenter
<1>1. none \in Seq(Item) /\ none \in Seq(Image) /\ DOMAIN none = {} /\ Len(none) = 0
    OBVIOUS
<1>2. presenter = [waiting |-> none, drawn |-> FALSE, scheduled |-> FALSE, stopped |-> FALSE]
    BY DEF NewPresenter
<1>3. Blank \in Image /\ Blank.n = 0 /\ Blank.connection = 0
    BY DEF Blank, Image
<1>4. view = [stopped |-> FALSE, painted |-> FALSE, awaiting |-> TRUE,
              configured |-> FALSE, config |-> 0, connection |-> 1,
              reconnecting |-> FALSE, timer |-> "none",
              recoveries |-> 0, buffer |-> 0, decoding |-> none,
              presenter |-> presenter, canvas |-> Blank, givenUp |-> 0]
    BY DEF Init, InitView
<1> HIDE DEF none, presenter
<1>5. presenter \in PresenterOf(Image) /\ presenter.waiting = none
    BY <1>1, <1>2 DEF PresenterOf
<1>6. /\ view \in View /\ view.decoding = none /\ view.presenter = presenter /\ view.canvas = Blank
      /\ view.connection = 1 /\ view.recoveries = 0 /\ view.buffer = 0 /\ view.timer = "none"
      /\ view.reconnecting = FALSE /\ view.config = 0 /\ view.givenUp = 0
    BY <1>1, <1>3, <1>4, <1>5 DEF View
<1>7. Formed(view)
    BY <1>1, <1>5, <1>6, PresenterAssumption DEF Formed
<1>8. Paintable(view)
    BY <1>1, <1>3, <1>5, <1>6 DEF Paintable
<1>9. Ordered(view, 0)
    BY <1>1, <1>3, <1>5, <1>6 DEF Ordered
<1>10. Bounded(view)
    BY <1>6, ViewerAssumption DEF Bounded
<1>11. /\ net = "connecting" /\ frames = 0 /\ owed = FALSE /\ seeds = {} /\ 0 \in 0 .. MaxFrames
       /\ server \in Sending
    BY ViewerAssumption DEF Init, NothingSent, Sending
<1> QED
    BY <1>7, <1>8, <1>9, <1>10, <1>11 DEF ViewerInv, Good, Nets

\* Every step keeps the invariant, and paints only what is due.
LEMMA ViewerStep ==
    ASSUME ViewerInv, [Next]_vars
    PROVE  ViewerInv' /\ Painted(view, view')
<1>1. ASSUME NEW kind \in Kind, NEW more \in BOOLEAN, Read(kind, more)
      PROVE  ViewerInv' /\ Painted(view, view')
    BY <1>1, ReadStep DEF Painted
<1>2. CASE ReadPart
    BY <1>2, ReadPartStep DEF Painted
<1>3. ASSUME NEW kind \in Kind, ReadMisframed(kind)
      PROVE  ViewerInv' /\ Painted(view, view')
    BY <1>3, ReadMisframedStep DEF Painted
<1>4. CASE Connects
    BY <1>4 DEF Connects, ViewerInv, Painted, Nets
<1>16. ASSUME NEW kind \in Kind, VisitRest(kind)
       PROVE  ViewerInv' /\ Painted(view, view')
    BY <1>16, VisitRestStep DEF Painted
<1>17. ASSUME NEW more \in BOOLEAN, VisitEnds(more)
       PROVE  ViewerInv' /\ Painted(view, view')
    BY <1>17, VisitEndsStep DEF Painted
<1>5. CASE StreamEnds
    BY <1>5, StreamEndsStep DEF Painted
<1>6. CASE TimerFires
    BY <1>6, TimerFiresStep DEF Painted
<1>7. CASE Output
    BY <1>7, OutputStep
<1>8. CASE DecoderError
    BY <1>8, DecoderErrorStep DEF Painted
<1>9. ASSUME NEW seed \in seeds, SeedDecoded(seed)
      PROVE  ViewerInv' /\ Painted(view, view')
    BY <1>9, SeedDecodedStep
<1>10. CASE Tick
    BY <1>10, TickStep
<1>11. CASE Silence
    BY <1>11, SilenceStep DEF Painted
<1>12. CASE Stall
    BY <1>12, StallStep DEF Painted
<1>13. CASE RequestKeyframe
    BY <1>13, RequestKeyframeStep DEF Painted
<1>14. CASE Unmount
    BY <1>14, UnmountStep DEF Painted
<1>15. CASE UNCHANGED vars
    BY <1>15 DEF vars, ViewerInv, Painted
<1> QED
    BY <1>1, <1>2, <1>3, <1>4, <1>5, <1>6, <1>7, <1>8, <1>9, <1>10, <1>11, <1>12, <1>13, <1>14, <1>15,
       <1>16, <1>17
    DEF Next

LEMMA ViewerInvariant == Spec => []ViewerInv
<1>1. Init => ViewerInv
    BY ViewerInit
<1>2. ViewerInv /\ [Next]_vars => ViewerInv'
    BY ViewerStep
<1> QED
    BY <1>1, <1>2, PTL DEF Spec

-----------------------------------------------------------------------------
(* The theorems.                                                            *)

LEMMA SeqRetyped ==
    ASSUME NEW S, NEW T, NEW s \in Seq(S), \A i \in DOMAIN s : s[i] \in T
    PROVE  s \in Seq(T)
<1>1. Len(s) \in Nat /\ DOMAIN s = 1 .. Len(s) /\ s = [i \in 1 .. Len(s) |-> s[i]]
    OBVIOUS
<1>2. [i \in 1 .. Len(s) |-> s[i]] \in Seq(T)
    BY <1>1, IsASeq
<1> QED
    BY <1>1, <1>2

LEMMA ViewerInvTypes == ViewerInv => TypeOK
<1> SUFFICES ASSUME ViewerInv PROVE TypeOK
    OBVIOUS
<1>1. /\ view \in View /\ (view.reconnecting <=> view.timer = "reconnect")
      /\ Len(view.presenter.waiting) <= MaxWaiting /\ view.config <= view.connection
      /\ Paintable(view) /\ Ordered(view, frames) /\ Bounded(view)
      /\ frames \in Nat /\ frames <= MaxFrames /\ MaxFrames \in Nat /\ MaxConnections \in Nat
      /\ MaxRecoveries \in Nat
    BY ViewerAssumption DEF ViewerInv, Good, Formed
<1>2. /\ view.connection \in Nat \ {0} /\ view.recoveries \in Nat /\ view.config \in Nat /\ view.buffer \in Nat
      /\ view.givenUp \in Nat /\ view.canvas \in Image /\ view.canvas.connection \in Nat /\ view.canvas.n \in Nat
      /\ view.decoding \in Seq(Item) /\ view.presenter \in PresenterOf(Image)
      /\ view.presenter.waiting \in Seq(Image)
    BY <1>1, ViewFields
<1>3. /\ view.connection \in 1 .. MaxConnections /\ view.recoveries \in 0 .. MaxRecoveries
      /\ view.config \in 0 .. MaxConnections /\ view.buffer \in 0 .. MaxConnections
      /\ view.givenUp \in 0 .. MaxConnections
    BY <1>1, <1>2 DEF Bounded, Paintable
<1>8. /\ view.connection \in Nat /\ MaxConnections \in Nat /\ frames \in Nat /\ MaxFrames \in Nat
      /\ view.connection <= MaxConnections /\ frames <= MaxFrames
    BY <1>1, <1>2, <1>3
<1>4. view.canvas \in Picture
    <2>1. view.canvas.connection \in 0 .. MaxConnections /\ view.canvas.n \in 0 .. MaxFrames
        BY <1>1, <1>2, <1>3 DEF Paintable, Ordered
    <2> QED
        BY <1>2, <2>1 DEF Image, Picture
<1>5. view.decoding \in Seq(Decoding)
    <2> DEFINE s == view.decoding
    <2>1. \A i \in DOMAIN s : s[i] \in Decoding
        <3> SUFFICES ASSUME NEW i \in DOMAIN s PROVE s[i] \in Decoding
            OBVIOUS
        <3>1. /\ s[i] \in Item /\ s[i].connection \in Nat \ {0} /\ s[i].n \in Nat \ {0}
              /\ s[i].connection <= view.connection /\ s[i].n <= frames
            BY <1>1, <1>2, ItemsOf DEF Paintable, Ordered
        <3> DEFINE c == s[i].connection
                   n == s[i].n
        <3>4. c \in Nat /\ n \in Nat /\ c <= view.connection /\ n <= frames
            BY <3>1
        <3> HIDE DEF c, n
        <3>2. c \in 0 .. MaxConnections /\ n \in 0 .. MaxFrames
            BY <1>8, <3>4
        <3> USE DEF c, n
        <3>3. s[i].connection \in 1 .. MaxConnections /\ s[i].n \in 1 .. MaxFrames
            BY <3>1, <3>2
        <3> QED
            BY <3>1, <3>3 DEF Item, Decoding
    <2>2. s \in Seq(Item)
        BY <1>2
    <2> HIDE DEF s
    <2>3. s \in Seq(Decoding)
        BY <2>1, <2>2, SeqRetyped
    <2> QED
        BY <2>3 DEF s
<1>6. view.presenter \in PresenterOf(Picture)
    <2> DEFINE s == view.presenter.waiting
    <2>1. \A i \in DOMAIN s : s[i] \in Picture
        <3> SUFFICES ASSUME NEW i \in DOMAIN s PROVE s[i] \in Picture
            OBVIOUS
        <3>1. /\ s[i] \in Image /\ s[i].connection \in Nat /\ s[i].n \in Nat
              /\ s[i].connection <= view.connection /\ s[i].n <= frames
            BY <1>1, <1>2, ImagesOf DEF Paintable, Ordered
        <3> DEFINE c == s[i].connection
                   n == s[i].n
        <3>4. c \in Nat /\ n \in Nat /\ c <= view.connection /\ n <= frames
            BY <3>1
        <3> HIDE DEF c, n
        <3>2. c \in 0 .. MaxConnections /\ n \in 0 .. MaxFrames
            BY <1>8, <3>4
        <3> USE DEF c, n
        <3> QED
            BY <3>1, <3>2 DEF Image, Picture
    <2>4. s \in Seq(Image)
        BY <1>2
    <2> HIDE DEF s
    <2>2. s \in Seq(Picture)
        BY <2>1, <2>4, SeqRetyped
    <2>3. view.presenter \in [waiting : Seq(Image), drawn : BOOLEAN, scheduled : BOOLEAN, stopped : BOOLEAN]
          /\ view.presenter.waiting = s
        BY <1>2 DEF PresenterOf, s
    <2> QED
        BY <2>2, <2>3 DEF PresenterOf
<1>7. view \in [stopped : BOOLEAN, painted : BOOLEAN, awaiting : BOOLEAN,
                configured : BOOLEAN, config : 0 .. MaxConnections,
                connection : 1 .. MaxConnections,
                reconnecting : BOOLEAN, timer : {"none", "retry", "reconnect"},
                recoveries : 0 .. MaxRecoveries, buffer : 0 .. MaxConnections,
                decoding : Seq(Decoding), presenter : PresenterOf(Picture),
                canvas : Picture, givenUp : 0 .. MaxConnections]
    BY <1>1, <1>3, <1>4, <1>5, <1>6 DEF View
<1> QED
    BY <1>1, <1>7 DEF ViewerInv, TypeOK, Nets, Sending

\* Every variable keeps its type, and what is inside the decoders and the
\* presenter is of a connection there was and of a frame that was decoded.
THEOREM ViewerTypes == Spec => []TypeOK
<1>1. Spec => []ViewerInv
    BY ViewerInvariant
<1>2. ViewerInv => TypeOK
    BY ViewerInvTypes
<1> QED
    BY <1>1, <1>2, PTL

\* The canvas changes only to a picture handled since the last reconnect():
\* no late output of an old decoder, no frame that waited for its tick, no
\* delayed seed is painted over what follows, also when the rest of the read
\* that was given up is visited and configures another decoder
\* (use-avcc-stream.ts, decoderGeneration and connectionGeneration).
THEOREM NothingOutlives == Spec => NothingOutlivesReconnect
<1>1. Spec => []ViewerInv
    BY ViewerInvariant
<1>2. ViewerInv /\ [Next]_vars => [view'.canvas # view.canvas => view'.canvas.connection > view.givenUp]_vars
    <2> SUFFICES ASSUME ViewerInv, [Next]_vars, view'.canvas # view.canvas
                 PROVE  view'.canvas.connection > view.givenUp
        OBVIOUS
    <2> QED
        BY ViewerStep DEF Painted
<1> QED
    BY <1>1, <1>2, PTL DEF Spec, NothingOutlivesReconnect

\* Video is painted in the order it was encoded, whatever resets,
\* reconnections and dropped frames come between (frame-presenter.ts).
THEOREM VideoPaintedInOrder == Spec => VideoInOrder
<1>1. Spec => []ViewerInv
    BY ViewerInvariant
<1>2. ViewerInv /\ [Next]_vars => [view'.canvas.n > 0 => view'.canvas.n >= view.canvas.n]_vars
    <2> SUFFICES ASSUME ViewerInv, [Next]_vars, view'.canvas.n > 0
                 PROVE  view'.canvas.n >= view.canvas.n
        OBVIOUS
    <2>1. view.canvas.n \in Nat
        BY ViewFields DEF ViewerInv, Good, Formed
    <2> QED
        BY <2>1, ViewerStep DEF Painted
<1> QED
    BY <1>1, <1>2, PTL DEF Spec, VideoInOrder
============================================================================
