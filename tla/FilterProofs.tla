----------------------------- MODULE FilterProofs -----------------------------
(***************************************************************************)
(* What filters do to any datagram, for all keys, lengths and stacks of    *)
(* layers: one filter, what it does to the sizes the layers remember, a    *)
(* whole chain, by induction over its length, and the tunnel of two        *)
(* forwarders with mirrored chains.                                        *)
(***************************************************************************)
EXTENDS FilterTunnel, SequenceTheorems, RecursionFacts, TLAPS

AesLayer == [kind: {"aes"}, key: Keys, size: Nat, whole: BOOLEAN]
Mask == Keys \X ({"none"} \cup HeapBytes)
XorLayer == [kind: {"xor"}, masks: (SUBSET Mask) \ {{}}]

\* Datagrams as conversions produce them: neighbouring XOR layers are one.
Stack == Seq(AesLayer \cup XorLayer)
Merged(s) == \A i \in 1 .. Len(s) - 1 : ~(s[i].kind = "xor" /\ s[i + 1].kind = "xor")
Datagram ==
    {d \in [size: Nat, intact: BOOLEAN, layers: Stack] : Merged(d.layers)}

------------------------------------------------------------------------------
\* get_padded_encrypted_size always adds between 1 and 16 bytes and ends at
\* a block boundary, also for a length that is a multiple of the block.
LEMMA PaddedSize ==
    ASSUME NEW n \in Nat
    PROVE  /\ get_padded_encrypted_size(n) \in Nat
           /\ get_padded_encrypted_size(n) % kStateSize = 0
           /\ n < get_padded_encrypted_size(n)
           /\ get_padded_encrypted_size(n) <= n + kStateSize
  BY SMT DEF get_padded_encrypted_size, kStateSize

\* The length AESFilter::convertBackward cuts its result to: the padding is
\* removed, or ignored when it is longer than the datagram.
LEMMA SubstrLength ==
    ASSUME NEW size \in Nat, NEW padded \in Nat, padded < 256
    PROVE  substr(size, padded) = IF padded <= size THEN size - padded ELSE size
  BY FiltersAssumption, SMT DEF substr, FiltersAssumption, DGRAM_BUFFER_SIZE

\* Putting a layer on top of a stack.
LEMMA Push ==
    ASSUME NEW S, NEW x \in S, NEW s \in Seq(S)
    PROVE  /\ <<x>> \o s \in Seq(S)
           /\ <<x>> \o s # <<>>
           /\ (<<x>> \o s)[1] = x
           /\ Tail(<<x>> \o s) = s
           /\ Len(<<x>> \o s) = Len(s) + 1
           /\ \A i \in 1 .. Len(s) : (<<x>> \o s)[i + 1] = s[i]
  OBVIOUS

\* A layer on top of a stack, and a stack without its top.
LEMMA MergedPush ==
    ASSUME NEW s \in Stack, Merged(s), NEW x \in AesLayer \cup XorLayer,
           x.kind = "xor" => ~IsCovered(s)
    PROVE  <<x>> \o s \in Stack /\ Merged(<<x>> \o s)
  <1> DEFINE t == <<x>> \o s
  <1>1. /\ t \in Stack /\ t[1] = x /\ Len(t) = Len(s) + 1 /\ Len(s) \in Nat
        /\ \A i \in 1 .. Len(s) : t[i + 1] = s[i]
    BY Push DEF Stack
  <1> HIDE DEF t
  <1>2. ASSUME NEW i \in 1 .. Len(t) - 1
        PROVE  ~(t[i].kind = "xor" /\ t[i + 1].kind = "xor")
    <2>1. CASE i = 1
      <3>1. s # <<>> /\ t[i + 1] = s[1]
        <4>1. 1 \in 1 .. Len(s)
          BY <1>1, <2>1
        <4> QED BY <1>1, <2>1, <4>1
      <3> QED BY <1>1, <2>1, <3>1 DEF IsCovered
    <2>2. CASE i # 1
      <3>1. i - 1 \in 1 .. Len(s) - 1 /\ i - 1 \in 1 .. Len(s) /\ i \in 1 .. Len(s)
            /\ (i - 1) + 1 = i
        BY <1>1, <2>2
      <3>2. t[i] = s[i - 1] /\ t[i + 1] = s[i]
        BY <1>1, <3>1
      <3> QED BY <3>1, <3>2 DEF Merged
    <2> QED BY <2>1, <2>2
  <1>3. Merged(t)
    BY <1>2 DEF Merged
  <1> QED BY <1>1, <1>3 DEF t

LEMMA MergedPop ==
    ASSUME NEW s \in Stack, Merged(s), s # <<>>
    PROVE  Tail(s) \in Stack /\ Merged(Tail(s))
  <1> DEFINE t == Tail(s)
  <1>1. /\ t \in Stack /\ Len(s) \in Nat \ {0} /\ Len(t) = Len(s) - 1
        /\ \A i \in 1 .. Len(s) - 1 : t[i] = s[i + 1]
    BY DEF Stack
  <1> HIDE DEF t
  <1>2. ASSUME NEW i \in 1 .. Len(t) - 1
        PROVE  ~(t[i].kind = "xor" /\ t[i + 1].kind = "xor")
    <2>1. i + 1 \in 1 .. Len(s) - 1 /\ i \in 1 .. Len(s) - 1
      BY <1>1
    <2>2. t[i] = s[i + 1] /\ t[i + 1] = s[(i + 1) + 1]
      BY <1>1, <2>1
    <2> QED BY <2>1, <2>2 DEF Merged
  <1>3. Merged(t)
    BY <1>2 DEF Merged
  <1> QED BY <1>1, <1>3 DEF t

\* AESFilter::convertBackward undoes convertForward with the same key, for
\* every length, also zero and multiples of the block.
THEOREM AesUndone ==
    ASSUME NEW f \in Filter, NEW d \in Datagram
    PROVE  Decrypt(f, Encrypt(f, d)) = {d}
  <1> DEFINE layer == [kind |-> "aes", key |-> f.key, size |-> d.size, whole |-> TRUE]
             e == Encrypt(f, d)
  <1>1. d \in [size: Nat, intact: BOOLEAN, layers: Seq(AesLayer \cup XorLayer)]
    BY DEF Datagram, Stack
  <1>2. layer \in AesLayer \cup XorLayer
    BY <1>1 DEF AesLayer, Filter
  <1>3. /\ e = [size |-> get_padded_encrypted_size(d.size), intact |-> d.intact,
                layers |-> <<layer>> \o d.layers]
    BY <1>1 DEF Encrypt
  <1>4. /\ e.layers # <<>> /\ e.layers[1] = layer /\ Tail(e.layers) = d.layers
    BY <1>1, <1>2, <1>3, Push
  <1>5. /\ e.size % kStateSize = 0 /\ e.size # 0
        /\ e.size \in Nat /\ d.size \in Nat
        /\ d.size < e.size /\ e.size <= d.size + 16
    <2>1. d.size \in Nat /\ e.size = get_padded_encrypted_size(d.size)
      BY <1>1, <1>3
    <2>2. /\ get_padded_encrypted_size(d.size) \in Nat
          /\ get_padded_encrypted_size(d.size) % kStateSize = 0
          /\ d.size < get_padded_encrypted_size(d.size)
          /\ get_padded_encrypted_size(d.size) <= d.size + kStateSize
      BY <2>1, PaddedSize
    <2> HIDE DEF e
    <2> QED BY <2>1, <2>2 DEF kStateSize
  <1>6. Decryptable(f, e)
    BY <1>4 DEF Decryptable
  <1>7. Decrypt(f, e) =
            {[size |-> substr(e.size, e.size - e.layers[1].size),
              intact |-> e.intact, layers |-> Tail(e.layers)]}
    BY <1>5, <1>6 DEF Decrypt
  <1>8. substr(e.size, e.size - d.size) = d.size
    <2>1. e.size - d.size \in Nat /\ e.size - d.size < 256 /\ e.size - d.size <= e.size
      BY <1>5, SMT
    <2>2. substr(e.size, e.size - d.size) = e.size - (e.size - d.size)
      BY <1>5, <2>1, SubstrLength
    <2> QED BY <1>5, <2>2, SMT
  <1>9. [size |-> substr(e.size, e.size - e.layers[1].size),
         intact |-> e.intact, layers |-> Tail(e.layers)] = d
    BY <1>1, <1>3, <1>4, <1>8
  <1> QED BY <1>7, <1>9

\* AESFilter::convertBackward returns no more bytes than it got, also for a
\* datagram it cannot decrypt: a padded size that the padding check has
\* refused cannot make the length of the result wrap around. An AES layer
\* that it can decrypt has the size Encrypt gave it.
THEOREM DecryptShrinks ==
    ASSUME NEW f \in Filter, NEW d \in Datagram,
           Decryptable(f, d) => /\ d.layers[1].size <= d.size
                                /\ d.size <= d.layers[1].size + kStateSize
    PROVE  \A x \in Decrypt(f, d) : x.size \in 0 .. d.size
  <1>1. d \in [size: Nat, intact: BOOLEAN, layers: Seq(AesLayer \cup XorLayer)]
    BY DEF Datagram, Stack
  <1> SUFFICES ASSUME NEW x \in Decrypt(f, d) PROVE x.size \in 0 .. d.size
    OBVIOUS
  <1>2. CASE d.size % kStateSize # 0 \/ d.size = 0
    BY <1>1, <1>2 DEF Decrypt, Garbage
  <1>3. CASE ~(d.size % kStateSize # 0 \/ d.size = 0) /\ Decryptable(f, d)
    <2>1. d.layers[1] \in AesLayer
      BY <1>1, <1>3 DEF Decryptable, AesLayer, XorLayer
    <2> DEFINE padded == d.size - d.layers[1].size
    <2>2. d.layers[1].size \in Nat
      BY <2>1 DEF AesLayer
    <2>3. padded \in Nat /\ padded < 256 /\ padded <= d.size
      BY <1>1, <1>3, <2>2, SMT DEF kStateSize
    <2>4. x.size = substr(d.size, padded)
      BY <1>1, <1>3 DEF Decrypt
    <2>5. substr(d.size, padded) = d.size - padded
      BY <1>1, <2>3, SubstrLength
    <2> QED BY <1>1, <2>3, <2>4, <2>5
  <1>4. CASE ~(d.size % kStateSize # 0 \/ d.size = 0) /\ ~Decryptable(f, d)
    <2>1. PICK padded \in LastBytes : x = Garbage(substr(d.size, padded))
      BY <1>4 DEF Decrypt
    <2>2. padded \in Nat /\ padded < 256
      BY FiltersAssumption DEF FiltersAssumption
    <2>3. substr(d.size, padded) \in 0 .. d.size
      BY <1>1, <2>2, SubstrLength
    <2> QED BY <2>1, <2>3 DEF Garbage
  <1> QED BY <1>2, <1>3, <1>4

------------------------------------------------------------------------------
\* The two parts of a stack: the masks on top, and what is not an XOR layer.
Uncovered == {s \in Stack : ~IsCovered(s)}

LEMMA CoverParts ==
    ASSUME NEW masks \in SUBSET Mask, NEW below \in Uncovered
    PROVE  /\ MasksOver(Cover(masks, below)) = masks
           /\ Below(Cover(masks, below)) = below
  <1>1. CASE masks = {}
    BY <1>1 DEF Cover, MasksOver, Below, Uncovered
  <1>2. CASE masks # {}
    <2> DEFINE layer == [kind |-> "xor", masks |-> masks]
               s == <<layer>> \o below
    <2>1. Cover(masks, below) = s
      BY <1>2 DEF Cover
    <2>2. layer \in AesLayer \cup XorLayer /\ below \in Seq(AesLayer \cup XorLayer)
      BY <1>2 DEF XorLayer, Uncovered, Stack
    <2>3. s # <<>> /\ s[1] = layer /\ Tail(s) = below
      BY <2>2, Push
    <2>4. layer.kind = "xor" /\ layer.masks = masks
      OBVIOUS
    <2> QED BY <2>1, <2>3, <2>4 DEF MasksOver, Below, IsCovered
  <1> QED BY <1>1, <1>2

\* Taking the top off a stack that is not empty.
LEMMA Pop ==
    ASSUME NEW S, NEW s \in Seq(S), s # <<>>
    PROVE  /\ s[1] \in S /\ Tail(s) \in Seq(S) /\ s = <<s[1]>> \o Tail(s)
           /\ Tail(s) # <<>> => Len(s) - 1 \in Nat \ {0} /\ Tail(s)[1] = s[2]
  <1>1. /\ Len(s) \in Nat \ {0} /\ s[1] \in S /\ <<s[1]>> \in Seq(S)
        /\ Tail(s) \in Seq(S) /\ Len(Tail(s)) = Len(s) - 1
        /\ \A i \in 1 .. Len(s) - 1 : Tail(s)[i] = s[i + 1]
    OBVIOUS
  <1>2. s = <<s[1]>> \o Tail(s)
    <2> DEFINE t == <<s[1]>> \o Tail(s)
    <2>1. /\ t \in Seq(S) /\ Len(t) = Len(s) /\ t[1] = s[1]
          /\ \A i \in 1 .. Len(s) - 1 : t[i + 1] = s[i + 1]
      BY <1>1, Push
    <2>2. \A i \in 1 .. Len(s) : i = 1 \/ (i - 1 \in 1 .. Len(s) - 1 /\ i = (i - 1) + 1)
      BY <1>1
    <2>3. \A i \in 1 .. Len(s) : s[i] = t[i]
      <3> HIDE DEF t
      <3> QED BY <2>1, <2>2
    <2> QED BY <2>1, <2>3, SeqEqual
  <1>3. Tail(s) # <<>> => Len(s) - 1 \in Nat \ {0}
    BY <1>1
  <1> QED BY <1>1, <1>2, <1>3

LEMMA PartsCover ==
    ASSUME NEW s \in Stack, Merged(s)
    PROVE  /\ s = Cover(MasksOver(s), Below(s))
           /\ MasksOver(s) \in SUBSET Mask
           /\ Below(s) \in Uncovered
  <1>1. CASE ~IsCovered(s)
    BY <1>1 DEF Cover, MasksOver, Below, Uncovered
  <1>2. CASE IsCovered(s)
    <2>1. /\ s # <<>> /\ s[1].kind = "xor"
          /\ s[1] \in AesLayer \cup XorLayer
          /\ Tail(s) \in Stack /\ s = <<s[1]>> \o Tail(s)
      BY <1>2, Pop DEF IsCovered, Stack
    <2>2. s[1] \in XorLayer
      BY <2>1 DEF AesLayer
    <2>3. /\ s[1] = [kind |-> "xor", masks |-> s[1].masks]
          /\ s[1].masks # {} /\ s[1].masks \in SUBSET Mask
      BY <2>2 DEF XorLayer
    <2>4. ~IsCovered(Tail(s))
      <3>1. CASE Tail(s) = <<>>
        BY <3>1 DEF IsCovered
      <3>2. CASE Tail(s) # <<>>
        <4>1. Len(s) - 1 \in Nat \ {0} /\ Tail(s)[1] = s[2]
          BY <2>1, <3>2, Pop DEF Stack
        <4>2. ~(s[1].kind = "xor" /\ s[1 + 1].kind = "xor")
          <5>1. \A n \in Nat \ {0} : 1 \in 1 .. n
            OBVIOUS
          <5>2. 1 \in 1 .. Len(s) - 1
            BY <4>1, <5>1, Zenon
          <5> QED BY <5>2 DEF Merged
        <4> QED BY <2>1, <4>1, <4>2 DEF IsCovered
      <3> QED BY <3>1, <3>2
    <2>5. MasksOver(s) = s[1].masks /\ Below(s) = Tail(s)
      BY <1>2 DEF MasksOver, Below
    <2>6. Cover(s[1].masks, Tail(s)) = <<s[1]>> \o Tail(s)
      BY <2>3 DEF Cover
    <2> QED BY <2>1, <2>3, <2>4, <2>5, <2>6, Zenon DEF Uncovered
  <1> QED BY <1>1, <1>2

\* XorFilter applied a second time removes its mask, over any stack of
\* layers, as long as the key covers the datagram: no byte of the mask
\* comes from the memory behind the key.
THEOREM XorUndone ==
    ASSUME NEW f \in Filter, NEW d \in Datagram, d.size <= BlockSize + 1
    PROVE  \A x \in Xor(f, d) : Xor(f, x) = {d}
  <1> DEFINE m == <<f.key, "none">>
             masks == MasksOver(d.layers)
             below == Below(d.layers)
  <1> SUFFICES ASSUME NEW x \in Xor(f, d) PROVE Xor(f, x) = {d}
    OBVIOUS
  <1>1. Masks(f, d) = {m}
    BY DEF Masks
  <1>2. x = [size |-> d.size, intact |-> d.intact, layers |-> Cover(Flip(masks, m), below)]
    BY <1>1 DEF Xor
  <1>3. Masks(f, x) = {m}
    BY <1>2 DEF Masks
  <1>4. /\ masks \in SUBSET Mask /\ below \in Uncovered
        /\ d.layers = Cover(masks, below)
    <2>1. d.layers \in Stack /\ Merged(d.layers)
      BY DEF Datagram
    <2> QED BY <2>1, PartsCover
  <1>5. m \in Mask
    BY DEF Mask, Filter
  <1>6. MasksOver(x.layers) = Flip(masks, m) /\ Below(x.layers) = below
    <2>1. Flip(masks, m) \in SUBSET Mask
      BY <1>4, <1>5 DEF Flip
    <2> QED BY <1>2, <1>4, <2>1, CoverParts
  <1>7. Flip(Flip(masks, m), m) = masks
    BY DEF Flip
  <1>8. Xor(f, x) = {[size |-> x.size, intact |-> x.intact,
                      layers |-> Cover(Flip(MasksOver(x.layers), m), Below(x.layers))]}
    BY <1>3 DEF Xor
  <1>9. [size |-> x.size, intact |-> x.intact,
         layers |-> Cover(Flip(MasksOver(x.layers), m), Below(x.layers))] = d
    <2>1. Cover(Flip(MasksOver(x.layers), m), Below(x.layers)) = d.layers
      BY <1>4, <1>6, <1>7
    <2>2. x.size = d.size /\ x.intact = d.intact
      BY <1>2
    <2>3. d = [size |-> d.size, intact |-> d.intact, layers |-> d.layers]
      BY DEF Datagram
    <2> QED BY <2>1, <2>2, <2>3
  <1> QED BY <1>8, <1>9

\* Both conversions of a filter give datagrams of the form the theorems of
\* this module are about, so they apply to every filter of a chain.
THEOREM FilterKeepsForm ==
    ASSUME NEW f \in Filter, NEW d \in Datagram
    PROVE  Forward(f, d) \subseteq Datagram /\ Backward(f, d) \subseteq Datagram
  <1>1. /\ d.size \in Nat /\ d.intact \in BOOLEAN
        /\ d.layers \in Stack /\ Merged(d.layers)
    BY DEF Datagram
  <1>2. ASSUME NEW size \in Nat PROVE Garbage(size) \in Datagram
    BY DEF Garbage, Datagram, Stack, Merged
  <1>3. ASSUME NEW g \in Filter PROVE Encrypt(g, d) \in Datagram
    <2> DEFINE layer == [kind |-> "aes", key |-> g.key, size |-> d.size, whole |-> TRUE]
    <2>1. layer \in AesLayer \cup XorLayer /\ layer.kind # "xor"
      BY <1>1 DEF AesLayer, Filter
    <2>2. <<layer>> \o d.layers \in Stack /\ Merged(<<layer>> \o d.layers)
      <3> HIDE DEF layer
      <3> QED BY <1>1, <2>1, MergedPush
    <2>3. get_padded_encrypted_size(d.size) \in Nat
      BY <1>1, PaddedSize
    <2> QED BY <1>1, <2>2, <2>3 DEF Encrypt, Datagram
  <1>4. ASSUME NEW g \in Filter PROVE Decrypt(g, d) \subseteq Datagram
    <2>1. CASE d.size % kStateSize # 0 \/ d.size = 0
      BY <1>1, <1>2, <2>1 DEF Decrypt
    <2>2. CASE ~(d.size % kStateSize # 0 \/ d.size = 0) /\ Decryptable(g, d)
      <3> DEFINE padded == d.size - d.layers[1].size
      <3>1. d.layers # <<>> /\ d.layers[1] \in AesLayer \cup XorLayer
            /\ d.layers[1].kind = "aes"
        BY <1>1, <2>2, Pop DEF Decryptable, Stack
      <3>2. d.layers[1].size \in Nat
        BY <3>1 DEF AesLayer, XorLayer
      <3>3. substr(d.size, padded) \in Nat
        BY <1>1, <3>2, FiltersAssumption DEF substr, FiltersAssumption
      <3>4. Tail(d.layers) \in Stack /\ Merged(Tail(d.layers))
        BY <1>1, <3>1, MergedPop
      <3> DEFINE y == [size |-> substr(d.size, padded), intact |-> d.intact,
                       layers |-> Tail(d.layers)]
      <3>5. Decrypt(g, d) = {y}
        BY <2>2 DEF Decrypt
      <3>6. y \in Datagram
        BY <1>1, <3>3, <3>4 DEF Datagram
      <3> QED BY <3>5, <3>6
    <2>3. CASE ~(d.size % kStateSize # 0 \/ d.size = 0) /\ ~Decryptable(g, d)
      <3>1. \A padded \in LastBytes : substr(d.size, padded) \in Nat
        <4>1. \A padded \in LastBytes : padded \in Nat /\ padded < 256
          BY FiltersAssumption DEF FiltersAssumption
        <4> QED BY <1>1, <4>1, SubstrLength
      <3> QED BY <1>2, <2>3, <3>1 DEF Decrypt
    <2> QED BY <2>1, <2>2, <2>3
  <1>5. ASSUME NEW g \in Filter PROVE Xor(g, d) \subseteq Datagram
    <2> SUFFICES ASSUME NEW m \in Masks(g, d)
                 PROVE  [size |-> d.size, intact |-> d.intact,
                         layers |-> Cover(Flip(MasksOver(d.layers), m), Below(d.layers))]
                            \in Datagram
      BY DEF Xor
    <2> DEFINE masks == Flip(MasksOver(d.layers), m)
               below == Below(d.layers)
    <2>1. /\ MasksOver(d.layers) \in SUBSET Mask /\ below \in Uncovered
      BY <1>1, PartsCover
    <2>2. m \in Mask
      BY DEF Masks, Mask, Filter
    <2>3. masks \in SUBSET Mask
      BY <2>1, <2>2 DEF Flip
    <2>4. below \in Stack /\ Merged(below) /\ ~IsCovered(below)
      BY <1>1, <2>1, MergedPop DEF Below, Uncovered, IsCovered
    <2> HIDE DEF masks, below
    <2>5. Cover(masks, below) \in Stack /\ Merged(Cover(masks, below))
      <3>1. CASE masks = {}
        BY <2>4, <3>1 DEF Cover
      <3>2. CASE masks # {}
        <4> DEFINE layer == [kind |-> "xor", masks |-> masks]
        <4>1. layer \in AesLayer \cup XorLayer
          BY <2>3, <3>2 DEF XorLayer
        <4>2. Cover(masks, below) = <<layer>> \o below
          BY <3>2 DEF Cover
        <4> HIDE DEF layer
        <4> QED BY <2>4, <4>1, <4>2, MergedPush
      <3> QED BY <3>1, <3>2
    <2> QED BY <1>1, <2>5 DEF Datagram, masks, below
  <1>6. ASSUME NEW g \in Filter PROVE Forward(g, d) \subseteq Datagram
    BY <1>3, <1>4, <1>5 DEF Forward
  <1>7. [f EXCEPT !.rev = ~@] \in Filter
    BY DEF Filter
  <1> QED BY <1>6, <1>7 DEF Backward

\* Each filter of a chain is undone by convertBackward of the same filter
\* and by convertForward of the reversed one, whichever result it came up
\* with: what a mirrored chain, taken from the last filter to the first,
\* needs of every filter it is made of.
THEOREM FilterUndone ==
    ASSUME NEW f \in Filter, NEW d \in Datagram,
           f.kind = "aes" => ~f.rev,
           f.kind = "xor" => d.size <= BlockSize + 1
    PROVE  \A x \in Forward(f, d) :
              /\ Backward(f, x) = {d}
              /\ Forward([f EXCEPT !.rev = ~@], x) = {d}
  <1> DEFINE g == [f EXCEPT !.rev = ~@]
  <1> SUFFICES ASSUME NEW x \in Forward(f, d) PROVE Forward(g, x) = {d}
    BY DEF Backward
  <1>1. /\ g \in Filter /\ g.kind = f.kind /\ g.key = f.key /\ g.rev = ~f.rev
        /\ f.kind \in {"aes", "xor"}
    BY DEF Filter
  <1>2. CASE f.kind = "aes"
    <2>1. x = Encrypt(f, d)
      BY <1>2 DEF Forward
    <2>2. Forward(g, x) = Decrypt(g, x)
      BY <1>1, <1>2 DEF Forward
    <2>3. Encrypt(g, d) = Encrypt(f, d)
      BY <1>1 DEF Encrypt
    <2> QED BY <1>1, <2>1, <2>2, <2>3, AesUndone
  <1>3. CASE f.kind = "xor"
    <2>1. x \in Xor(f, d)
      BY <1>3 DEF Forward
    <2>2. Forward(g, x) = Xor(g, x)
      BY <1>1, <1>3 DEF Forward
    <2>3. Xor(g, x) = Xor(f, x)
      BY <1>1 DEF Xor, Masks
    <2> QED BY <1>3, <2>1, <2>2, <2>3, XorUndone
  <1> QED BY <1>1, <1>2, <1>3

------------------------------------------------------------------------------
(* The sizes that AES layers remember, along a stack of layers. XOR        *)
(* layers do not change the size.                                          *)

Room(n, l) == l.whole => l.size <= n /\ n <= l.size + kStateSize
Between(s, j, i) == \A k \in j + 1 .. i - 1 : s[k].kind = "xor"
SizesKept(n, s) == \A i \in 1 .. Len(s) : s[i].kind = "aes" =>
    /\ Between(s, 0, i) => Room(n, s[i])
    /\ \A j \in 1 .. i - 1 : s[j].kind = "aes" /\ Between(s, j, i) => Room(s[j].size, s[i])

\* Datagrams whose layers have the sizes that conversions give them.
Sized == {x \in Datagram : SizesKept(x.size, x.layers)}

\* What a layer on top changes about it.
LEMMA SizesPush ==
    ASSUME NEW n, NEW s \in Stack, NEW l \in AesLayer \cup XorLayer
    PROVE  SizesKept(n, <<l>> \o s) <=>
              IF l.kind = "xor" THEN SizesKept(n, s) ELSE Room(n, l) /\ SizesKept(l.size, s)
  <1> DEFINE t == <<l>> \o s
  <1>1. /\ Len(s) \in Nat /\ Len(t) = Len(s) + 1 /\ t[1] = l
        /\ \A i \in 1 .. Len(s) : t[i + 1] = s[i]
    BY Push DEF Stack
  <1>2. l.kind \in {"aes", "xor"}
    BY DEF AesLayer, XorLayer
  <1> HIDE DEF t
  <1>3. \A i \in 1 .. Len(s), j \in 0 .. Len(s) : Between(t, j + 1, i + 1) <=> Between(s, j, i)
    <2> TAKE i \in 1 .. Len(s), j \in 0 .. Len(s)
    <2>1. ASSUME Between(s, j, i), NEW k \in j + 2 .. i PROVE t[k].kind = "xor"
      <3>1. k - 1 \in j + 1 .. i - 1 /\ k - 1 \in 1 .. Len(s) /\ k = (k - 1) + 1
        BY <1>1
      <3>2. s[k - 1].kind = "xor"
        BY <2>1, <3>1 DEF Between
      <3> QED BY <1>1, <3>1, <3>2
    <2>2. ASSUME Between(t, j + 1, i + 1), NEW k \in j + 1 .. i - 1 PROVE s[k].kind = "xor"
      <3>1. k + 1 \in (j + 1) + 1 .. (i + 1) - 1 /\ k \in 1 .. Len(s)
        BY <1>1
      <3>2. t[k + 1].kind = "xor"
        BY <2>2, <3>1 DEF Between
      <3> QED BY <1>1, <3>1, <3>2
    <2>3. \A k \in (j + 1) + 1 .. (i + 1) - 1 : k \in j + 2 .. i
      BY <1>1
    <2> QED BY <2>1, <2>2, <2>3 DEF Between
  <1>4. \A i \in 1 .. Len(s) : Between(t, 0, i + 1) <=> l.kind = "xor" /\ Between(t, 0 + 1, i + 1)
    <2> TAKE i \in 1 .. Len(s)
    <2>1. \A k \in 0 + 1 .. (i + 1) - 1 : k = 1 \/ k \in (0 + 1) + 1 .. (i + 1) - 1
      BY <1>1
    <2>2. 1 \in 0 + 1 .. (i + 1) - 1
      BY <1>1
    <2>3. \A k \in (0 + 1) + 1 .. (i + 1) - 1 : k \in 0 + 1 .. (i + 1) - 1
      BY <1>1
    <2> QED BY <1>1, <2>1, <2>2, <2>3 DEF Between
  <1>5. Between(t, 0, 1)
    BY DEF Between
  <1>6. /\ 1 \in 1 .. Len(t) /\ \A i \in 1 .. Len(s) : i + 1 \in 1 .. Len(t)
        /\ \A i \in 1 .. Len(t) : i = 1 \/ \E k \in 1 .. Len(s) : i = k + 1
    <2>1. ASSUME NEW i \in 1 .. Len(t), i # 1 PROVE \E k \in 1 .. Len(s) : i = k + 1
      <3>1. i - 1 \in 1 .. Len(s) /\ i = (i - 1) + 1
        BY <1>1, <2>1
      <3> QED BY <3>1
    <2> QED BY <1>1, <2>1
  <1> DEFINE Here(u, m, i) == u[i].kind = "aes" =>
                 /\ Between(u, 0, i) => Room(m, u[i])
                 /\ \A j \in 1 .. i - 1 : u[j].kind = "aes" /\ Between(u, j, i) => Room(u[j].size, u[i])
  <1>7. Here(t, n, 1) <=> (l.kind = "aes" => Room(n, l))
    BY <1>1, <1>5
  <1>8. ASSUME NEW i \in 1 .. Len(s)
        PROVE  Here(t, n, i + 1) <=> IF l.kind = "xor" THEN Here(s, n, i) ELSE Here(s, l.size, i)
    <2> DEFINE Later(u, a, i0) == \A j \in a .. i0 - 1 :
                   u[j].kind = "aes" /\ Between(u, j, i0) => Room(u[j].size, u[i0])
    <2>1. t[i + 1] = s[i] /\ t[0 + 1] = l
      BY <1>1
    <2>2. Later(t, 2, i + 1) <=> Later(s, 1, i)
      <3>1. ASSUME Later(s, 1, i), NEW j \in 2 .. (i + 1) - 1, t[j].kind = "aes", Between(t, j, i + 1)
            PROVE  Room(t[j].size, t[i + 1])
        <4>1. j - 1 \in 1 .. i - 1 /\ j - 1 \in 1 .. Len(s) /\ j - 1 \in 0 .. Len(s) /\ (j - 1) + 1 = j
          BY <1>1
        <4>2. t[j] = s[j - 1] /\ Between(s, j - 1, i)
          BY <1>1, <1>3, <3>1, <4>1
        <4> QED BY <2>1, <3>1, <4>1, <4>2
      <3>2. ASSUME Later(t, 2, i + 1), NEW j \in 1 .. i - 1, s[j].kind = "aes", Between(s, j, i)
            PROVE  Room(s[j].size, s[i])
        <4>1. j + 1 \in 2 .. (i + 1) - 1 /\ j \in 1 .. Len(s) /\ j \in 0 .. Len(s)
          BY <1>1
        <4>2. t[j + 1] = s[j] /\ Between(t, j + 1, i + 1)
          BY <1>1, <1>3, <3>2, <4>1
        <4> QED BY <2>1, <3>2, <4>1, <4>2
      <3> QED BY <3>1, <3>2
    <2>3. Later(t, 1, i + 1) <=> Later(t, 2, i + 1)
                                 /\ (l.kind = "aes" /\ Between(t, 1, i + 1) => Room(l.size, s[i]))
      <3>1. \A j \in 1 .. (i + 1) - 1 : j = 1 \/ j \in 2 .. (i + 1) - 1
        OBVIOUS
      <3>2. 1 \in 1 .. (i + 1) - 1 /\ \A j \in 2 .. (i + 1) - 1 : j \in 1 .. (i + 1) - 1
        OBVIOUS
      <3> HIDE DEF Room
      <3> QED BY <1>1, <2>1, <3>1, <3>2
    <2>4. Between(t, 1, i + 1) <=> Between(s, 0, i)
      <3>1. 0 \in 0 .. Len(s) /\ 0 + 1 = 1
        BY <1>1
      <3> QED BY <1>3, <3>1
    <2>5. Between(t, 0, i + 1) <=> l.kind = "xor" /\ Between(s, 0, i)
      BY <1>4, <2>4
    <2> HIDE DEF Later
    <2>6. Here(t, n, i + 1) <=> (s[i].kind = "aes" =>
              (Between(t, 0, i + 1) => Room(n, s[i])) /\ Later(t, 1, i + 1))
      BY <2>1 DEF Later
    <2>7. \A m : Here(s, m, i) <=> (s[i].kind = "aes" =>
              (Between(s, 0, i) => Room(m, s[i])) /\ Later(s, 1, i))
      BY DEF Later
    <2> HIDE DEF Here
    <2> QED BY <1>2, <2>2, <2>3, <2>4, <2>5, <2>6, <2>7
  <1>9. /\ SizesKept(n, t) <=> \A i \in 1 .. Len(t) : Here(t, n, i)
        /\ \A m : SizesKept(m, s) <=> \A i \in 1 .. Len(s) : Here(s, m, i)
    BY DEF SizesKept
  <1> HIDE DEF Here
  <1>10. SizesKept(n, t) <=> Here(t, n, 1) /\ \A i \in 1 .. Len(s) : Here(t, n, i + 1)
    BY <1>6, <1>9
  <1> QED BY <1>2, <1>7, <1>8, <1>9, <1>10 DEF t

LEMMA AddedByEncrypt ==
    ASSUME NEW f \in Filter, NEW x \in Sized
    PROVE  /\ Encrypt(f, x) \in Sized
           /\ Encrypt(f, x).size = get_padded_encrypted_size(x.size)
  <1> DEFINE layer == [kind |-> "aes", key |-> f.key, size |-> x.size, whole |-> TRUE]
             n == get_padded_encrypted_size(x.size)
  <1>1. x \in Datagram /\ x.size \in Nat /\ x.layers \in Stack /\ SizesKept(x.size, x.layers)
    BY DEF Sized, Datagram
  <1>2. layer \in AesLayer \cup XorLayer
    BY <1>1 DEF AesLayer, Filter
  <1>3. Room(n, layer)
    BY <1>1, PaddedSize DEF Room
  <1>4. SizesKept(n, <<layer>> \o x.layers)
    <2>1. layer.kind # "xor" /\ layer.size = x.size
      OBVIOUS
    <2> HIDE DEF layer
    <2> QED BY <1>1, <1>2, <1>3, <2>1, SizesPush
  <1>5. Encrypt(f, x) \in Datagram
    <2>1. [f EXCEPT !.kind = "aes", !.rev = FALSE] \in Filter
      BY DEF Filter
    <2> DEFINE g == [f EXCEPT !.kind = "aes", !.rev = FALSE]
    <2>2. Forward(g, x) = {Encrypt(g, x)} /\ g.key = f.key
      BY DEF Forward, Filter
    <2>3. Encrypt(g, x) = Encrypt(f, x)
      BY <2>2 DEF Encrypt
    <2> QED BY <1>1, <2>1, <2>2, <2>3, FilterKeepsForm
  <1>6. Encrypt(f, x).size = n /\ Encrypt(f, x).layers = <<layer>> \o x.layers
    BY DEF Encrypt
  <1> QED BY <1>4, <1>5, <1>6 DEF Sized

LEMMA LeftByDecrypt ==
    ASSUME NEW f \in Filter, NEW x \in Sized, NEW y \in Decrypt(f, x)
    PROVE  y \in Sized /\ y.size <= x.size
  <1>1. /\ x \in Datagram /\ x.size \in Nat /\ x.layers \in Stack
        /\ SizesKept(x.size, x.layers)
    BY DEF Sized, Datagram
  <1>2. y \in Datagram
    <2> DEFINE g == [f EXCEPT !.kind = "aes", !.rev = TRUE]
    <2>1. g \in Filter /\ Forward(g, x) = Decrypt(g, x) /\ g.key = f.key
      BY DEF Filter, Forward
    <2>2. Decrypt(g, x) = Decrypt(f, x)
      BY <2>1 DEF Decrypt, Decryptable
    <2> QED BY <1>1, <2>1, <2>2, FilterKeepsForm
  <1>3. Decryptable(f, x) => /\ x.layers[1] \in AesLayer /\ x.layers[1].size \in Nat
                             /\ x.layers[1].size <= x.size
                             /\ x.size <= x.layers[1].size + kStateSize
                             /\ SizesKept(x.layers[1].size, Tail(x.layers))
    <2> SUFFICES ASSUME Decryptable(f, x)
                 PROVE  /\ x.layers[1] \in AesLayer /\ x.layers[1].size \in Nat
                        /\ x.layers[1].size <= x.size
                        /\ x.size <= x.layers[1].size + kStateSize
                        /\ SizesKept(x.layers[1].size, Tail(x.layers))
      OBVIOUS
    <2>1. /\ x.layers[1] \in AesLayer \cup XorLayer /\ Tail(x.layers) \in Stack
          /\ x.layers = <<x.layers[1]>> \o Tail(x.layers)
      BY <1>1, Pop DEF Decryptable, Stack
    <2>2. x.layers[1].kind = "aes" /\ x.layers[1].whole
      BY DEF Decryptable
    <2>3. Room(x.size, x.layers[1]) /\ SizesKept(x.layers[1].size, Tail(x.layers))
      <3> DEFINE l == x.layers[1]
                 s == Tail(x.layers)
      <3>1. SizesKept(x.size, <<l>> \o s) /\ l.kind # "xor"
        BY <1>1, <2>1, <2>2
      <3>2. l \in AesLayer \cup XorLayer /\ s \in Stack
        BY <2>1
      <3> HIDE DEF l, s
      <3>3. Room(x.size, l) /\ SizesKept(l.size, s)
        BY <3>1, <3>2, SizesPush
      <3> QED BY <3>3 DEF l, s
    <2> QED BY <2>1, <2>2, <2>3 DEF Room, AesLayer, XorLayer
  <1>4. y.size \in 0 .. x.size
    BY <1>1, <1>3, DecryptShrinks
  <1>5. CASE y.layers = <<>>
    BY <1>2, <1>4, <1>5 DEF Sized, SizesKept
  <1>6. CASE y.layers # <<>>
    <2>1. ~(x.size % kStateSize # 0 \/ x.size = 0) /\ Decryptable(f, x)
      BY <1>6 DEF Decrypt, Garbage
    <2>2. /\ y.size = substr(x.size, x.size - x.layers[1].size)
          /\ y.layers = Tail(x.layers)
      BY <2>1 DEF Decrypt
    <2>3. /\ x.size - x.layers[1].size \in Nat /\ x.size - x.layers[1].size < 256
          /\ x.size - x.layers[1].size <= x.size
          /\ x.size - (x.size - x.layers[1].size) = x.layers[1].size
      BY <1>1, <1>3, <2>1 DEF kStateSize
    <2>4. y.size = x.layers[1].size
      BY <1>1, <2>2, <2>3, SubstrLength
    <2> QED BY <1>1, <1>2, <1>3, <1>4, <2>1, <2>2, <2>4 DEF Sized
  <1> QED BY <1>4, <1>5, <1>6

LEMMA CoverSizes ==
    ASSUME NEW n, NEW masks \in SUBSET Mask, NEW below \in Stack
    PROVE  SizesKept(n, Cover(masks, below)) <=> SizesKept(n, below)
  <1>1. CASE masks = {}
    BY <1>1 DEF Cover
  <1>2. CASE masks # {}
    <2> DEFINE layer == [kind |-> "xor", masks |-> masks]
    <2>1. layer \in AesLayer \cup XorLayer /\ layer.kind = "xor"
      BY <1>2 DEF XorLayer
    <2>2. Cover(masks, below) = <<layer>> \o below
      BY <1>2 DEF Cover
    <2> HIDE DEF layer
    <2> QED BY <2>1, <2>2, SizesPush
  <1> QED BY <1>1, <1>2

LEMMA KeptByXor ==
    ASSUME NEW f \in Filter, NEW x \in Sized, NEW y \in Xor(f, x)
    PROVE  y \in Sized /\ y.size = x.size
  <1>1. /\ x \in Datagram /\ x.size \in Nat /\ x.layers \in Stack /\ Merged(x.layers)
        /\ SizesKept(x.size, x.layers)
    BY DEF Sized, Datagram
  <1>2. y \in Datagram
    <2> DEFINE g == [f EXCEPT !.kind = "xor"]
    <2>1. g \in Filter /\ Forward(g, x) = Xor(g, x) /\ g.key = f.key
      BY DEF Filter, Forward
    <2>2. Xor(g, x) = Xor(f, x)
      BY <2>1 DEF Xor, Masks
    <2> QED BY <1>1, <2>1, <2>2, FilterKeepsForm
  <1>3. PICK m \in Masks(f, x) :
            y = [size |-> x.size, intact |-> x.intact,
                 layers |-> Cover(Flip(MasksOver(x.layers), m), Below(x.layers))]
    BY DEF Xor
  <1>4. /\ x.layers = Cover(MasksOver(x.layers), Below(x.layers))
        /\ MasksOver(x.layers) \in SUBSET Mask /\ Below(x.layers) \in Stack
    BY <1>1, PartsCover DEF Uncovered
  <1>5. Flip(MasksOver(x.layers), m) \in SUBSET Mask
    BY <1>4 DEF Flip, Masks, Mask, Filter
  <1>6. SizesKept(x.size, Below(x.layers))
    BY <1>1, <1>4, CoverSizes
  <1>7. SizesKept(y.size, y.layers) /\ y.size = x.size
    BY <1>3, <1>4, <1>5, <1>6, CoverSizes
  <1> QED BY <1>2, <1>7 DEF Sized

\* A filter changes the length of a datagram by a block at most, and only
\* encryption makes it longer.
THEOREM FilterKeepsSizes ==
    ASSUME NEW f \in Filter, NEW x \in Sized, NEW y \in Forward(f, x)
    PROVE  /\ y \in Sized
           /\ y.size <= x.size + kStateSize
           /\ f.kind = "xor" => y.size = x.size
           /\ f.kind = "aes" /\ f.rev => y.size <= x.size
           /\ f.kind = "aes" /\ ~f.rev => y.size = get_padded_encrypted_size(x.size)
  <1>1. x.size \in Nat /\ f.kind \in {"aes", "xor"}
    BY DEF Sized, Datagram, Filter
  <1>2. CASE f.kind = "xor"
    <2>1. y \in Sized /\ y.size = x.size
      BY <1>2, KeptByXor DEF Forward
    <2> QED BY <1>1, <1>2, <2>1 DEF kStateSize
  <1>3. CASE f.kind = "aes" /\ f.rev
    <2>1. y \in Sized /\ y.size <= x.size
      BY <1>3, LeftByDecrypt DEF Forward
    <2>2. y.size \in Nat
      BY <2>1 DEF Sized, Datagram
    <2> QED BY <1>1, <1>3, <2>1, <2>2 DEF kStateSize
  <1>4. CASE f.kind = "aes" /\ ~f.rev
    <2>1. y \in Sized /\ y.size = get_padded_encrypted_size(x.size)
      BY <1>4, AddedByEncrypt DEF Forward
    <2> QED BY <1>1, <1>4, <2>1, PaddedSize
  <1> QED BY <1>1, <1>2, <1>3, <1>4

------------------------------------------------------------------------------
(* Chains. What a chain does is defined by recursion over its filters,     *)
(* which exists and is reasoned about by the lemmas of RecursionFacts.     *)

\* A chain, and the sets of results it may have after each of its filters.
Stages(chain, x, s) ==
    /\ s \in [0 .. Len(chain) -> SUBSET Sized]
    /\ s[0] = {x}
    /\ \A i \in 1 .. Len(chain) : s[i] = UNION {Forward(chain[i], y) : y \in s[i - 1]}

LEMMA ChainRuns ==
    ASSUME NEW chain \in Seq(Filter), NEW x \in Sized
    PROVE  \E s : Stages(chain, x, s) /\ convertForward(chain, x) = s[Len(chain)]
  <1> DEFINE n == Len(chain)
             Body(f) == [i \in 0 .. Len(chain) |->
                            IF i = 0 THEN {x} ELSE UNION {Forward(chain[i], y) : y \in f[i - 1]}]
             after == CHOOSE f : f = Body(f)
             F == [i \in 1 .. n |-> [Y \in SUBSET Sized |-> UNION {Forward(chain[i], y) : y \in Y}]]
  <1>1. convertForward(chain, x) = after[Len(chain)]
    BY Zenon DEF convertForward
  <1>2. n \in Nat /\ \A i \in 1 .. n : F[i] \in [SUBSET Sized -> SUBSET Sized]
    <2>1. n \in Nat /\ \A i \in 1 .. n : chain[i] \in Filter
      OBVIOUS
    <2>2. \A i \in 1 .. n, Y \in SUBSET Sized : UNION {Forward(chain[i], y) : y \in Y} \in SUBSET Sized
      BY <2>1, FilterKeepsSizes
    <2> QED BY <2>1, <2>2
  <1>3. \A i \in 1 .. n, Y \in SUBSET Sized : F[i][Y] = UNION {Forward(chain[i], y) : y \in Y}
    OBVIOUS
  <1>4. PICK g \in [0 .. n -> SUBSET Sized] : g[0] = {x} /\ \A i \in 1 .. n : g[i] = F[i][g[i - 1]]
    <2>1. n \in Nat /\ {x} \in SUBSET Sized
      OBVIOUS
    <2> HIDE DEF F, n
    <2>2. \E g : Computes(SUBSET Sized, n, {x}, F, g)
      BY <1>2, <2>1, Recursion, Zenon
    <2> QED BY <2>2 DEF Computes
  <1>5. \A i \in 1 .. n : i - 1 \in 0 .. n /\ i \in 0 .. n /\ i # 0
    OBVIOUS
  <1>6. \A i \in 0 .. n : i = 0 \/ i \in 1 .. n
    OBVIOUS
  <1>7. \A i \in 1 .. n : g[i] = UNION {Forward(chain[i], y) : y \in g[i - 1]}
    <2> HIDE DEF F, n
    <2> QED BY <1>3, <1>4, <1>5
  <1>8. g = Body(g)
    <2> HIDE DEF F
    <2> QED BY <1>4, <1>6, <1>7
  <1>9. after = Body(after)
    <2> HIDE DEF Body
    <2> QED BY <1>8
  <1>10. /\ DOMAIN after = 0 .. n /\ after[0] = {x}
         /\ \A i \in 1 .. n : after[i] = UNION {Forward(chain[i], y) : y \in after[i - 1]}
    <2>1. DOMAIN after = 0 .. n
      <3> HIDE DEF after
      <3> QED BY <1>9, Zenon
    <2>2. \A i \in 0 .. n : after[i] = IF i = 0 THEN {x}
                                     ELSE UNION {Forward(chain[i], y) : y \in after[i - 1]}
      <3> HIDE DEF after
      <3> QED BY <1>9, Zenon
    <2>3. 0 \in 0 .. n
      OBVIOUS
    <2> HIDE DEF after, n
    <2> QED BY <1>5, <2>1, <2>2, <2>3, Zenon
  <1> DEFINE S == {k \in Nat : k <= n => after[k] \in SUBSET Sized}
  <1> HIDE DEF after
  <1>11. 0 \in S
    BY <1>10
  <1>12. ASSUME NEW k \in Nat, k \in S PROVE k + 1 \in S
    <2> SUFFICES ASSUME k + 1 <= n PROVE after[k + 1] \in SUBSET Sized
      OBVIOUS
    <2>1. k + 1 \in 1 .. n /\ after[k] \in SUBSET Sized /\ (k + 1) - 1 = k
      BY <1>12
    <2>2. after[k + 1] = UNION {Forward(chain[k + 1], y) : y \in after[k]}
      BY <1>10, <2>1
    <2>3. chain[k + 1] \in Filter
      BY <2>1
    <2> QED BY <2>1, <2>2, <2>3, FilterKeepsSizes
  <1>13. \A k \in 0 .. n : after[k] \in SUBSET Sized
    <2>1. Nat \subseteq S
      <3> HIDE DEF S
      <3>1. S \subseteq Nat
        BY DEF S
      <3> QED BY <1>11, <1>12, <3>1, Induct
    <2> QED BY <2>1
  <1>14. after = [k \in 0 .. n |-> after[k]]
    <2>1. \A f : Body(f) = [i \in 0 .. n |-> Body(f)[i]]
      OBVIOUS
    <2> HIDE DEF n, Body
    <2> QED BY <1>9, <2>1
  <1>15. after \in [0 .. n -> SUBSET Sized]
    <2> HIDE DEF n
    <2> QED BY <1>13, <1>14
  <1> QED BY <1>1, <1>10, <1>15 DEF Stages

LEMMA LenOf == ASSUME NEW n \in Nat, NEW s, DOMAIN s = 1 .. n PROVE Len(s) = n
  OBVIOUS

\* The filters in the opposite order, each reversed.
Turned(chain) == [i \in DOMAIN chain |-> [ReverseChain(chain)[i] EXCEPT !.rev = ~@]]

\* ChainedFilters::convertBackward is convertForward of the turned chain.
THEOREM BackwardIsTurned ==
    ASSUME NEW chain \in Seq(Filter), NEW x
    PROVE  convertBackward(chain, x) = convertForward(Turned(chain), x)
  <1> DEFINE back == ReverseChain(chain)
             n == Len(chain)
             Body(f) == [i \in 0 .. Len(back) |->
                            IF i = 0 THEN {x} ELSE UNION {Backward(back[i], y) : y \in f[i - 1]}]
             Turn(f) == [i \in 0 .. Len(Turned(chain)) |->
                            IF i = 0 THEN {x} ELSE UNION {Forward(Turned(chain)[i], y) : y \in f[i - 1]}]
  <1>1. convertBackward(chain, x) = (CHOOSE f : f = Body(f))[Len(back)]
    BY Zenon DEF convertBackward
  <1>2. convertForward(Turned(chain), x) = (CHOOSE f : f = Turn(f))[Len(Turned(chain))]
    BY Zenon DEF convertForward
  <1>3. /\ Len(back) = n /\ Len(Turned(chain)) = n /\ n \in Nat
        /\ DOMAIN back = 1 .. n /\ DOMAIN Turned(chain) = 1 .. n
        /\ \A i \in 1 .. n : Turned(chain)[i] = [back[i] EXCEPT !.rev = ~@]
    <2>1. n \in Nat /\ DOMAIN chain = 1 .. n
      OBVIOUS
    <2>2. /\ back = [i \in 1 .. n |-> chain[n + 1 - i]]
          /\ Turned(chain) = [i \in 1 .. n |-> [back[i] EXCEPT !.rev = ~@]]
      BY <2>1, Zenon DEF ReverseChain, Turned
    <2>3. DOMAIN back = 1 .. n /\ DOMAIN Turned(chain) = 1 .. n
      BY <2>2, Zenon
    <2>4. Len(back) = n /\ Len(Turned(chain)) = n
      <3> HIDE DEF back, n
      <3> QED BY <2>1, <2>2, LenOf
    <2>5. \A i \in 1 .. n : Turned(chain)[i] = [back[i] EXCEPT !.rev = ~@]
      <3> HIDE DEF back, n
      <3> QED BY <2>2, Zenon
    <2> QED BY <2>1, <2>3, <2>4, <2>5
  <1>4. \A i \in 0 .. n : i # 0 => \A y : Forward(Turned(chain)[i], y) = Backward(back[i], y)
    BY <1>3 DEF Backward
  <1>5. \A f : Body(f) = Turn(f)
    <2> TAKE f
    <2>1. \A i \in 0 .. n : i # 0 =>
             {Forward(Turned(chain)[i], y) : y \in f[i - 1]} = {Backward(back[i], y) : y \in f[i - 1]}
      <3> HIDE DEF n, back
      <3> QED BY <1>4, Zenon
    <2> DEFINE b(i) == IF i = 0 THEN {x} ELSE UNION {Backward(back[i], y) : y \in f[i - 1]}
               t(i) == IF i = 0 THEN {x} ELSE UNION {Forward(Turned(chain)[i], y) : y \in f[i - 1]}
    <2>2. \A i \in 0 .. n : b(i) = t(i)
      BY <2>1, Zenon
    <2>3. Body(f) = [i \in 0 .. n |-> b(i)] /\ Turn(f) = [i \in 0 .. n |-> t(i)]
      BY <1>3, Zenon
    <2> HIDE DEF b, t, Body, Turn
    <2> QED BY <2>2, <2>3
  <1>6. (CHOOSE f : f = Body(f)) = (CHOOSE f : f = Turn(f))
    <2> HIDE DEF Body, Turn
    <2> QED BY <1>5
  <1> QED BY <1>1, <1>2, <1>3, <1>6

\* Turning a chain twice gives it back.
LEMMA TurnedTwice ==
    ASSUME NEW chain \in Seq(Filter)
    PROVE  /\ Turned(chain) \in Seq(Filter) /\ Len(Turned(chain)) = Len(chain)
           /\ \A i \in 1 .. Len(chain) :
                 Turned(chain)[i] = [chain[Len(chain) + 1 - i] EXCEPT !.rev = ~@]
           /\ Turned(Turned(chain)) = chain
  <1> DEFINE n == Len(chain)
             turn(f) == [f EXCEPT !.rev = ~@]
  <1>1. n \in Nat /\ DOMAIN chain = 1 .. n /\ \A i \in 1 .. n : chain[i] \in Filter
    OBVIOUS
  <1>2. \A f \in Filter : turn(f) \in Filter /\ turn(turn(f)) = f
    BY DEF Filter
  <1>3. \A i \in 1 .. n : n + 1 - i \in 1 .. n /\ n + 1 - (n + 1 - i) = i
    BY <1>1
  <1>4. ASSUME NEW c \in Seq(Filter), Len(c) = n
        PROVE  /\ Turned(c) = [i \in 1 .. n |-> turn(c[n + 1 - i])]
               /\ Turned(c) \in Seq(Filter) /\ Len(Turned(c)) = n
    <2>1. DOMAIN c = 1 .. n /\ \A i \in 1 .. n : c[i] \in Filter
      BY <1>4
    <2>2. Turned(c) = [i \in 1 .. n |-> turn(c[n + 1 - i])]
      <3>1. ReverseChain(c) = [i \in 1 .. n |-> c[n + 1 - i]]
        <4> HIDE DEF n
        <4> QED BY <1>4, <2>1, Zenon DEF ReverseChain
      <3> HIDE DEF n
      <3> QED BY <2>1, <3>1 DEF Turned
    <2>3. Turned(c) \in [1 .. n -> Filter]
      <3> HIDE DEF n, turn
      <3> QED BY <1>2, <1>3, <2>1, <2>2
    <2>4. Turned(c) \in Seq(Filter) /\ Len(Turned(c)) = n
      <3> HIDE DEF n
      <3> QED BY <1>1, <2>3
    <2> QED BY <2>2, <2>4
  <1>5. Turned(Turned(chain)) = chain
    <2>1. /\ Turned(chain) = [i \in 1 .. n |-> turn(chain[n + 1 - i])]
          /\ Turned(Turned(chain)) = [i \in 1 .. n |-> turn(Turned(chain)[n + 1 - i])]
      BY <1>4
    <2>2. \A i \in 1 .. n : turn(Turned(chain)[n + 1 - i]) = chain[i]
      <3> HIDE DEF n, turn
      <3> QED BY <1>1, <1>2, <1>3, <2>1
    <2>3. chain = [i \in 1 .. n |-> chain[i]]
      BY <1>1
    <2> HIDE DEF n, turn
    <2> QED BY <2>1, <2>2, <2>3
  <1>6. \A i \in 1 .. n : Turned(chain)[i] = turn(chain[n + 1 - i])
    <2>1. Turned(chain) = [i \in 1 .. n |-> turn(chain[n + 1 - i])]
      BY <1>4
    <2> HIDE DEF n, turn
    <2> QED BY <2>1
  <1> QED BY <1>4, <1>5, <1>6

\* The lengths after each filter of a chain.
LEMMA SizesRun ==
    ASSUME NEW chain \in Seq(Filter), NEW n \in Nat
    PROVE  /\ SizeAfter(chain, n) \in [0 .. Len(chain) -> Nat]
           /\ SizeAfter(chain, n)[0] = n
           /\ \A i \in 1 .. Len(chain) : SizeAfter(chain, n)[i] =
                 IF chain[i].kind = "aes"
                 THEN get_padded_encrypted_size(SizeAfter(chain, n)[i - 1])
                 ELSE SizeAfter(chain, n)[i - 1]
  <1> DEFINE m == Len(chain)
             After(i, k) == IF chain[i].kind = "aes" THEN get_padded_encrypted_size(k) ELSE k
             Body(f) == [i \in 0 .. Len(chain) |->
                            IF i = 0 THEN n
                            ELSE IF chain[i].kind = "aes" THEN get_padded_encrypted_size(f[i - 1])
                            ELSE f[i - 1]]
             after == CHOOSE f : f = Body(f)
             F == [i \in 1 .. m |-> [k \in Nat |-> After(i, k)]]
  <1>1. SizeAfter(chain, n) = after
    BY Zenon DEF SizeAfter
  <1>2. m \in Nat /\ \A i \in 1 .. m, k \in Nat : After(i, k) \in Nat
    BY PaddedSize
  <1>3. \A i \in 1 .. m : F[i] \in [Nat -> Nat]
    <2> HIDE DEF After, m
    <2> QED BY <1>2
  <1>4. \A i \in 1 .. m, k \in Nat : F[i][k] = After(i, k)
    <2> HIDE DEF After, m
    <2> QED OBVIOUS
  <1>5. PICK g \in [0 .. m -> Nat] : g[0] = n /\ \A i \in 1 .. m : g[i] = F[i][g[i - 1]]
    <2> HIDE DEF F, m
    <2>1. \E g : Computes(Nat, m, n, F, g)
      BY <1>2, <1>3, Recursion, Zenon
    <2> QED BY <2>1 DEF Computes
  <1>6. \A i \in 1 .. m : i - 1 \in 0 .. m /\ i \in 0 .. m /\ i # 0
    OBVIOUS
  <1>7. \A i \in 0 .. m : i = 0 \/ i \in 1 .. m
    OBVIOUS
  <1>8. \A i \in 1 .. m : g[i] = After(i, g[i - 1])
    <2> HIDE DEF F, m, After
    <2> QED BY <1>4, <1>5, <1>6
  <1>9. \A f : Body(f) = [i \in 0 .. m |-> IF i = 0 THEN n ELSE After(i, f[i - 1])]
    OBVIOUS
  <1>10. g = Body(g)
    <2> HIDE DEF F, Body, After, m
    <2> QED BY <1>5, <1>7, <1>8, <1>9
  <1>11. after = Body(after)
    <2> HIDE DEF Body
    <2> QED BY <1>10
  <1>12. /\ after = [i \in 0 .. m |-> after[i]] /\ after[0] = n
         /\ \A i \in 1 .. m : after[i] = After(i, after[i - 1])
    <2>1. after = [i \in 0 .. m |-> IF i = 0 THEN n ELSE After(i, after[i - 1])]
      <3> HIDE DEF Body, after, m, After
      <3> QED BY <1>9, <1>11
    <2>2. 0 \in 0 .. m
      BY <1>2
    <2> HIDE DEF after, m, After
    <2> QED BY <1>6, <2>1, <2>2
  <1> DEFINE S == {k \in Nat : k <= m => after[k] \in Nat}
  <1> HIDE DEF after
  <1>13. 0 \in S
    BY <1>12
  <1>14. ASSUME NEW k \in Nat, k \in S PROVE k + 1 \in S
    <2> SUFFICES ASSUME k + 1 <= m PROVE after[k + 1] \in Nat
      OBVIOUS
    <2>1. k + 1 \in 1 .. m /\ after[k] \in Nat /\ (k + 1) - 1 = k
      BY <1>14
    <2> HIDE DEF m, After
    <2> QED BY <1>2, <1>12, <2>1
  <1>15. Nat \subseteq S
    <2> HIDE DEF S
    <2>1. S \subseteq Nat
      BY DEF S
    <2> QED BY <1>13, <1>14, <2>1, Induct
  <1>16. after \in [0 .. m -> Nat]
    <2>1. \A k \in 0 .. m : after[k] \in Nat
      BY <1>15
    <2> HIDE DEF m
    <2> QED BY <1>12, <2>1
  <1> QED BY <1>1, <1>12, <1>16

\* How long a datagram can be after a chain.
LEMMA ChainSizes ==
    ASSUME NEW chain \in Seq(Filter), NEW x \in Sized, NEW y \in convertForward(chain, x)
    PROVE  /\ y \in Sized
           /\ y.size <= x.size + kStateSize * Len(chain)
           /\ (\A i \in DOMAIN chain : chain[i].rev \/ chain[i].kind = "xor") => y.size <= x.size
           /\ (\A i \in DOMAIN chain : chain[i].kind = "aes" => ~chain[i].rev)
                 => y.size = SizeAfter(chain, x.size)[Len(chain)] /\ x.size <= y.size
  <1> DEFINE n == Len(chain)
             sizes == SizeAfter(chain, x.size)
             Shrinks == \A i \in DOMAIN chain : chain[i].rev \/ chain[i].kind = "xor"
             Grows == \A i \in DOMAIN chain : chain[i].kind = "aes" => ~chain[i].rev
             Good(i, z) == /\ z \in Sized /\ z.size \in Nat
                           /\ z.size <= x.size + kStateSize * i
                           /\ Shrinks => z.size <= x.size
                           /\ Grows => z.size = sizes[i] /\ x.size <= z.size
  <1>1. PICK s : Stages(chain, x, s) /\ convertForward(chain, x) = s[n]
    BY ChainRuns
  <1>2. x.size \in Nat /\ n \in Nat /\ DOMAIN chain = 1 .. n /\ \A i \in 1 .. n : chain[i] \in Filter
    BY DEF Sized, Datagram
  <1>3. /\ sizes[0] = x.size
        /\ \A i \in 1 .. n : sizes[i] = IF chain[i].kind = "aes"
                                        THEN get_padded_encrypted_size(sizes[i - 1]) ELSE sizes[i - 1]
    <2>1. x.size \in Nat
      BY <1>2
    <2> QED BY <2>1, SizesRun, Zenon
  <1> DEFINE S == {i \in 0 .. n : \A z \in s[i] : Good(i, z)}
  <1>4. 0 \in S
    <2>1. s[0] = {x}
      BY <1>1 DEF Stages
    <2> QED BY <1>2, <1>3, <2>1 DEF kStateSize
  <1>5. ASSUME NEW i \in 1 .. n, i - 1 \in S PROVE i \in S
    <2> SUFFICES ASSUME NEW z \in s[i] PROVE Good(i, z)
      OBVIOUS
    <2>1. PICK w \in s[i - 1] : z \in Forward(chain[i], w)
      BY <1>1 DEF Stages
    <2>2. Good(i - 1, w)
      BY <1>5
    <2>3. chain[i] \in Filter /\ chain[i].kind \in {"aes", "xor"} /\ i - 1 \in Nat
      BY <1>2 DEF Filter
    <2>4. /\ z \in Sized
          /\ z.size <= w.size + kStateSize
          /\ chain[i].kind = "xor" => z.size = w.size
          /\ chain[i].kind = "aes" /\ chain[i].rev => z.size <= w.size
          /\ chain[i].kind = "aes" /\ ~chain[i].rev => z.size = get_padded_encrypted_size(w.size)
      BY <2>1, <2>2, <2>3, FilterKeepsSizes
    <2>5. z.size \in Nat
      BY <2>4 DEF Sized, Datagram
    <2>6. z.size <= x.size + kStateSize * i
      <3>1. w.size \in Nat /\ w.size <= x.size + kStateSize * (i - 1)
        BY <2>2
      <3> QED BY <1>2, <2>4, <2>5, <3>1 DEF kStateSize
    <2>7. ASSUME Shrinks PROVE z.size <= x.size
      <3>1. chain[i].kind = "xor" \/ (chain[i].kind = "aes" /\ chain[i].rev)
        BY <1>2, <2>3, <2>7
      <3>2. w.size <= x.size /\ w.size \in Nat
        BY <2>2, <2>7
      <3> QED BY <1>2, <2>4, <2>5, <3>1, <3>2
    <2>8. ASSUME Grows PROVE z.size = sizes[i] /\ x.size <= z.size
      <3>1. w.size = sizes[i - 1] /\ x.size <= w.size /\ w.size \in Nat
        BY <2>2, <2>8
      <3>2. CASE chain[i].kind = "xor"
        BY <1>3, <2>4, <3>1, <3>2
      <3>3. CASE chain[i].kind = "aes"
        <4>1. ~chain[i].rev
          BY <1>2, <2>8, <3>3
        <4>2. z.size = get_padded_encrypted_size(w.size)
          BY <2>4, <3>3, <4>1
        <4>3. w.size < z.size
          BY <3>1, <4>2, PaddedSize
        <4> QED BY <1>2, <1>3, <2>5, <3>1, <3>3, <4>2, <4>3
      <3> QED BY <2>3, <3>2, <3>3
    <2> QED BY <2>4, <2>5, <2>6, <2>7, <2>8
  <1>6. S = 0 .. n
    <2> HIDE DEF S
    <2>1. S \in SUBSET (0 .. n)
      BY DEF S
    <2> QED BY <1>2, <1>4, <1>5, <2>1, AllTheWay
  <1>7. Good(n, y)
    <2>1. n \in S /\ y \in s[n]
      BY <1>1, <1>2, <1>6
    <2> QED BY <2>1
  <1> QED BY <1>7

\* ChainedFilters: what a chain has made of a datagram is undone by the
\* turned chain, whichever results its filters came up with, as long as its
\* AES filters encrypt and each XOR key covers what it is applied to.
THEOREM ChainUndone ==
    ASSUME NEW chain \in Seq(Filter), NEW x \in Sized, NEW y \in convertForward(chain, x),
           \A i \in DOMAIN chain : chain[i].kind = "aes" => ~chain[i].rev,
           \A i \in DOMAIN chain :
              chain[i].kind = "xor" => SizeAfter(chain, x.size)[i] <= BlockSize + 1
    PROVE  convertForward(Turned(chain), y) = {x} /\ convertBackward(chain, y) = {x}
  <1> DEFINE n == Len(chain)
             sizes == SizeAfter(chain, x.size)
  <1>1. PICK s : Stages(chain, x, s) /\ convertForward(chain, x) = s[n]
    BY ChainRuns
  <1>2. /\ x.size \in Nat /\ n \in Nat /\ DOMAIN chain = 1 .. n
        /\ \A i \in 1 .. n : chain[i] \in Filter /\ chain[i].kind \in {"aes", "xor"}
    <2>1. x.size \in Nat
      BY DEF Sized, Datagram
    <2>2. n \in Nat /\ DOMAIN chain = 1 .. n /\ \A i \in 1 .. n : chain[i] \in Filter
      OBVIOUS
    <2> QED BY <2>1, <2>2 DEF Filter
  <1>3. /\ sizes[0] = x.size
        /\ \A i \in 1 .. n : sizes[i] = IF chain[i].kind = "aes"
                                        THEN get_padded_encrypted_size(sizes[i - 1]) ELSE sizes[i - 1]
    <2>1. x.size \in Nat
      BY <1>2
    <2> QED BY <2>1, SizesRun, Zenon
  <1>4. \A i \in 0 .. n : \A z \in s[i] : z \in Sized /\ z.size = sizes[i]
    <2> DEFINE S == {i \in 0 .. n : \A z \in s[i] : z \in Sized /\ z.size = sizes[i]}
    <2>1. 0 \in S
      BY <1>1, <1>2, <1>3 DEF Stages
    <2>2. ASSUME NEW i \in 1 .. n, i - 1 \in S PROVE i \in S
      <3> SUFFICES ASSUME NEW z \in s[i] PROVE z \in Sized /\ z.size = sizes[i]
        OBVIOUS
      <3>1. PICK w \in s[i - 1] : z \in Forward(chain[i], w)
        BY <1>1 DEF Stages
      <3>2. w \in Sized /\ w.size = sizes[i - 1]
        BY <2>2
      <3>3. /\ z \in Sized
            /\ chain[i].kind = "xor" => z.size = w.size
            /\ chain[i].kind = "aes" /\ ~chain[i].rev => z.size = get_padded_encrypted_size(w.size)
        BY <1>2, <3>1, <3>2, FilterKeepsSizes
      <3> QED BY <1>2, <1>3, <3>2, <3>3
    <2>3. S = 0 .. n
      <3> HIDE DEF S
      <3>1. S \in SUBSET (0 .. n)
        BY DEF S
      <3> QED BY <1>2, <2>1, <2>2, <3>1, AllTheWay
    <2> QED BY <2>3
  <1>5. ASSUME NEW i \in 1 .. n, NEW z \in s[i]
        PROVE  \E w \in s[i - 1] : Forward([chain[i] EXCEPT !.rev = ~@], z) = {w}
    <2>1. PICK w \in s[i - 1] : z \in Forward(chain[i], w)
      BY <1>1 DEF Stages
    <2>2. i - 1 \in 0 .. n
      OBVIOUS
    <2>3. w \in Sized /\ w.size = sizes[i - 1]
      BY <1>4, <2>1, <2>2
    <2>4. chain[i].kind = "xor" => w.size <= BlockSize + 1
      BY <1>2, <1>3, <2>3
    <2>5. w \in Datagram /\ chain[i] \in Filter /\ (chain[i].kind = "aes" => ~chain[i].rev)
      BY <1>2, <2>3 DEF Sized
    <2>6. Forward([chain[i] EXCEPT !.rev = ~@], z) = {w}
      BY <2>1, <2>4, <2>5, FilterUndone
    <2> QED BY <2>1, <2>6
  <1>6. /\ Turned(chain) \in Seq(Filter) /\ Len(Turned(chain)) = n
        /\ \A i \in 1 .. n : Turned(chain)[i] = [chain[n + 1 - i] EXCEPT !.rev = ~@]
    BY TurnedTwice
  <1>7. y \in s[n] /\ y \in Sized
    BY <1>1, <1>2, <1>4
  <1>8. PICK b : Stages(Turned(chain), y, b) /\ convertForward(Turned(chain), y) = b[n]
    BY <1>6, <1>7, ChainRuns
  <1>9. \A i \in 0 .. n : \E w \in s[n - i] : b[i] = {w}
    <2> DEFINE S == {i \in 0 .. n : \E w \in s[n - i] : b[i] = {w}}
    <2>1. 0 \in S
      <3>1. b[0] = {y} /\ n - 0 = n
        BY <1>2, <1>8 DEF Stages
      <3> QED BY <1>2, <1>7, <3>1
    <2>2. ASSUME NEW i \in 1 .. n, i - 1 \in S PROVE i \in S
      <3>1. n + 1 - i \in 1 .. n /\ n - (i - 1) = n + 1 - i /\ (n + 1 - i) - 1 = n - i
        BY <1>2
      <3>2. PICK w \in s[n + 1 - i] : b[i - 1] = {w}
        BY <2>2, <3>1
      <3>3. PICK v \in s[n - i] : Forward([chain[n + 1 - i] EXCEPT !.rev = ~@], w) = {v}
        BY <1>5, <3>1
      <3>4. b[i] = UNION {Forward(Turned(chain)[i], z) : z \in b[i - 1]}
        BY <1>6, <1>8 DEF Stages
      <3>5. b[i] = {v}
        BY <1>6, <3>2, <3>3, <3>4
      <3> QED BY <3>3, <3>5
    <2>3. S = 0 .. n
      <3> HIDE DEF S
      <3>1. S \in SUBSET (0 .. n)
        BY DEF S
      <3> QED BY <1>2, <2>1, <2>2, <3>1, AllTheWay
    <2> QED BY <2>3
  <1>10. b[n] = {x}
    <2>1. s[0] = {x} /\ n - n = 0 /\ n \in 0 .. n
      BY <1>1, <1>2 DEF Stages
    <2> QED BY <1>9, <2>1
  <1> QED BY <1>8, <1>10, BackwardIsTurned

------------------------------------------------------------------------------
(* The tunnel of two forwarders. What is between the two is a result of    *)
(* the near chain, if the chains are mirrored and it fits the buffers.     *)

LEMMA ContentIsSized == ASSUME NEW n \in Nat PROVE Content(n) \in Sized /\ Content(n).size = n
  BY DEF Content, Sized, SizesKept, Datagram, Stack, Merged

\* What is cut off makes the rest undecryptable, but keeps its layers.
LEMMA TruncateKeeps ==
    ASSUME NEW x \in Sized
    PROVE  /\ Truncate(x) \in Sized
           /\ x.size <= DGRAM_BUFFER_SIZE => Truncate(x) = x
           /\ Truncate(x).size <= DGRAM_BUFFER_SIZE
           /\ x.size > 0 => Truncate(x).size > 0
  <1>1. /\ x \in Datagram /\ x.size \in Nat /\ x.layers \in Stack /\ Merged(x.layers)
    BY DEF Sized, Datagram
  <1>2. CASE x.size <= DGRAM_BUFFER_SIZE
    BY <1>1, <1>2 DEF Truncate
  <1>3. CASE ~(x.size <= DGRAM_BUFFER_SIZE)
    <2> DEFINE s == x.layers
               cut(l) == IF l.kind = "aes" THEN [l EXCEPT !.whole = FALSE] ELSE l
               t == [i \in DOMAIN s |-> cut(s[i])]
    <2>1. Truncate(x) = [size |-> DGRAM_BUFFER_SIZE, intact |-> FALSE, layers |-> t]
      BY <1>3 DEF Truncate
    <2>2. \A l \in AesLayer \cup XorLayer :
             cut(l) \in AesLayer \cup XorLayer /\ cut(l).kind = l.kind /\ (l.kind = "aes" => ~cut(l).whole)
      BY DEF AesLayer, XorLayer
    <2>3. Len(s) \in Nat /\ DOMAIN s = 1 .. Len(s) /\ \A i \in 1 .. Len(s) : s[i] \in AesLayer \cup XorLayer
      BY <1>1 DEF Stack
    <2>4. t \in [1 .. Len(s) -> AesLayer \cup XorLayer] /\ \A i \in 1 .. Len(s) : t[i] = cut(s[i])
      <3> HIDE DEF cut, s
      <3> QED BY <2>2, <2>3
    <2>5. t \in Stack /\ Len(t) = Len(s)
      <3> HIDE DEF t, s
      <3> QED BY <2>3, <2>4 DEF Stack
    <2>6. Merged(t)
      <3>1. ASSUME NEW i \in 1 .. Len(s) - 1 PROVE ~(t[i].kind = "xor" /\ t[i + 1].kind = "xor")
        <4>1. i \in 1 .. Len(s) /\ i + 1 \in 1 .. Len(s)
          BY <2>3
        <4>2. t[i].kind = s[i].kind /\ t[i + 1].kind = s[i + 1].kind
          <5> HIDE DEF cut, s, t
          <5> QED BY <2>2, <2>3, <2>4, <4>1
        <4> QED BY <1>1, <4>2 DEF Merged
      <3> HIDE DEF t, s
      <3> QED BY <2>5, <3>1 DEF Merged
    <2>7. SizesKept(DGRAM_BUFFER_SIZE, t)
      <3>1. \A i \in 1 .. Len(t) : t[i].kind = "aes" => ~t[i].whole
        <4> HIDE DEF cut, s, t
        <4> QED BY <2>2, <2>3, <2>4, <2>5
      <3> HIDE DEF t
      <3> QED BY <3>1 DEF SizesKept, Room
    <2> HIDE DEF t
    <2> QED BY <1>1, <1>3, <2>1, <2>5, <2>6, <2>7 DEF Sized, Datagram, DGRAM_BUFFER_SIZE
  <1> QED BY <1>2, <1>3

\* Mirrored filters convert a datagram back as the near side does, and
\* forward again what the near side has to undo.
LEMMA MirroredIsTurned ==
    ASSUME near \in Seq(Filter), Mirrored
    PROVE  /\ far = Turned(near)
           /\ \A x : convertBackward(near, x) = convertForward(far, x)
           /\ \A x : convertBackward(far, x) = convertForward(near, x)
           /\ \A i \in DOMAIN near : near[i].kind = "aes" => ~near[i].rev
  <1>1. far = Turned(near) /\ \A i \in DOMAIN near : near[i].kind = "aes" => ~near[i].rev
    BY Zenon DEF Mirrored, Turned
  <1>2. far \in Seq(Filter) /\ Turned(far) = near
    BY <1>1, TurnedTwice
  <1> QED BY <1>1, <1>2, BackwardIsTurned

TunnelInv ==
    /\ near \in Seq(Filter) /\ far \in Seq(Filter) /\ length \in Lengths
    /\ at \in {"near", "far", "app", "farBack", "nearBack", "user", "unsent", "terminated"}
    /\ datagram \in Sized
    /\ at \in {"near", "farBack"} => datagram = Content(length)
    /\ datagram.size <= DGRAM_BUFFER_SIZE + kStateSize * (Len(near) + Len(far) + 1)
       \/ datagram = Content(length)
    /\ at \in {"far", "nearBack"} /\ Mirrored /\ FitsBuffers =>
          datagram \in convertForward(near, Content(length))
    /\ TunnelTransparent
    /\ NearForwarderSurvives

LEMMA TunnelInit == Init => TunnelInv
  <1> SUFFICES ASSUME Init PROVE TunnelInv
    OBVIOUS
  <1>1. PICK s \in Setups : near = Chain(s.near) /\ far = Chain(s.far)
    BY DEF Init
  <1>2. ASSUME NEW c \in Seq(FilterConfig) PROVE Chain(c) \in Seq(Filter)
    <2>1. \A f \in FilterConfig : CreateFilterFromConfig(f) \in Filter
      BY DEF FilterConfig, Filter, CreateFilterFromConfig
    <2>2. Len(c) \in Nat /\ DOMAIN c = 1 .. Len(c) /\ \A i \in 1 .. Len(c) : c[i] \in FilterConfig
      OBVIOUS
    <2>3. Chain(c) \in [1 .. Len(c) -> Filter]
      BY <2>1, <2>2 DEF Chain
    <2> QED BY <2>2, <2>3
  <1>3. near \in Seq(Filter) /\ far \in Seq(Filter)
    BY <1>1, <1>2, SetupsAssumption DEF SetupsAssumption
  <1>4. length \in Lengths /\ length \in Nat /\ at = "near" /\ datagram = Content(length)
    BY SetupsAssumption DEF Init, SetupsAssumption
  <1>5. datagram \in Sized
    BY <1>4, ContentIsSized
  <1> QED
    BY <1>3, <1>4, <1>5 DEF TunnelInv, TunnelTransparent, NearForwarderSurvives, Delivered

LEMMA ChainGrows ==
    ASSUME NEW chain \in Seq(Filter), NEW n \in Nat
    PROVE  SizeAfter(chain, n)[Len(chain)] \in Nat /\ n <= SizeAfter(chain, n)[Len(chain)]
  <1> DEFINE m == Len(chain)
             sizes == SizeAfter(chain, n)
             S == {i \in 0 .. m : n <= sizes[i]}
  <1>1. m \in Nat
    OBVIOUS
  <1>2. /\ sizes \in [0 .. m -> Nat] /\ sizes[0] = n
        /\ \A i \in 1 .. m : sizes[i] = IF chain[i].kind = "aes"
                                        THEN get_padded_encrypted_size(sizes[i - 1]) ELSE sizes[i - 1]
    BY SizesRun, Zenon
  <1> HIDE DEF m, sizes
  <1>3. 0 \in S
    BY <1>1, <1>2
  <1>4. ASSUME NEW i \in 1 .. m, i - 1 \in S PROVE i \in S
    <2>1. i - 1 \in 0 .. m /\ i \in 0 .. m
      BY <1>1
    <2>2. sizes[i - 1] \in Nat /\ sizes[i] \in Nat /\ n <= sizes[i - 1]
      BY <1>2, <1>4, <2>1
    <2>3. sizes[i - 1] <= sizes[i]
      <3>1. sizes[i] = get_padded_encrypted_size(sizes[i - 1]) \/ sizes[i] = sizes[i - 1]
        BY <1>2
      <3>2. sizes[i - 1] < get_padded_encrypted_size(sizes[i - 1])
        BY <2>2, PaddedSize
      <3> HIDE DEF S
      <3> QED BY <2>2, <3>1, <3>2
    <2> QED BY <2>1, <2>2, <2>3
  <1>5. S = 0 .. m
    <2> HIDE DEF S
    <2>1. S \in SUBSET (0 .. m)
      BY DEF S
    <2> QED BY <1>1, <1>3, <1>4, <2>1, AllTheWay
  <1>6. m \in S
    BY <1>1, <1>5
  <1>7. sizes[m] \in Nat /\ n <= sizes[m]
    BY <1>1, <1>2, <1>6
  <1> QED BY <1>7 DEF m, sizes

\* What a forwarder sends on.
LEMMA Converted ==
    ASSUME NEW chain \in Seq(Filter), NEW x \in Sized,
           NEW y, y \in convertForward(chain, Truncate(x)) \/ y \in convertBackward(chain, Truncate(x))
    PROVE  y \in Sized /\ y.size <= DGRAM_BUFFER_SIZE + kStateSize * Len(chain)
  <1>1. Truncate(x) \in Sized /\ Truncate(x).size <= DGRAM_BUFFER_SIZE
    BY TruncateKeeps
  <1>2. PICK c \in Seq(Filter) : Len(c) = Len(chain) /\ y \in convertForward(c, Truncate(x))
    BY BackwardIsTurned, TurnedTwice
  <1>3. y \in Sized /\ y.size <= Truncate(x).size + kStateSize * Len(c)
    BY <1>1, <1>2, ChainSizes
  <1>4. y.size \in Nat /\ Truncate(x).size \in Nat /\ Len(chain) \in Nat
    BY <1>1, <1>3 DEF Sized, Datagram
  <1> QED BY <1>1, <1>2, <1>3, <1>4 DEF kStateSize, DGRAM_BUFFER_SIZE

\* On its way in converted form: what fits is received whole, and undone.
LEMMA Arrived ==
    ASSUME TunnelInv, at \in {"far", "nearBack"}, Mirrored, FitsBuffers
    PROVE  /\ Truncate(datagram) = datagram
           /\ FitsKeys => convertForward(far, datagram) = {Content(length)}
                          /\ convertBackward(near, datagram) = {Content(length)}
  <1>1. length \in Nat /\ near \in Seq(Filter) /\ datagram \in Sized
    BY SetupsAssumption DEF SetupsAssumption, TunnelInv
  <1>2. Content(length) \in Sized /\ Content(length).size = length
    BY <1>1, ContentIsSized
  <1>3. datagram \in convertForward(near, Content(length))
    BY DEF TunnelInv
  <1>4. \A i \in DOMAIN near : near[i].kind = "aes" => ~near[i].rev
    BY <1>1, MirroredIsTurned
  <1>5. datagram.size = SizeAfter(near, length)[Len(near)]
    BY <1>1, <1>2, <1>3, <1>4, ChainSizes
  <1>6. Truncate(datagram) = datagram
    BY <1>1, <1>5, TruncateKeeps DEF FitsBuffers
  <1>7. ASSUME FitsKeys
        PROVE  convertForward(far, datagram) = {Content(length)}
               /\ convertBackward(near, datagram) = {Content(length)}
    <2>1. \A i \in DOMAIN near :
             near[i].kind = "xor" => SizeAfter(near, Content(length).size)[i] <= BlockSize + 1
      BY <1>2, <1>7 DEF FitsKeys
    <2>2. /\ convertForward(Turned(near), datagram) = {Content(length)}
          /\ convertBackward(near, datagram) = {Content(length)}
      BY <1>1, <1>2, <1>3, <1>4, <2>1, ChainUndone
    <2>3. far = Turned(near)
      BY <1>1, MirroredIsTurned
    <2> QED BY <2>2, <2>3
  <1> QED BY <1>6, <1>7

\* Before the first conversion: what fits afterwards fits before.
LEMMA Whole ==
    ASSUME TunnelInv, at \in {"near", "farBack"}, FitsBuffers
    PROVE  Truncate(datagram) = Content(length)
  <1>1. /\ length \in Nat /\ near \in Seq(Filter) /\ datagram \in Sized
        /\ datagram = Content(length)
    BY SetupsAssumption DEF SetupsAssumption, TunnelInv
  <1>2. datagram.size = length
    BY <1>1, ContentIsSized
  <1>3. /\ SizeAfter(near, length)[Len(near)] \in Nat
        /\ length <= SizeAfter(near, length)[Len(near)]
    BY <1>1, ChainGrows
  <1>4. datagram.size <= DGRAM_BUFFER_SIZE
    BY <1>1, <1>2, <1>3 DEF FitsBuffers, DGRAM_BUFFER_SIZE
  <1> QED BY <1>1, <1>4, TruncateKeeps

LEMMA TunnelNext == TunnelInv /\ [Next]_vars => TunnelInv'
  <1> SUFFICES ASSUME TunnelInv, [Next]_vars PROVE TunnelInv'
    OBVIOUS
  <1>1. /\ near \in Seq(Filter) /\ far \in Seq(Filter) /\ length \in Lengths
        /\ datagram \in Sized /\ Len(near) \in Nat /\ Len(far) \in Nat
    BY DEF TunnelInv
  <1> DEFINE bound == DGRAM_BUFFER_SIZE + kStateSize * (Len(near) + Len(far) + 1)
  <1>2. ASSUME UNCHANGED <<near, far, length>>
        PROVE  /\ Mirrored' <=> Mirrored
               /\ FitsBuffers' <=> FitsBuffers
               /\ FitsKeys' <=> FitsKeys
               /\ bound' = bound
    BY <1>2 DEF Mirrored, FitsBuffers, FitsKeys
  <1>3. ASSUME NEW chain, chain = near \/ chain = far,
               NEW y, y \in convertForward(chain, Truncate(datagram))
                      \/ y \in convertBackward(chain, Truncate(datagram))
        PROVE  y \in Sized /\ y.size <= bound
    <2>1. chain \in Seq(Filter)
      BY <1>1, <1>3
    <2>2. y \in Sized /\ y.size <= DGRAM_BUFFER_SIZE + kStateSize * Len(chain)
      BY <1>1, <1>3, <2>1, Converted
    <2>3. y.size \in Nat
      BY <2>2 DEF Sized, Datagram
    <2>4. Len(chain) \in Nat /\ Len(chain) <= Len(near) + Len(far) + 1
      BY <1>1, <1>3
    <2> HIDE DEF bound
    <2>5. DGRAM_BUFFER_SIZE + kStateSize * Len(chain) <= bound
      BY <1>1, <2>4 DEF bound, DGRAM_BUFFER_SIZE, kStateSize
    <2>6. bound \in Nat
      BY <1>1 DEF bound, DGRAM_BUFFER_SIZE, kStateSize
    <2> QED BY <2>2, <2>3, <2>4, <2>5, <2>6 DEF DGRAM_BUFFER_SIZE, kStateSize
  <1>4. CASE Request("near", "far", near)
    <2>1. UNCHANGED <<near, far, length>> /\ at = "near" /\ at' \in {"far", "unsent"}
      BY <1>4 DEF Request
    <2>2. datagram' \in convertForward(near, Truncate(datagram))
      BY <1>4 DEF Request
    <2>3. datagram' \in Sized /\ datagram'.size <= bound'
      BY <1>2, <1>3, <2>1, <2>2
    <2>4. Mirrored' /\ FitsBuffers' => datagram' \in convertForward(near, Content(length))
      BY <1>2, <2>1, <2>2, Whole
    <2> QED
      BY <1>1, <1>2, <2>1, <2>3, <2>4 DEF TunnelInv, TunnelTransparent, NearForwarderSurvives, Delivered
  <1>5. CASE Request("far", "app", far)
    <2>1. UNCHANGED <<near, far, length>> /\ at = "far" /\ at' \in {"app", "unsent"}
      BY <1>5 DEF Request
    <2>2. datagram' \in convertForward(far, Truncate(datagram))
      BY <1>5 DEF Request
    <2>3. datagram' \in Sized /\ datagram'.size <= bound'
      BY <1>2, <1>3, <2>1, <2>2
    <2>4. Mirrored' /\ FitsBuffers' /\ FitsKeys' => datagram' = Content(length)
      BY <1>2, <2>1, <2>2, Arrived
    <2> QED
      BY <1>1, <1>2, <2>1, <2>3, <2>4 DEF TunnelInv, TunnelTransparent, NearForwarderSurvives, Delivered
  <1>6. CASE AppAnswers
    <2>1. UNCHANGED <<near, far>> /\ at' = "farBack" /\ length' \in Lengths /\ datagram' = Content(length')
      BY <1>6 DEF AppAnswers
    <2>2. datagram' \in Sized
      BY <2>1, ContentIsSized, SetupsAssumption DEF SetupsAssumption
    <2> QED
      BY <1>1, <2>1, <2>2 DEF TunnelInv, TunnelTransparent, NearForwarderSurvives, Delivered
  <1>7. CASE Answer("farBack", "nearBack", far)
    <2>1. UNCHANGED <<near, far, length>> /\ at = "farBack"
      BY <1>7 DEF Answer
    <2>2. CASE datagram.size = 0
      <3>1. at' = "terminated" /\ datagram' = datagram
        BY <1>7, <2>2 DEF Answer
      <3> QED
        BY <1>1, <1>2, <2>1, <3>1 DEF TunnelInv, TunnelTransparent, NearForwarderSurvives, Delivered
    <2>3. CASE datagram.size # 0
      <3>1. at' = "nearBack" /\ datagram' \in convertBackward(far, Truncate(datagram))
        BY <1>7, <2>3 DEF Answer
      <3>2. datagram' \in Sized /\ datagram'.size <= bound'
        BY <1>2, <1>3, <2>1, <3>1
      <3>3. Mirrored => datagram' \in convertForward(near, Truncate(datagram))
        BY <1>1, <3>1, MirroredIsTurned
      <3>4. Mirrored' /\ FitsBuffers' => datagram' \in convertForward(near, Content(length))
        BY <1>2, <2>1, <3>3, Whole
      <3>5. ASSUME Mirrored PROVE datagram'.size > 0
        <4>1. datagram.size \in Nat /\ datagram.size > 0
          BY <1>1, <2>3 DEF Sized, Datagram
        <4>2. Truncate(datagram) \in Sized /\ Truncate(datagram).size > 0
          BY <1>1, <4>1, TruncateKeeps
        <4>3. Truncate(datagram).size <= datagram'.size
          <5>1. \A i \in DOMAIN near : near[i].kind = "aes" => ~near[i].rev
            BY <1>1, <3>5, MirroredIsTurned
          <5>2. datagram' \in convertForward(near, Truncate(datagram))
            BY <3>3, <3>5
          <5> QED BY <1>1, <4>2, <5>1, <5>2, ChainSizes
        <4>4. datagram'.size \in Nat /\ Truncate(datagram).size \in Nat
          BY <3>2, <4>2 DEF Sized, Datagram
        <4> QED BY <4>2, <4>3, <4>4
      <3> QED
        BY <1>1, <1>2, <2>1, <3>1, <3>2, <3>4, <3>5
        DEF TunnelInv, TunnelTransparent, NearForwarderSurvives, Delivered
    <2> QED BY <2>2, <2>3
  <1>8. CASE Answer("nearBack", "user", near)
    <2>1. UNCHANGED <<near, far, length>> /\ at = "nearBack"
      BY <1>8 DEF Answer
    <2>2. CASE datagram.size = 0
      <3>1. at' = "terminated" /\ datagram' = datagram
        BY <1>8, <2>2 DEF Answer
      <3> QED
        BY <1>1, <1>2, <2>1, <3>1 DEF TunnelInv, TunnelTransparent, NearForwarderSurvives, Delivered
    <2>3. CASE datagram.size # 0
      <3>1. at' = "user" /\ datagram' \in convertBackward(near, Truncate(datagram))
        BY <1>8, <2>3 DEF Answer
      <3>2. datagram' \in Sized /\ datagram'.size <= bound'
        BY <1>2, <1>3, <2>1, <3>1
      <3>3. Mirrored' /\ FitsBuffers' /\ FitsKeys' => datagram' = Content(length)
        BY <1>2, <2>1, <3>1, Arrived
      <3> QED
        BY <1>1, <1>2, <2>1, <3>1, <3>2, <3>3
        DEF TunnelInv, TunnelTransparent, NearForwarderSurvives, Delivered
    <2> QED BY <2>2, <2>3
  <1>9. CASE UNCHANGED vars
    BY <1>9 DEF TunnelInv, TunnelTransparent, NearForwarderSurvives, Delivered, vars,
                Mirrored, FitsBuffers, FitsKeys
  <1> QED
    BY <1>4, <1>5, <1>6, <1>7, <1>8, <1>9 DEF Next

\* Mirrored filters are transparent, for any chain of filters: the
\* application gets what the user sent, and the user what it answered.
THEOREM TunnelCorrect == Spec => []TunnelTransparent
  <1>1. TunnelInv => TunnelTransparent
    BY DEF TunnelInv
  <1> QED BY <1>1, TunnelInit, TunnelNext, PTL DEF Spec

\* A chain adds a block per filter at most, and no answer arrives empty.
THEOREM SizesCorrect == Spec => []SizesSound
  <1>1. ASSUME TunnelInv PROVE SizesSound
    <2>1. datagram.size \in Nat /\ datagram.intact \in BOOLEAN
      BY <1>1 DEF TunnelInv, Sized, Datagram
    <2>2. Len(near) \in Nat /\ Len(far) \in Nat
      BY <1>1 DEF TunnelInv
    <2>3. \/ datagram.size \in 0 .. DGRAM_BUFFER_SIZE + kStateSize * (Len(near) + Len(far) + 1)
          \/ datagram = Content(length)
      BY <1>1, <2>1, <2>2 DEF TunnelInv, DGRAM_BUFFER_SIZE, kStateSize
    <2> QED BY <1>1, <2>1, <2>3, Zenon DEF TunnelInv, SizesSound, TypeOK
  <1> QED BY <1>1, TunnelInit, TunnelNext, PTL DEF Spec

\* A side that only decrypts never hands on more bytes than it received.
THEOREM DecryptionCorrect == Spec => DecryptionNeverGrows
  <1> DEFINE Kept == (/\ at = "far" /\ \A i \in DOMAIN far : far[i].rev \/ far[i].kind = "xor")
                     => datagram'.size <= Truncate(datagram).size
  <1>1. TunnelInv /\ [Next]_vars => [Kept]_vars
    <2> SUFFICES ASSUME TunnelInv, Next, at = "far",
                        \A i \in DOMAIN far : far[i].rev \/ far[i].kind = "xor"
                 PROVE  datagram'.size <= Truncate(datagram).size
      OBVIOUS
    <2>1. datagram' \in convertForward(far, Truncate(datagram))
      BY DEF Next, Request, Answer, AppAnswers
    <2>2. far \in Seq(Filter) /\ Truncate(datagram) \in Sized
      BY TruncateKeeps DEF TunnelInv
    <2> QED BY <2>1, <2>2, ChainSizes
  <1> QED BY <1>1, TunnelInit, TunnelNext, PTL DEF Spec, DecryptionNeverGrows

==============================================================================
