---------------------------- MODULE MCDenoiseCli ----------------------------
(* Files of each sample format and layout that readWav() takes, and one for    *)
(* each way it can fail.                                                       *)
EXTENDS DenoiseCli

Fmt(format, channels, rate, bits) ==
  [id |-> "fmt", size |-> 16, format |-> format, channels |-> channels, rate |-> rate,
   bits |-> bits]
Extensible(size, subFormat) ==
  [id |-> "fmt", size |-> size, format |-> "extensible", subFormat |-> subFormat,
   channels |-> 1, rate |-> 1, bits |-> 16]
(* The same samples in every encoding, and silence in the bytes left over. *)
Readings(payload, size) ==
  [e \in Encodings |->
     [k \in 1 .. (size + 3) \div (Bits(e) \div 8) |->
        IF k \in DOMAIN payload THEN payload[k] ELSE 0]]
Data(bytesPerSample, payload) ==
  LET size == bytesPerSample * Len(payload)
  IN  [id |-> "data", size |-> size, payload |-> Readings(payload, size)]
Other(size) == [id |-> "other", size |-> size]

Padding(chunk) == chunk.size % 2

(* The file of these chunks, one after the other, cut off after `cut' bytes less. *)
FileOf(chunks, cut) ==
  LET start[k \in 1 .. Len(chunks) + 1] ==
        IF k = 1 THEN 12 ELSE start[k - 1] + 8 + chunks[k - 1].size + Padding(chunks[k - 1])
      length == start[Len(chunks) + 1]
  IN  [opens |-> TRUE, riff |-> TRUE, length |-> length - cut,
       chunks |-> [pos \in 12 .. length |->
                     IF \E k \in DOMAIN chunks : start[k] = pos
                     THEN chunks[CHOOSE k \in DOMAIN chunks : start[k] = pos]
                     ELSE Other(3)]]

Loud == <<Scale - 1, -Scale, 1, 0, -3>>
Long == [k \in 1 .. 18 |-> k % Scale]
TooLoud == <<2 * Scale, -2 * Scale, 1>>

MCInputFiles ==
  {FileOf(<<Fmt("pcm", 1, 1, 16), Data(2, Loud)>>, 0),
   FileOf(<<Fmt("pcm", 1, 2, 16), Data(2, Long)>>, 0),
   FileOf(<<Other(5), Data(3, Loud \o <<2>>), Fmt("pcm", 2, 1, 24)>>, 0),
   FileOf(<<Fmt("pcm", 3, 1, 16), Data(2, Loud \o <<2>>)>>, 0),
   FileOf(<<Fmt("pcm", 1, 1, 8), Data(1, Loud)>>, 0),
   FileOf(<<Fmt("float", 1, 2, 32), Data(4, TooLoud), Other(4)>>, 2),
   FileOf(<<Extensible(40, "pcm"), Data(2, Loud), Data(2, TooLoud)>>, 1),
   FileOf(<<Extensible(18, "pcm"), Data(2, Loud)>>, 0),
   FileOf(<<Fmt("pcm", 1, 0, 16), Data(2, Loud)>>, 0),
   FileOf(<<Fmt("pcm", 1, 1, 16), Data(2, <<>>)>>, 0),
   FileOf(<<Fmt("pcm", 1, 1, 12), Data(1, Loud)>>, 0),
   FileOf(<<Fmt("pcm", 1, 1, 4), Data(1, Loud)>>, 0),
   FileOf(<<Fmt("pcm", 0, 1, 16), Data(2, Loud)>>, 0),
   FileOf(<<Fmt("pcm", 2, 1, 16), Data(2, Loud)>>, 0),
   FileOf(<<Fmt("pcm", 1, 1, 16), Data(2, Loud)>>, 1),
   FileOf(<<[Fmt("pcm", 1, 1, 16) EXCEPT !.size = 14], Data(2, Loud)>>, 0),
   FileOf(<<Data(2, Loud)>>, 0),
   [opens |-> TRUE, riff |-> FALSE],
   [opens |-> FALSE]}

MCCommands ==
  [flags : {"complete"}, rate : {0, 1, 2}, frameSize : {2, 3}, model : {"none"}]
    \union [flags : {"complete"}, rate : {2}, frameSize : {2}, model : {"refused", "throws"}]
    \union [flags : {"complete"}, rate : {1}, frameSize : {0}, model : {"none"}]
    \union [flags : {"incomplete", "malformed"}, rate : {1}, frameSize : {2}, model : {"none"}]

(* Samples that spell nothing, and a header where the walk over Long arrives  *)
(* whose size has wrapped: of samples, and of samples in another encoding.    *)
MCSpellings ==
  LET readings == Readings(<<1, 2>>, SizeMod)
      Spelled(chunk) == [chunks |-> [p \in {48} |-> chunk], readings |-> readings]
  IN  {[chunks |-> <<>>, readings |-> readings],
       Spelled(Data(2, <<-1, -2>>)),
       Spelled(Fmt("pcm", 2, 2, 8))}
=============================================================================
