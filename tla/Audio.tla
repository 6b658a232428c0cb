--------------------------------- MODULE Audio ---------------------------------
(***************************************************************************)
(* The media converter (backends/convert.rs), up to the encoder: decoded   *)
(* audio is [channels, rate, samples, unit], its samples interleaved and   *)
(* counted in fractions 1/unit of full scale, so that the arithmetic on    *)
(* floating-point numbers is exact here.                                   *)
(***************************************************************************)
EXTENDS Integers, SequencesExt, FiniteSetsExt

CONSTANTS Mp3Rates,   \* the sample rates an MP3 may have, ascending
          FullScale,  \* 32768: the magnitude of the lowest 16-bit sample
          MaxLength,  \* the largest 32-bit number: RIFF stores lengths in them
          Failed      \* the conversion ends with an error

\* pcm_f32.  Bytes come in fours, checked with the channels.
PcmFits(audio) == audio.channels > 0 /\ Len(audio.samples) % audio.channels = 0

\* sample_to_i16: clamped, then rounded half away from zero.
Rounded(n, d) == IF n >= 0 THEN (2 * n + d) \div (2 * d) ELSE -((-2 * n + d) \div (2 * d))
ToI16(n, unit) ==
  LET clamped == IF n > unit THEN unit ELSE IF n < -unit THEN -unit ELSE n
  IN IF clamped < 0 THEN Rounded(clamped * FullScale, unit)
     ELSE Rounded(clamped * (FullScale - 1), unit)
Pcm16(audio) == [i \in DOMAIN audio.samples |-> ToI16(audio.samples[i], audio.unit)]

\* encode_wav.
Wav(audio) ==
  LET data == 2 * Len(audio.samples)
  IN IF ~PcmFits(audio) \/ data + 36 > MaxLength \/ audio.rate * audio.channels * 2 > MaxLength
     THEN Failed
     ELSE [channels |-> audio.channels, rate |-> audio.rate, block |-> 2 * audio.channels,
           data |-> data, riff |-> data + 36, pcm |-> Pcm16(audio)]

Distance(a, b) == IF a > b THEN a - b ELSE b - a
NearestMp3Rate(source) ==
  Mp3Rates[Min({i \in DOMAIN Mp3Rates : \A j \in DOMAIN Mp3Rates :
                  Distance(Mp3Rates[i], source) <= Distance(Mp3Rates[j], source)})]

\* More than two channels become one.
Downmixed(audio) ==
  LET frame(f) == SubSeq(audio.samples, (f - 1) * audio.channels + 1, f * audio.channels)
  IN IF audio.channels <= 2 THEN audio
     ELSE [audio EXCEPT !.channels = 1, !.unit = @ * audio.channels,
             !.samples = [f \in 1..(Len(audio.samples) \div audio.channels) |->
                            FoldLeft(LAMBDA x, y : x + y, 0, frame(f))]]

\* The input frame at or before output frame k, both counted from 0.
LeftFrame(k, source, target, frames) == Min({(k * source) \div target, frames - 1})

\* resample_linear: each output frame lies between the two input frames around it.
Resampled(audio, target) ==
  LET frames == Len(audio.samples) \div audio.channels
      outFrames == (frames * target + audio.rate \div 2) \div audio.rate
      sample(f, c) == audio.samples[f * audio.channels + c]
      value(k, c) ==
        LET left == LeftFrame(k, audio.rate, target, frames)
            right == Min({left + 1, frames - 1})
        IN sample(left, c) * target + (sample(right, c) - sample(left, c)) * (k * audio.rate - left * target)
  IN IF audio.samples = <<>> \/ audio.rate = target THEN [audio EXCEPT !.rate = target]
     ELSE [audio EXCEPT !.rate = target, !.unit = @ * target,
             !.samples = [i \in 1..(outFrames * audio.channels) |->
                            value((i - 1) \div audio.channels, ((i - 1) % audio.channels) + 1)]]

\* What encode_mp3 hands to the encoder.
Mp3Input(audio) ==
  IF ~PcmFits(audio) THEN Failed
  ELSE LET out == Resampled(Downmixed(audio), NearestMp3Rate(audio.rate))
       IN [channels |-> out.channels, rate |-> out.rate, pcm |-> Pcm16(out)]
===============================================================================
