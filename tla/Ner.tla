-------------------------------- MODULE Ner --------------------------------
(***************************************************************************)
(* Named-entity spans (m3-ner-ort): the decoding of a score tensor, and    *)
(* how the ONNX session is set up.  scores[s, w, l] is the score that the  *)
(* span of w tokens from token s on has label l.                           *)
(***************************************************************************)
EXTENDS Ranking

IsScores(scores) ==
  /\ IsFiniteSet(DOMAIN scores) /\ DOMAIN scores \subseteq Nat \X (Nat \ {0}) \X Nat
  /\ \A c \in DOMAIN scores : scores[c] = NaN \/ scores[c] \in Int

Spans(scores) == {[start |-> c[1], end |-> c[1] + c[2], label |-> c[3], score |-> scores[c]] :
                    c \in DOMAIN scores}

\* NaN is not at the threshold.
Candidates(scores, threshold) ==
  {c \in Spans(scores) : c.score # NaN /\ c.score >= threshold}

\* Best score first, then by start and end; labels stay in the tensor's order.
StrongerSpan(a, b) ==
  \/ a.score > b.score
  \/ /\ a.score = b.score
     /\ \/ a.start < b.start
        \/ a.start = b.start /\ a.end < b.end
        \/ a.start = b.start /\ a.end = b.end /\ a.label < b.label

Overlap(a, b) == a.start < b.end /\ b.start < a.end

\* The strongest first, each unless it overlaps one taken before.
Strongest(spans) == CHOOSE c \in spans : \A d \in spans \ {c} : StrongerSpan(c, d)
TakeSpan(st, n) ==
  LET c == Strongest(st.left)
  IN  [left |-> st.left \ {c},
       taken |-> st.taken \cup (IF \E a \in st.taken : Overlap(c, a) THEN {} ELSE {c})]
Resolved(candidates) ==
  FoldLeft(TakeSpan, [left |-> candidates, taken |-> {}], Numbers(Cardinality(candidates))).taken

\* By start: no two spans that do not overlap have the same.
InOrder(spans) ==
  [i \in 1..Cardinality(spans) |->
     CHOOSE c \in spans : Cardinality({d \in spans : d.start < c.start}) = i - 1]

\* A tensor of another size than its shape is refused.
DecodeSpans(scores, size, threshold) ==
  IF size # Cardinality(DOMAIN scores) THEN Fail
  ELSE Good(InOrder(Resolved(Candidates(scores, threshold))))

-----------------------------------------------------------------------------
(* OrtNer::new                                                             *)

EpPriority(platform) ==
  CASE platform = "linux_nvidia"        -> <<"CUDA", "TensorRT", "CPU">>
    [] platform = "linux_amd"           -> <<"ROCm", "CPU">>
    [] platform = "linux_intel_gpu"     -> <<"OpenVINO", "CPU">>
    [] platform = "windows"             -> <<"DirectML", "CPU">>
    [] platform = "macos_apple_silicon" -> <<"CoreML", "CPU">>
    [] platform = "cpu_only"            -> <<"CPU">>
Platforms == {"linux_nvidia", "linux_amd", "linux_intel_gpu", "windows",
              "macos_apple_silicon", "cpu_only"}

\* Every provider is registered in turn, whatever became of those before it.
Registered(order, works) == SelectSeq(order, LAMBDA ep : ep \in works)

\* What stops a session from being set up, in the order it is met, and how it
\* is reported.
NerSteps == <<[fault |-> "platform", error |-> "ValueError"],
              [fault |-> "model_file", error |-> "IoError"],
              [fault |-> "tokenizer_file", error |-> "IoError"],
              [fault |-> "dylib", error |-> "BackendError"],
              [fault |-> "session", error |-> "BackendError"],
              [fault |-> "model", error |-> "BackendError"],
              [fault |-> "tokenizer", error |-> "BackendError"]>>

\* A provider that fails is passed over and is no fault.
NewNer(platform, faults, works) ==
  LET met == SelectSeq(NerSteps, LAMBDA s : s.fault \in faults)
  IN  IF met # <<>> THEN [ok |-> FALSE, error |-> Head(met).error]
      ELSE Good(Registered(EpPriority(platform), works))

=============================================================================
