----------------------------- MODULE HostDetect -----------------------------
(***************************************************************************)
(* host/detect.py and the derivation of host/autoconfig.py, as functions of *)
(* a machine: what its files say, and what its two probe commands do.       *)
(* Probes share one wall-clock budget, counted in probe timeouts: a command *)
(* that hangs uses up one.                                                  *)
(***************************************************************************)
EXTENDS Naturals

ProbeBudget == 2      \* _DETECTION_BUDGET_S is two of _PROBE_TIMEOUT_S
DesktopRam == 16 \* thousands of MB from which a plain Linux machine is a desktop

\* What a probe command does: it is missing, it answers, it fails, it hangs.
Outcomes == {"absent", "answers", "fails", "hangs"}

\* _run, after the probes before it spent part of the budget.
Probe_HangIsSilent(does, before) ==
  LET late == does # "absent" /\ before.spent >= ProbeBudget
      hung == does = "hangs" /\ ~late
  IN  [ok |-> does = "answers" /\ ~late,
       spent |-> before.spent + (IF hung THEN 1 ELSE 0),
       truncated |-> before.truncated \/ late]
Probe(does, before) ==
  LET late == does # "absent" /\ before.spent >= ProbeBudget
      hung == does = "hangs" /\ ~late
  IN  [ok |-> does = "answers" /\ ~late,
       spent |-> before.spent + (IF hung THEN 1 ELSE 0),
       truncated |-> before.truncated \/ late \/ hung]

Untried == [ok |-> FALSE, spent |-> 0, truncated |-> FALSE]

\* nvidia-smi is asked again when its first answer is unusable.
NvidiaGpus(m) ==
  LET first == Probe(m.smi[1], Untried)
      last  == IF first.ok \/ m.smi[1] = "absent" THEN first ELSE Probe(m.smi[2], first)
  IN  [probe |-> last, gpus |-> IF last.ok THEN m.gpus ELSE 0,
       noted |-> m.smi[1] # "absent" /\ (~last.ok \/ m.gpus = 0)]

\* _detect_gpus: the Tegra release file settles it; then what was found, by rank.
DetectGpus(m) ==
  LET nvidia == NvidiaGpus(m)
      rocm   == Probe(m.rocm, nvidia.probe)
      found(kind, truncated, noted) ==
        [accelerator |-> kind, truncated |-> truncated, noted |-> noted]
  IN  IF m.tegra THEN found("tegra", FALSE, FALSE)
      ELSE IF nvidia.gpus > 0
           THEN found(IF nvidia.gpus > 1 THEN "multi-gpu" ELSE "cuda-discrete",
                      nvidia.probe.truncated, nvidia.noted)
      ELSE IF m.hailo THEN found("hailo", nvidia.probe.truncated, nvidia.noted)
      ELSE IF m.system = "Darwin" /\ m.arm64
           THEN found("apple-silicon", nvidia.probe.truncated, nvidia.noted)
      ELSE found(IF rocm.ok THEN "rocm" ELSE "none", rocm.truncated, nvidia.noted)

DeviceClass(m, accelerator) ==
  CASE m.system = "Darwin"  -> "macos"
    [] m.system = "Windows" -> "windows"
    [] m.system \notin {"Darwin", "Windows", "Linux"} -> "unknown"
    [] m.system = "Linux" ->
         IF accelerator = "tegra" THEN "jetson"
         ELSE IF m.pi THEN "raspberry-pi"
         ELSE IF m.wsl THEN "wsl"
         ELSE IF m.container THEN "container"
         ELSE IF accelerator \in {"cuda-discrete", "multi-gpu"} \/ m.ram >= DesktopRam
              THEN "linux-desktop" ELSE "linux-server"

DetectHost(m) ==
  LET g == DetectGpus(m)
  IN  [class |-> DeviceClass(m, g.accelerator), accelerator |-> g.accelerator,
       os |-> m.system, runtime |-> m.runtime, noted |-> g.noted \/ g.truncated]

DeriveConfig(profile) ==
  [class |-> profile.class,
   toolchain |-> IF profile.class = "jetson" THEN "jp6" ELSE "native",
   local |-> profile.os \in {"Linux", "Darwin"},
   caps |-> (IF profile.accelerator \in {"tegra", "cuda-discrete", "multi-gpu"} THEN {"cuda"}
             ELSE {profile.accelerator} \cap {"hailo", "rocm"})
            \cup (IF profile.accelerator = "apple-silicon" THEN {"metal"} ELSE {})
            \cup (IF profile.runtime THEN {"containers"} ELSE {})]

-----------------------------------------------------------------------------
\* The machine as it would be seen if every command it has answered at once.
Answering(m) ==
  LET heard(does) == IF does = "absent" THEN does ELSE "answers"
  IN  [m EXCEPT !.smi = <<heard(m.smi[1]), heard(m.smi[2])>>, !.rocm = heard(m.rocm)]

\* A probe that hung or failed can cost the machine its accelerator, and with it its
\* class and its capabilities, but then the profile carries a note.  The one silent loss
\* is a rocminfo that fails outright (detect.py:270): its exit status is dropped.
DetectionIsHonest(m) ==
  LET seen == DetectHost(m) true == DetectHost(Answering(m)) IN
    seen.noted \/ m.rocm = "fails" \/ DeriveConfig(seen) = DeriveConfig(true)
=============================================================================
