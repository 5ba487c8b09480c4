------------------------------- MODULE Launch -------------------------------
(***************************************************************************)
(* The program mpegts-pacer (main.rs): parse the command line, build the   *)
(* configuration from it, refuse what cannot work, open the egress, pace   *)
(* and report.  The command line is chosen as it is parsed: an argument    *)
(* that is read is any argument that could have stood there.               *)
(*                                                                         *)
(* The pacing is the other modules': here it starts, reports its health to *)
(* the observer of the program, and ends well or with an error.            *)
(***************************************************************************)
EXTENDS Config, FiniteSets

CONSTANTS
  Offered,      \* [option |-> set of whole numbers], the values given to it
  Leads,        \* arrival leads a source may turn out to have
  MaxOptions,   \* bound of the run: options on a command line
  MaxWatched,   \* bound of the run: options of one whose pacing is followed
  MaxTime       \* bound of the run: ticks of pacing followed

(* The options that take a number.                                          *)
Numbers == {"segment", "latency", "max", "ceiling", "timeout", "grace", "align",
            "interval", "seed", "ssrc"}

ASSUME LaunchAssumption ==
  /\ None \notin Nat
  /\ DOMAIN Offered \subseteq Numbers
  /\ \A o \in DOMAIN Offered : Offered[o] \subseteq Nat
  /\ Leads \subseteq Nat /\ Leads # {}
  /\ {MaxOptions, MaxWatched, MaxTime} \subseteq Nat

VARIABLES
  phase,        \* "start", "parse", "configure", "validate", "egress",
                \* "pace", "pacing" or "exited"
  exit,         \* the exit code, 101 for a panic
  dest, rate,   \* as typed: "stdout", "address" or "word"; a number, "auto" or "word"
  options,      \* the locals of parse
  config,       \* the configuration
  now,          \* ticks since pacing started
  next,         \* when the next counter line is due
  last          \* the source state reported last

VARIABLES       \* history
  given,        \* how many options were parsed
  mistyped,     \* one of them, or the bitrate, was not as the usage says
  sampled       \* when the last counter line was printed

observer == <<now, next, last, sampled>>
line     == <<dest, rate, options, given, mistyped>>
vars     == <<phase, exit, line, config, observer>>
-----------------------------------------------------------------------------
Switches == {"rtp", "preserve", "stream", "position"}
Policies == {"mute", "continue", "fail"}

NoOptions ==
  [rtp |-> FALSE, ssrc |-> None, pcr |-> "regenerate", segment |-> None, latency |-> None,
   max |-> None, ceiling |-> None, timeout |-> None, grace |-> None, policy |-> None,
   clocking |-> "arrival", seed |-> 0, align |-> None, position |-> "report",
   interval |-> None]

Init ==
  /\ phase = "start" /\ exit = None
  /\ dest = None /\ rate = None /\ options = NoOptions /\ config = NewConfig(None)
  /\ now = 0 /\ next = None /\ last = None
  /\ given = 0 /\ mistyped = FALSE /\ sampled = None

Exit(code) == phase' = "exited" /\ exit' = code

(* --help and --version anywhere on the line, whatever else it holds.       *)
Help ==
  /\ phase = "start" /\ Exit(0)
  /\ UNCHANGED <<line, config, observer>>

TooShort ==
  /\ phase = "start" /\ Exit(2)
  /\ UNCHANGED <<line, config, observer>>

Typed ==
  /\ phase = "start" /\ phase' = "parse"
  /\ dest' \in {"stdout", "address", "word"} /\ rate' \in {"number", "auto", "word"}
  /\ mistyped' = (rate' = "word")
  /\ UNCHANGED <<exit, options, given, config, observer>>

Option(o) ==
  /\ phase = "parse" /\ given < MaxOptions
  /\ options' = o
  /\ given' = given + 1
  /\ UNCHANGED <<phase, exit, dest, rate, mistyped, config, observer>>

Switched(flag) ==
  CASE flag = "rtp"      -> [options EXCEPT !.rtp = TRUE]
    [] flag = "preserve" -> [options EXCEPT !.pcr = "preserve"]
    [] flag = "stream"   -> [options EXCEPT !.clocking = "stream"]
    [] flag = "position" -> [options EXCEPT !.position = "fail"]

ParseSwitch == \E flag \in Switches : Option(Switched(flag))

(* A later value of a flag replaces an earlier one; a statistics interval   *)
(* of 0 is none.                                                            *)
ParseNumber ==
  \E flag \in DOMAIN Offered : \E n \in Offered[flag] :
    Option([options EXCEPT ![flag] = IF flag = "interval" /\ n = 0 THEN None ELSE n])

ParsePolicy == \E policy \in Policies : Option([options EXCEPT !.policy = policy])

(* MUTANT of Mistype: an argument that is not known is skipped.             *)
MistypeSkips ==
  /\ phase = "parse" /\ given < MaxOptions
  /\ mistyped' = TRUE
  /\ given' = given + 1
  /\ UNCHANGED <<phase, exit, dest, rate, options, config, observer>>

(* An unknown flag or policy, a flag whose value is missing, or is no whole *)
(* number of its width: the next argument is the value whatever it is.      *)
Mistype ==
  /\ phase = "parse" /\ given < MaxOptions
  /\ mistyped' = TRUE
  /\ Exit(2)
  /\ UNCHANGED <<dest, rate, options, given, config, observer>>

EndOfLine ==
  /\ phase = "parse" /\ phase' = "configure"
  /\ UNCHANGED <<exit, line, config, observer>>
-----------------------------------------------------------------------------
Refine(c, value, With(_, _)) == IF value = None THEN c ELSE With(c, value)
WithCeiling(c, ceiling) == WithAdaptiveLatency(c, DefaultLatency, ceiling, DefaultFactor)

Base(o) ==
  WithPcrPositionPolicy(
    WithSequenceSeed(
      WithClocking(
        WithPcrMode(NewConfig(IF rate = "auto" THEN None ELSE 1), o.pcr), o.clocking),
      o.seed), o.position)

(* MUTANT of Depths: the ceiling is set after the cushion it would replace. *)
DepthsCeilingAfter(o, c) ==
  Refine(Refine(Refine(Refine(c, o.segment, WithSegmentDuration), o.latency, WithLatency),
                o.ceiling, WithCeiling), o.max, WithMaxLatency)

(* The depths, each option refining what the ones before it chose.          *)
BeforeCap(o, c) ==
  Refine(Refine(Refine(c, o.segment, WithSegmentDuration), o.ceiling, WithCeiling),
         o.latency, WithLatency)

Depths(o, c) == Refine(BeforeCap(o, c), o.max, WithMaxLatency)

Stalls(o, c) ==
  Refine(Refine(Refine(c, o.timeout, WithStallTimeout), o.grace, WithStallGrace),
         o.policy, WithStallPolicy)

Built(o) == Stalls(o, Depths(o, Refine(Base(o), o.align, WithAlign)))

(* The bitrate is parsed after all flags, and the cap set last asks the     *)
(* depth chosen so far for its cushion, which unwinds where its bounds are  *)
(* out of order.                                                            *)
Unwinds(o) == o.max # None /\ ~Sizes(BeforeCap(o, Base(o)).latency)

Configure ==
  /\ phase = "configure"
  /\ IF rate = "word" THEN Exit(2) /\ UNCHANGED config
     ELSE IF Unwinds(options) THEN Exit(101) /\ UNCHANGED config
     ELSE phase' = "validate" /\ config' = Built(options) /\ UNCHANGED exit
  /\ UNCHANGED <<line, observer>>

Validate ==
  /\ phase = "validate"
  /\ IF Valid(config) THEN phase' = "egress" /\ UNCHANGED exit ELSE Exit(1)
  /\ UNCHANGED <<line, config, observer>>

(* The destination is parsed here, after the run was announced; a socket    *)
(* may not be had.                                                          *)
Egress ==
  /\ phase = "egress"
  /\ \/ dest \in {"stdout", "address"} /\ phase' = "pace" /\ UNCHANGED exit
     \/ dest = "address" /\ Exit(1)
     \/ dest = "word" /\ Exit(2)
  /\ UNCHANGED <<line, config, observer>>

(* pace_with asks for the cushion before it takes its first packet.         *)
Pace ==
  /\ phase = "pace"
  /\ IF Sizes(config.latency) THEN phase' = "pacing" /\ UNCHANGED exit ELSE Exit(101)
  /\ next' = options.interval
  /\ UNCHANGED <<line, config, now, last, sampled>>
-----------------------------------------------------------------------------
Tick ==
  /\ phase = "pacing" /\ now < MaxTime /\ given <= MaxWatched
  /\ now' = now + 1
  /\ UNCHANGED <<phase, exit, line, config, next, last, sampled>>

(* MUTANT of NextLine: a late line is followed by the ones it is late for.  *)
NextLineOnGrid == next + options.interval

NextLine == now + options.interval

(* A report of the pacer: the counter line when one is due.                 *)
Report(state) ==
  /\ phase = "pacing" /\ given <= MaxWatched
  /\ last' = state
  /\ IF next # None /\ now >= next
     THEN sampled' = now /\ next' = NextLine
     ELSE UNCHANGED <<sampled, next>>
  /\ UNCHANGED <<phase, exit, line, config, now>>

(* The input ended and was paced out, or the run ended with an error.       *)
Ends ==
  /\ phase = "pacing" /\ \E code \in {0, 1} : Exit(code)
  /\ UNCHANGED <<line, config, observer>>

States == {"priming", "live", "starved", "stalled"}

Next ==
  \/ Help \/ TooShort \/ Typed \/ ParseSwitch \/ ParseNumber \/ ParsePolicy \/ Mistype
  \/ EndOfLine \/ Configure \/ Validate \/ Egress \/ Pace
  \/ Tick \/ (\E state \in States : Report(state)) \/ Ends

(* The program runs on until it paces; how long it does is the source's.    *)
Fairness == WF_vars(EndOfLine \/ Configure \/ Validate \/ Egress \/ Pace)

Spec == Init /\ [][Next]_vars /\ Fairness
-----------------------------------------------------------------------------
Cushion(lead) == Target(config.latency, lead)

(* A run that starts can hold its own cushion whatever lead its source has, *)
(* and the legs of a pair do not depend on theirs (Config::validate:        *)
(* "Reject combinations that cannot deliver what the mode promises").       *)
StartsSound ==
  phase = "pacing" =>
    /\ \A lead \in Leads : Cushion(lead) <= Cap(config.latency, Cushion(lead))
    /\ options.clocking = "stream" =>
         /\ rate = "number" /\ options.pcr = "regenerate"
         /\ Cardinality({<<Cushion(lead), Timeout(config.stall, Cushion(lead))>> : lead \in Leads}) = 1

(* What the usage says of each depth holds in the run, in whatever company  *)
(* and order the options came ("pin the priming cushion", "pin the hard     *)
(* cap", "pin the depths", "the ceiling on an adaptively sized cushion",    *)
(* "grace on top").  Not so for --segment-ms under --latency-ceiling-ms,    *)
(* and for --stall-ms under --stall-grace-ms: the later setter undoes them. *)
SaidIsDone ==
  phase = "pacing" => \A lead \in Leads :
    LET silence == Timeout(config.stall, Cushion(lead))
    IN /\ options.latency # None => Cushion(lead) = options.latency
       /\ options.max # None => Cap(config.latency, Cushion(lead)) = options.max
       /\ options.segment # None /\ {options.latency, options.ceiling} = {None} =>
            Cushion(lead) = Scaled(options.segment, DefaultFactor)
       /\ options.ceiling # None /\ {options.latency, options.max} = {None} =>
            Cushion(lead) <= options.ceiling
       /\ options.grace # None => silence = Cushion(lead) + options.grace
       /\ options.timeout # None /\ options.grace = None =>
            silence = (IF options.timeout = 0 THEN None ELSE options.timeout)

(* A mistyped line ends with 2, whatever else it asks for, before anything  *)
(* is refused, opened or paced (main: "A mistyped flag exits 2 with one     *)
(* line rather than unwinding").                                            *)
MistypedExits2 ==
  /\ mistyped ~> exit = 2
  /\ [](mistyped => phase \in {"parse", "configure", "exited"})

(* Counter lines are at least their interval apart, however late a report   *)
(* is (liveness: "Skip whole periods rather than catching up").             *)
LinesSpaced ==
  [][sampled' # sampled =>
       sampled' - (IF sampled = None THEN 0 ELSE sampled) >= options.interval]_vars

(* No command line makes the program unwind (main: "exits 2 with one line   *)
(* rather than unwinding").  --latency-ceiling-ms under the default latency *)
(* does: Config::validate does not look at an adaptive depth's bounds.      *)
NeverUnwinds == exit # 101
=============================================================================
