------------------------------- MODULE HwClock -------------------------------
(***************************************************************************)
(* The clocks of platform/hw/arch/x86/clock.c: the paravirtual clock's     *)
(* unlocked reads, the scaled TSC clock, and the delay loop over the i8254 *)
(* counter with which the TSC is calibrated.  A behaviour is about one of  *)
(* them.  A word has 2 * W bits where the code has 64.                     *)
(***************************************************************************)
EXTENDS Integers

CONSTANTS W,            \* the bits of a half word (32 in the code)
          MaxVersion,   \* bound on the hypervisor's updates, two per version
          timer_rval,   \* the i8254's period, TIMER_HZ / 100
          MaxTicks      \* bound on the ticks a behaviour sees

Half == 2 ^ W
Full == 2 ^ (2 * W)

VARIABLES clock,                         \* which clock this behaviour is about
          version, ti,                   \* pvclock_ti: version, each word's epoch
          rdpc, rdver, got,              \* the reader
          tsc, tsc_base, tsc_mult, time_base,
          tick, polled, initial_tick, remaining

pvvars == <<version, ti, rdpc, rdver, got>>
tscvars == <<tsc, tsc_base, tsc_mult, time_base>>
pitvars == <<tick, polled, initial_tick, remaining>>
hwcvars == <<clock, pvvars, tscvars, pitvars>>

\* What a reader combines: the time stamp, the scale and the system time
\* (the wall clock has seconds and nanoseconds).
TimeField == {"tsc_timestamp", "scale", "system_time"}

-----------------------------------------------------------------------------
\* (a * b) >> 32, on x86_64 the middle of the double-width product, on i386
\* from the products of the halves.
mul64_32(a, b) == ((a * b) \div Half) % Full

mul64_32_i386(a, b) ==
  LET h == a \div Half
      l == a % Half
  IN  ((h * b) + ((l * b) \div Half)) % Full

-----------------------------------------------------------------------------
HCInit ==
  /\ clock \in {"pv", "tsc", "pit"}
  /\ version = 0 /\ ti = [f \in TimeField |-> 0]
  /\ rdpc = "idle" /\ rdver = 0 /\ got = [f \in TimeField |-> 0]
  /\ tsc_mult \in (IF clock = "tsc" THEN 1 .. Half - 1 ELSE {1})
  /\ tsc = 1 /\ tsc_base = 1 /\ time_base = mul64_32(1, tsc_mult)
  /\ tick \in (IF clock = "pit" THEN 1 .. timer_rval ELSE {1})
  /\ polled = 0 /\ initial_tick = tick /\ remaining = MaxTicks

\* The hypervisor updates: an odd version, the words one by one, an even one.
HypervisorBegins ==
  /\ version % 2 = 0 /\ version < MaxVersion
  /\ version' = version + 1 /\ UNCHANGED <<ti, rdpc, rdver, got>>

HypervisorWrites(f) ==
  /\ version % 2 = 1 /\ ti[f] < version
  /\ ti' = [ti EXCEPT ![f] = version] /\ UNCHANGED <<version, rdpc, rdver, got>>

HypervisorEnds ==
  /\ version % 2 = 1 /\ \A f \in TimeField : ti[f] = version
  /\ version' = version + 1 /\ UNCHANGED <<ti, rdpc, rdver, got>>

\* pvclock_monotonic and pvclock_read_wall_clock: note the version, read the
\* words, and go round again unless the version is even and still the same.
pvclock_starts ==
  /\ rdpc \in {"idle", "done"}
  /\ rdver' = version /\ rdpc' = "tsc_timestamp" /\ UNCHANGED <<version, ti, got>>

NextField == [tsc_timestamp |-> "scale", scale |-> "system_time", system_time |-> "check"]

pvclock_reads ==
  /\ rdpc \in TimeField
  /\ got' = [got EXCEPT ![rdpc] = ti[rdpc]] /\ rdpc' = NextField[rdpc]
  /\ UNCHANGED <<version, ti, rdver>>

Repeats == version % 2 = 1 \/ version # rdver

pvclock_checks_Same ==
  /\ rdpc = "check"
  /\ rdpc' = IF version # rdver THEN "idle" ELSE "done"
  /\ UNCHANGED <<version, ti, rdver, got>>

pvclock_checks ==
  /\ rdpc = "check"
  /\ rdpc' = IF Repeats THEN "idle" ELSE "done"
  /\ UNCHANGED <<version, ti, rdver, got>>

\* tscclock_monotonic moves its base to each reading of the TSC.
tscclock_monotonic(d) ==
  /\ tsc + d < Full
  /\ tsc' = tsc + d
  /\ time_base' = (time_base + mul64_32(tsc' - tsc_base, tsc_mult)) % Full
  /\ tsc_base' = tsc'
  /\ UNCHANGED tsc_mult

\* The counter runs down from timer_rval to 1 and starts again.
i8254_gettick(d) == ((tick - 1 - d) % timer_rval) + 1

\* i8254_delay: d ticks pass, less than a period, before the next look.
i8254_delay(d) ==
  /\ remaining > 1
  /\ tick' = i8254_gettick(d) /\ polled' = polled + d
  /\ remaining' = remaining - IF tick' > initial_tick
                              THEN timer_rval - (tick' - initial_tick)
                              ELSE initial_tick - tick'
  /\ initial_tick' = tick'

HCNext ==
  \/ /\ clock = "pv" /\ UNCHANGED <<clock, tscvars, pitvars>>
     /\ \/ HypervisorBegins \/ HypervisorEnds
        \/ \E f \in TimeField : HypervisorWrites(f)
        \/ pvclock_starts \/ pvclock_reads \/ pvclock_checks
  \/ /\ clock = "tsc" /\ UNCHANGED <<clock, pvvars, pitvars>>
     /\ \E d \in 0 .. Half : tscclock_monotonic(d)
  \/ /\ clock = "pit" /\ UNCHANGED <<clock, pvvars, tscvars>>
     /\ \E d \in 0 .. timer_rval - 1 : i8254_delay(d)

-----------------------------------------------------------------------------
(* The clocks' readings are sound: a finished paravirtual reading combines *)
(* the words of one update only; the TSC clock is never ahead of the       *)
(* scaled counter, whichever of the two multiplications computes it; the   *)
(* delay loop has counted exactly the ticks that passed.                   *)
ClockSound ==
  /\ rdpc = "done" => \A f, g \in TimeField : got[f] = got[g]
  /\ time_base <= mul64_32(tsc, tsc_mult)
  /\ mul64_32(tsc, tsc_mult) = mul64_32_i386(tsc, tsc_mult)
  /\ remaining = MaxTicks - polled
=============================================================================
