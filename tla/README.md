# XBeach: models of its clock, its parallel grid, its boundary and its bed

XBeach computes waves, flow and the change of the bed near a coast. It is
Fortran, runs serially or with MPI, and is driven by its own program or, as a
library, through the BMI. These modules describe the part of it that decides
*when*, *where* and *by whom* something is done: the clock that stops at output
times, the division of the grid over processes, the exchange of borders, the
protocol by which a separate process writes the output, the sequence of wave
boundary conditions, the loops that move sand, and drifters that cross from the
part of one process to that of the next. The formulas of waves, flow and
transport are floating point arithmetic on grids and are not modelled.

Paths below are relative to `src/src/xbeachlibrary/` unless they say otherwise.

## The system

| Component | Source | State | Operations | What is hard |
|---|---|---|---|---|
| clock and output times | `timestep.F90`, `libxbeach.F90`, `../xbeach/xbeach.F90`, `xbeach_bmi.f90` | `par%t`, `par%dt`, `dtref`, lists and counters of output times, flags, `tnext` | `timestep_init`, `outputtimes_update`, `compute_dt`, `timestep`, `init`/`executestep`/`outputext`/`final` | tolerance, rounding, forced output, drivers that stop when they like |
| time averages | `varianceupdate.F90`, `ncoutput.F90` | sums per variable, `par%tintm` | `makeaverage`, `clearaverage`, `means_collect` | the period is set in one place and used in another; SAVEd state |
| domain decomposition | `general_mpi.F90`, `xmpi.F90`, `spaceparams.F90`, `logging.F90` | processor grid, neighbours, tables of subdomains, ranges | `decomp`, `det_submatrices`, `xmpi_determine_processor_grid`, `space_distribute_space`, `ranges_init` | remainders, narrow grids, cyclic boundaries, errors seen by all and acted on by one |
| halo exchange | `xmpi.F90` | borders of every field | `xmpi_shift_ee`, `_uu`, `_vv`, `_zs` | ordering without barriers, corners, one tag |
| output protocol | `output.F90`, `ncoutput.F90`, `spaceparams.F90` | what xomaster was told, what it has collected | wake-up, `end_program`, telling the time, collecting, writing, halting | collective calls that match only by order; a writer that lags behind |
| wave boundary conditions | `boundaryconditions.F90`, `waveparamsnew.F90`, `wave_functions.F90` | condition in force, lists of conditions, two records of a signal, window of a series (much of it SAVEd) | `wave_bc`, `spectral_wave_bc`, `velocity_Boundary` | a clock that skips records or conditions; the end of an input; locations with durations of their own; what only xmaster knows |
| sediment and bed | `morphevolution.F90` | bed level, thickness above the hard layer, layers with fractions | `transus`, `bed_update`, `update_fractions`, `setbathy_update` | an iteration on several processes that all must leave at one time; layers that merge and split |
| drifters | `drifters.F90` | position of every drifter, on every process | `drifter` | crossing from part to part; two reductions per drifter |
| parameter input | `params.F90`, `readkey.F90` | `par` | `all_input`, `readkey` | dependent checks, defaults |
| wave action | `wave_timestep.F90`, `wave_stationary.F90`, `wave_instationary.F90`, `wave_directions.F90` | energies | `wave` | when to call the stationary solver; iterations that stop collectively |
| flow | `flow_timestep.F90`, `nonh.F90`, `solver.F90`, `wetcells.F90` | velocities, levels, wet cells | `flow`, `compute_wetcells` | wetting and drying |
| tide, wind, discharge | `compute_tide_zs0.F90`, `readtide.F90`, `readwind.F90`, `interp.F90` | time series | interpolation in time | the ends of a series |
| groundwater | `groundwater.F90` | heads | `gwflow` | exchange of water with the surface |
| vegetation, beach wizard, ships | their files | tracks, fields | `vegatt`, `assim`, `shipwave` | tracks |
| file formats, introspection, utilities | `varoutput.F90`, `postprocess.F90`, `introspection.F90`, ... | | | |

How they interact: `init` reads the parameters on every process, divides the
grid, distributes the fields and calls `output` once; the output process
(xomaster, rank 0 of `xmpi_ocomm`) never returns from that call. Each computing
process then loops: `executestep` finds a common time step by a reduction,
moves the clock, updates the output flags, asks `wave_bc` for the condition of
the new time, and computes waves, flow, drifters and bed, exchanging borders
with its neighbours; `outputext` takes part in a round of output when one of
the flags is set. `final` wakes xomaster a last time.

What has to be right, component by component: no output time is missed and
every record is of its time; every record of means sums exactly its period;
every point of the grid has one owner and every border the values of the owner;
collective calls meet the same call on every process; the boundary condition in
force is that of the clock, however the clock steps; sand is neither made nor
lost, neither at the border of two parts nor between two layers; a drifter is
moved once, by somebody, in every step. `PROJECT.json` lists the places in the
code where these could go wrong (`hazards`).

## The modules

| Module | What it is |
|---|---|
| `TimeStep` | The clock. One action for each call a driver makes: `FirstOutput` (the output in `init`), `ExecuteStep` (`timestep` followed by `outputtimes_update`), `OutputExt`, `Final`. `it`, `out`, `tp` are `itg/itp/itm/itw`, `outputg/p/m/w` and `tpg/tpp/tpm/tpw` as functions of the stream. The Courant limit is any member of `CflSteps`; the quotients of `compute_dt` are integers rounded either way. `written` records at which times the files got a record. |
| `MeanOutput` | Extends `TimeStep` by the averages: a mean is represented by the time it has summed and the divisor of its weights. |
| `Decomposition` | The pure functions of the division: `decomp`, subdomains, ownership, neighbours, the processor grid and its checks, the ranges of `ranges_init`. |
| `GridSetup` | Start-up as processes: each determines the grid, xmaster stops everybody on a fatal error (`writelog_mpi`), divides and broadcasts. |
| `HaloExchange` | Rounds of computing a range and filling the border: a shift is a sending and a receiving half, channels between two processes are FIFO and carry everything. A value is the pair of the round and the global point it belongs to. |
| `OutputFile` | What output promises, independent of processes: records for all output times, in order, closed when complete. |
| `OutputProtocol` | The processes between two outputs. Each goes along the operations of a round (`round`, `at`), which it derives from its own copy of the flags; an operation has senders and receivers; a message carries the round and the operation it is part of. The variable `eager` says whether the MPI library buffers. Implements `OutputFile` (`KeepsPromise`). |
| `VelocitySeries` | `velocity_Boundary` as functions on the window of two records in memory: opening a file, a regular call, the end of the file. |
| `WaveBoundary` | Extends `TimeStep`: `WaveStep` is `executestep` with the whole of `wave_bc`: block I and II (`CurrentBc`: create and renew a condition; `SpectralWaveBc`, `ReadSpectra`, `ReadTable`), block III (the lists, the records of the signal in memory, the series). `bc` holds the SAVEd variables of `wave_bc` and of `waveparamsnew`; `taper` is `par%taper` on xmaster and on the others; `halted` says what a read past the end stopped the program for. A record is its number. |
| `Avalanche` | The loop of `bed_update` that lets slopes slide, with one fraction, cross-shore, on several processes that share cells at their border. A process computes its slopes and the depths that decide how steep they may be (`Slopes`, `Hav`, `Threshold`), goes along pairs of cells (`Visit`), and all of them meet in the sum of `n_aval` (`Reduce`), after which levels in the border are those of the owner, and sand and water levels are not. `water` is what the loop finds: `depth` is `hh`, `wet` is `wetz` (of the flow step before), and with `swrunup` the `runup`, water line `iwl` and revetment toe `istruct` each process has from `hybrid` for its own part. `hybrid` is not modelled: they may be any. |
| `BedLayers` | `update_fractions` for one cell: `Call` by `bed_update`, `Substep` a pass of its loop (exchange between layers, `Merge`, `Split`), `Return` (clipping of fractions). |
| `DrifterTrack` | What is promised about drifters: each moves once in a step with the flow of the cell of the whole grid that it is in. |
| `Drifters` | `drifter` on several processes: `Move`, `Skip`, and the reductions of `idrift` and `jdrift`. Implements `DrifterTrack` (`TrackFollowed`). |
| `FoldLemmas` | Lemmas for the proofs about `Min` and the sums over finite sets of the community modules: the least element, what one more element adds, sums that telescope. Each is shown by looking at a smallest set for which it fails. |
| `TimeStep_proofs` (with `MeanOutput`), `Decomposition_proofs` (with `GridSetup` and `HaloExchange`), `WaveBoundary_proofs`, `Avalanche_proofs`, `BedLayers_proofs`, `Drifters_proofs`, `OutputProtocol_proofs` | Theorems. |
| `MC*` | The instances for TLC. |

`MeanOutput` and `WaveBoundary` are compositions with the clock: their actions
are those of `TimeStep` with what else happens in the same call. `GridSetup`
and the instance of `Drifters` are built on `Decomposition`, so that drifters
cross the borders the program really draws.

Operators commented as mutants are not part of the models. Each is a definition
with a bug that somebody could make; under it, the property it belongs to fails.

## The runs

| Run | Shows |
|---|---|
| `clock` | `NoOutputLost`: a counter tells exactly which times the clock has reached. `RecordsOnTime`: one record each, in order, at its time. `StepsSmooth`: no small step before an output. `Terminates`. `PeriodsCovered`: a record of means sums exactly the steps of its period. `EvenWeights`: with equal periods its weights add up to one. Intervals, files, a late start, times beyond `tstop`, averaging that does not fit, implosions; under program xbeach and under a driver with a dt of its own. |
| `grid_division` | `DomainsTile`, `RangesTile`, `NeighboursMutual`, `NobodyPastBadGrid`, `SettlesOrStops` on some 80 inputs: 0 to 4 processes, grids from too small to comfortable, all divisions, cyclic or not. |
| `halo_exchange` | `HaloComplete`: after an exchange each point of the border, corners included, holds what its owner computed in the same round. `SkewBounded`, `Completes`. |
| `output_protocol` | `InStep`: what a process is about to receive belongs to the operation it is in. `SameClock`, `Snapshot`, `KeepsPromise`, `Terminates`. |
| `output_lastrecord` | Violation: a computing process calls `halt_program`, which aborts everybody, while xomaster may still be writing the record of the last moment. |
| `wave_conditions` | `ConditionCoversClock`: the condition in force is the one the clock is in. `SignalOnClock`: the record of the signal in use is that of the clock. `RecordsAdjacent`: the two records in memory are neighbours, and the same ones for short and long waves. `SignalLongEnough`: a signal has a record for every moment of its condition. `TaperAgrees`: all processes taper alike. `SeriesFollows`: a series is interpolated between the two records around the clock. Tables, spectra at one or two locations with and without FILELIST, reuse, series; under program xbeach and under a driver. |
| `wave_line` | Violation: a call of `spectral_wave_bc` that returns early is counted all the same; if a smaller step follows, the next call asks for a line the list does not have. |
| `series_lastvalue` | Violation: at the end of a series the value held is that of a buffer nothing was read into. |
| `avalanche` | `HardLayerKept`: the level and the sand above the hard layer change together. `SandKept`: without short-wave run-up, what leaves one part arrives in the other. `StableWhenQuiet`: when the loop ends because nothing slid, nothing can, on the whole grid, by the thresholds of the process that has the higher cell, with and without run-up. `AllLeave`: no process waits in an exchange the others do not make. |
| `bed_layers` | `BedFollows`: merging and splitting move layers, not the surface. `FractionsKept`: nothing of a fraction is lost. `VariableLayerBounded`: the variable layer is never empty, so that the loop ends. All three for changes that fit into one pass. |
| `layers_passes` | Violation: a change that takes several passes of the loop is made once too often, as `fac` is a part of what is left and multiplies the whole change. |
| `drifters` | `SameEverywhere`: all know the same positions. `TrackFollowed`: they implement `DrifterTrack`. `AllStepsMade`: nobody waits in a reduction alone. |

A violation is a place where the program does not do what it says of itself in
the line quoted in `PROJECT.json` (`findings`).

### Bounds, and why they are enough

* Clock: runs of 10 to 12 ticks with three steps (2, 3, 7) that do and do not
  divide the gaps between output times, steps given by a driver of 0, 1 and 2,
  one idle call (`MaxIdle`). The tolerance is 0 there. The theorems cover all
  other lists, steps and tolerances; with a tolerance, records are on time and
  periods complete up to it.
* Grid: sizes around the limits of 4 and 8 points per part, with and without a
  remainder. The theorems cover all sizes.
* Halo: 2 by 2 processes is the smallest grid with corners that come from a
  diagonal neighbour; 8 by 8 points leave parts of 6 by 6, of which 2 by 2 are
  their own. Two rounds are enough for one process to be a round ahead. The theorems
  cover all grids, divisions and numbers of rounds.
* Output: two computing processes, one of which has the output point and is not
  `xmpi_imaster`; outputs at times 0, 1, 2 and 5, one of them of wave points
  alone (a round without a record); steps without output in between; two fields
  of which one is asked for twice. Steps of 3 stand for an implosion.
* Waves: runs of 20 ticks; conditions shorter and longer than the largest step
  of 7, so that a step passes the end of one or of several; two locations that
  change together and two that do not; records 2 or 3 ticks apart, so that a
  step passes up to three of them, and durations that are no multiple of them;
  inputs that end before the run. Series with one record, with gaps larger and
  smaller than a step, that start late or end early. The theorems cover all
  inputs.
* Avalanche: eight cells on two processes, of which each has six, and beds with
  a step, a ridge or a hollow around the border on sand that is absent, thin or
  deep; four iterations. The water: no run-up; the same run-up with another toe
  on each process; more or less run-up on water that has just gone up; a water
  line on one process only, so that the other one reads an `iwl` that nothing
  has set. Levels are integers; 0.99 of a slope is rounded down, and the 1.d-10 on
  top of a threshold is left out. The theorems cover all beds, waters and parts.
* Bed layers: four layers of which the second is the variable one, so that there
  is one on top of it and two to merge with; up to four changes in a row, enough
  to merge or split more than once and to do one after the other. `MaxSubsteps`
  bounds the passes of a call. The theorems cover any number of layers, passes
  and calls.
* Drifters: 2 by 2 processes on 8 by 9 points, divided as `Decomposition` does
  it; positions in half cells; two drifters, of which one is released later and
  taken out earlier; three steps; flows that cross borders in both directions
  and leave the grid. The theorem covers the rest.

### Fairness

Program xbeach calls `executestep` and `outputext` in a loop: weak fairness of
`Next` in `TimeStep`; nothing is assumed of a BMI driver. Processes of the
parallel program run on their own: weak fairness of each process. Messages are
delivered and a collective call returns once all are in it (`Reduce` of
`Avalanche`, `Collective` of `Drifters`): MPI guarantees it.
`CHECK_DEADLOCK FALSE` stands in all configurations because runs end.

### Choices worth knowing

* `MPI_Abort` is called on `xmpi_comm`, which does not contain xomaster; MPI
  implementations end the whole job, and so does the model.
* `sglobal%collected` is reset at the head of `ncoutput`; in the model this is
  part of receiving the time, the last thing before it.
* A reduction is a point that no computing process passes before all have
  reached it. `SkewBounded` needs no such point: halo exchange alone keeps
  neighbours within one round.
* `HaloComplete` speaks of points that somebody computes. The last row of a u
  field, the last column of a v field and the outermost ring of a water level
  are filled by no shift; the code does not use them.
* `NoOutputLost`, `PeriodsCovered` and the second half of `StepsSmooth` assume
  output times that are ascending and further apart than the tolerance
  (`Separated`). Files are read unchecked. `RecordsOnTime` does without: it
  speaks of the times that were served.
* `ConditionCoversClock` and `SignalOnClock` are stated for inputs on which the
  program can be right at all: locations that change together, and, where a
  call takes only one condition (reuse, FILELIST absent), conditions that
  outlast a step (`Outlast`; the first condition of a reused list has to be
  longer than a step, because the call that starts it looks at one condition
  only). The last condition may be in use past its end, as `spectral_wave_bc`
  generates none in what it takes for the last step. Reused conditions that
  start so late that the test for the last step may have held them back are left
  out (`Behind`, see below).
* `SandKept` is stated for sand so deep that the hard layer limits no slide:
  `structdepth` in the border is not exchanged, so that two processes may move
  different amounts between the same two cells of a thin layer. It is stated for
  `swrunup = 0`, see below. `HardLayerKept`, `StableWhenQuiet` and `AllLeave` are
  stated for both values of it.
* `SignalLongEnough` leaves out durations that `nint` cuts by up to half a
  record (`WholeRecords`).

### Known divergences that no run shows

They were met while reading. The models contain them, but for the sums of the
mean wave direction, and the properties of the passing runs are stated so that
they hold beside them.

* A stream that served its last output time is due again whenever the clock
  stays within the tolerance of it, as after `tstop` under a BMI driver
  (`timestep.F90:313`). `outputtimes_update` overwrites flags that `timestep`
  forced for the record of the last moment (`timestep.F90:678`).
* Output times from files are divided by `morfac` also when `morfacopt = 0`
  leaves the clock alone.
* With mean times from a file the first period is divided by a `tintm` that was
  never read; `EvenWeights` speaks of intervals only. The sums of the mean wave
  direction are not cleared with the others (`varianceupdate.F90:412`).
* With `ny <= 2` the size of the parts is not checked (`xmpi.F90:368`).
* Without MPI the long waves of the earlier record are set to those of the
  later one when a step passes more than one record (`boundaryconditions.F90:620`):
  `RecordsAdjacent` claims the long waves with MPI, or for steps no longer than a
  record.
* With `swrunup = 1` the threshold of a slope depends on `runup`, `iwl` and
  `istruct` (`morphevolution.F90:833-862`), which `hybrid` sets on every process
  from its own part and nobody exchanges, as nobody exchanges the water levels the
  slides change. Two processes can then move different sand between the same two
  cells at their border, however deep it is: without its antecedent
  `~water.swrunup` TLC refutes `SandKept`. Where a part has had no dry cell behind
  a wet one, `iwl` was never set at all.
* `drifters.F90:34` announces the closest u- and v-points, which lie half a cell
  from the middle of a cell, but the half that lines 35 and 38 subtract is
  written `0.d5`, which is 0.0. All four indices are those of the cell of the
  drifter, and in the lower half of a cell it goes with the flow of the u- or
  v-point that is one too far. `Drifters` and `DrifterTrack` say what the code
  does: `TrackFollowed` is about the number of processes, that they move a
  drifter as one process would, and does not say that one process takes the
  points the comment speaks of.
* A series whose first record lies ahead of the clock is read to its end at
  once; `SeriesFollows` leaves such series out.
* A reused condition that ends within what `spectral_wave_bc` takes for the last
  step is kept. When a shorter step follows, the next one is taken up late, past
  its start and possibly past its end (`waveparamsnew.F90:122`). It is the
  counterpart, for reused lists, of what `wave_line` shows.

## What is proved

TLAPS checks the following for all values of the constants.

* `TimeStep_proofs`, the clock: `ClockInRange` (type invariant) and
  `OutputNeverLost` (`NoOutputLost`). The argument: `tnext` is the least output time ahead of the
  clock by more than the tolerance, or `tstop` (`NextStopIsNext`); a step ends at `tnext` at the latest; so between two calls of
  `outputtimes_update` no time of any stream is passed, and a counter that was
  right stays right (`CounterFollows`). `NoOutputLost` alone is not inductive:
  `IInv` adds that `tnext` was computed from the present clock and times, that
  an error ends the run before the next step (the forced times of an implosion
  break the order of the lists), and the state before the first output.

  `RecordsComplete` (`RecordsOnTime`) adds what the files hold (`RecInv`): a
  record for every time served, ascending, where between a step and its output
  the time just reached is not served yet. That two records differ is where the
  clock has to move with every step of program xbeach (`ClockMoves`).

  `StepsStaySmooth` (`StepsSmooth`) is an action property. The argument is that
  a choice of `compute_dt` stays a choice: if `dt` was one of `n` equal steps to
  the next stop, rounded either way, what is left is `n - 1` of them
  (`SmoothedAgain`), and away from output times the stop stays the same
  (`StopStays`). `Approach` is the invariant that says so.
* `TimeStep_proofs`, the averages: `SumsWithinTime`, `MeansCoverPeriods`
  (`PeriodsCovered`), `WeightsEven` (`EvenWeights`). `MeanSpec` implements
  `Spec` (`MeanIsClock`), so that the invariant of the clock may be used.
  `MeanInv` says that the sum has run since the last mean time served, to the
  tolerance, and between a step and its output that this step is still to be
  added (`AtStep`); that it starts neither early nor late is the test of the
  time span in `makeaverage` against the tolerance of the counters.
  `EvenInv` says that `par%tintm` has its value as long as there are periods to
  write.
* `Decomposition_proofs`, start-up: `TypeCorrect`, `BadGridStops`, `DomainsTileAlways`,
  `NeighboursAlwaysMutual`, `RangesTileAlways`. The invariant says that every
  process has drawn the same conclusion from the same input, that xmaster is
  past the log only if it was not fatal, and that a process that is ready has
  the tables of xmaster. The rest is arithmetic: `decomp` tiles an interval
  (`DecompTiles`), submatrices overlap by 4 (`SubmatricesOverlap`), their
  domains are adjacent (`DomainsAdjacent`), a rank is a place in the processor
  grid (`RankOfPlace`), the shortest border divides the number of processes
  (`ShortestDivides`).
* `Decomposition_proofs`, halo exchange: `HaloTypeCorrect`, `SkewAlwaysBounded`
  (`SkewBounded`) and `HaloCompleteWide` (`HaloComplete`). The exchanges of all
  rounds are numbered. `Taken` and `Given` count those a process has completed
  and those it has sent its block for, and the invariant has two parts:
  - `Protocol`: whatever a process has taken its neighbour had given
    (`TakenWasGiven`), and a channel holds, in order, the blocks of exactly the
    exchanges its sender has given and its receiver has not taken (`UnderWay`,
    `Channels`). So the block at the head of a channel is the one that is due
    (`HeadIsDue`), although all blocks have one tag. A process needs a block from
    the other side before it gives the next one of the same shift; therefore two
    neighbours are never more than a round apart (`OneRoundAhead`) and there is at
    most one block of each shift between two processes (`OnePerShift`), of which
    two shifts at most go between the same two (`Axes`).
  - `Values`: after its shift `k` a process has the rows `FreshRows` and the columns
    `FreshCols` up to date, namely those it computes and those filled so far. A
    block is right (`BlockOK`) in the points the receiver relies on. That a shift
    along the rows relies on the columns the two before have filled is what brings
    corners from diagonal neighbours (`SentRows`, `SameColumns`); that what is sent
    is inside what the sender has is arithmetic on the overlap of 4
    (`SentColumns`, `OffsetTable`). In the end everything a process may use and
    somebody computes is up to date (`UsableIsFresh`).

  `HaloComplete` is proved where `Wide` holds: the grid is not cyclic, or there is
  more than one column of processes, or there are more than five columns. The
  other grids pass the check of the size, and on them it is wrong: a
  process is then its own left and right neighbour and fills its border from
  columns of which some are border themselves. See the hazard at `xmpi.F90:374`.
* `WaveBoundary_proofs`: `WaveTypesKept`, `ConditionFollows`, `SignalFollows`,
  `NeighboursStay`, `SignalLasts`, `TaperAlike`, `SeriesOnClock`, all invariants
  of the run. `WaveSpec` implements `Spec` of the clock (`WaveIsClock`); of a step
  only that it is one of `CflSteps`, or leads to `tstop`, is used
  (`StepObeys`, `StepMoves`). The invariant has a part for each block of
  `wave_bc`:
  - `SpectraInv`: as locations change together, what has been read at each of
    them has the same end, that of the condition (`SameReads`), and the reading
    goes on until the clock is covered or the input ends (`AnotherSound`).
  - `ConditionInv`: the condition in force has started (`Started`); it covers the
    clock, unless it is kept in the last step or was delayed by that test
    (`Covers`); and its signal was entered at some time `e` since then
    (`Entered`). A step stays in the condition, keeps it in the last step, or
    enters another (`Stays`, `Keeps`, `Enters`, in `SpectraMoves` and
    `ReuseMoves`). `SignalOnClock` alone is not inductive: the position in the
    signal counts the multiples of `dtbc` passed since `e`, and only `e` tells
    how far that is from the start of the condition.
  - `LengthInv`: a position in the signal is below the number of its records,
    from the ends of conditions and the rounding of `nint` (`RecordsReach`,
    `SignalReaches`).
  - `RecordsInv`: the two records in memory are neighbours, from
    `NextRecordsSound`; the quotients in it by `SlotsGrow` and
    `SlotsBetween`.
  - `TableInv`: the line of a table is the one the clock is in, by sums of the
    durations up to it (`SumUpToNext`), which also gives `TaperAgrees`.
  - `SeriesInv`: the window of a series is around the clock (`SeriesSound`).
* `Avalanche_proofs`: `AvalancheTypes` and `HardLayerAlwaysKept`. On the process
  that owns a cell, level and sand change by the same amount in every slide,
  and a slide takes no more than there is; the exchange overwrites only what a
  process does not own. Both need that sand is never negative, which is where
  the type invariant goes in.

  `QuietBedIsStable` (`StableWhenQuiet`). A process that has moved nothing in an
  iteration still has the levels of all others that have moved nothing
  (`SameLevels`), and its slopes are those of its levels and not too steep as far
  as it has come (`NoneSteep`). All leave in the same exchange
  (`LeaveTogether`), so at the end every pair of neighbours was seen by the process
  that owns the higher one and has both. The depths it judged by are those it
  would find at the end (`DepthsSeen`, `SameHav`): it moved nothing, so neither
  its levels nor its water levels have changed.

  `SandIsKept` (`SandKept`). The levels from which an iteration computed its
  slopes (`Base`) are no longer anywhere in the state while it runs; they are what
  the levels are without the slides of the pairs passed so far (`Applied`). On
  them the processes agree (`BaseSame`), and without run-up on the depths as well
  (`TrueDepths`), hence on the thresholds (`SameThreshold`), so that both move the same sand between
  two cells they share, as long as the hard layer limits nothing (`SandLeft`
  bounds what slides can have taken). When all have passed all pairs, the slides
  cancel in the sum over all cells (`SlidesCancel`).
* `BedLayers_proofs`: `LayersTypes`, `SurfaceFollows` (`BedFollows`),
  `FractionsStay` (`FractionsKept`), `VariableLayerStays`
  (`VariableLayerBounded`). The invariant states the balance of level and of mass
  in the middle of a call as well, with what the call has still to take out
  (`Owed`). `MovedKeepsMass` is a telescoping sum over the layers: what one gives
  the next one gets; `MergeKeepsSand` and `SplitKeepsSand` do the same for what
  they shift, including what leaves or enters at the bottom. That one pass is
  enough is `~repeated`; `VariableLayerBounded` is needed in the invariant
  because a pass takes out no more than what `dz` allows.
* `Drifters_proofs`: `DriftersTypes`, `AlwaysSameEverywhere` and
  `TrackAlwaysFollowed`, the refinement of `DrifterTrack`. The invariant: while
  one process is in a reduction no other is past it (`InStep`); a process that
  has still to move a drifter has the position all others had of it (`Known`);
  one that has moved it holds either the moved position or `Huge` (`Brought`);
  between the two reductions the first coordinate is the minimum
  (`HalfReduced`). The refinement maps `at` to the old position as long as
  somebody has to move the drifter and to the minimum afterwards, so that the
  last `Move` of a drifter is the abstract `Drift` and everything else stutters.
  That step is right because some process has the cell of a drifter in the
  grid (`PartsAssumption`) and because a moved index is below `Huge`
  (`HugeAssumption`): then the minimum is the moved position if there is one.
* `OutputProtocol_proofs`: `ClocksAgree` (`SameClock`), `KeepsInStep` (`InStep`),
  `SnapshotsHold` (`Snapshot`), `TypesFit` (`TypeOK`) and `PromiseKept`
  (`KeepsPromise`), the refinement of `OutputFile`.
  - `ClockInv`: nobody is more than a step ahead (`OneStepApart`), because the
    reduction of `dt` waits for all; a process that is a step ahead has the
    clock the others will have.
  - `NetworkInv`: there is a sequence `R` of rounds of output, each given by the
    clock it is for. Every process is in some round of it, at an operation of
    the plan of that round that it takes part in and that is not left out
    (`Turns`); a computing process goes by a copy of the very clock that is in
    `R`, xomaster until it is told by what all rounds begin with (`Placed`). Of
    each channel `Fits` says that it holds, in order, what its sender has passed
    and its receiver has not, with the values `R` gives, and that no receiver is
    ahead of its sender. The first process to take a step to an output time adds
    a round to `R`; that this disturbs nobody is `Widened`: all others are
    then before that round, and xomaster cannot have been told that there is none.
  - A process proceeds by `After`, past a gather when it was flagged as collected;
    `TurnFollows` shows that sender and receivers leave out the same ones. For that
    a flag has to be `Dropped` of the plan, which is what `collected` amounts to
    (`DataFits`).
  - `DataFits` also says that what xomaster has of the fields it has passed is of
    the time it was told. `AllCollected`: at the write it has passed everything,
    and a plan brings each field that is written from all its sources
    (`Complete`).
  - `PromiseInv` relates the rounds to the output times: `R` has the output times
    up to the clock of each process, in order, none left out, with the streams
    that have a record there, and a failing step only as its last round
    (`TimesFit`); the last record in the file is of one of the rounds xomaster has
    `Served`, and of those no record is missing (`FileFits`). A step then maps to
    the promise as follows. A time step that fails is `Stumble`; the end of the
    forced output is `Fail`; `Write` is `Publish`, since an output time between
    the last record and this one would be an earlier round, which was served, or
    `PublishLast` when the clock it was told has the error; the first process to
    leave the last barrier is `Close`, since by then xomaster has served all
    rounds (`AllDone` says that nobody is elsewhere). All other steps stutter.

  `CollectsShape` and `PlanShape` say what the plans look like for any list of
  fields, with repetitions; nothing else is known of them in these proofs.

Assumptions: those named in the modules. In `TimeStep` and `GridSetup` they give
the types of the constants; in `HaloExchange` also that the grid passed the check
of its size; in `WaveBoundary` also that inputs are not empty and
`Huge` is past the end of every run; in `BedLayers` the order of the thresholds
(a layer is merged before it is empty and split when it is thicker than a
regular one) and that the variable layer is neither the first nor the last: the
default of `nd_var` is 2, `params.F90:1759` also lets it be 1, for which
`update_fractions` has a branch that is not modelled, or `nd`, for which it would
read the layer after the last; in `Avalanche` the overlap of the
parts, that is a halo wide enough for both owners of two neighbouring cells to
sweep them, which is what `det_submatrices` makes and `SubmatricesOverlap`
proves, and of the water that `istruct` keeps its initial value, beyond all
cells, when `hybrid` is not called, and that `iwl` is the index of some cell of
the part; in `Drifters` that the parts cover the grid. TLC evaluates them on the instances, for `Drifters`
on parts computed by `Decomposition`.

Only model-checked: liveness (`Terminates`, `SettlesOrStops`, `Completes`,
`AllLeave`, `AllStepsMade`), which is out of the prover's reach. All other
properties of the passing runs are stated by theorems.

## What is not modelled, and the plan

What remains worth modelling, in this order:

1. When `wave_timestep` calls the stationary solver
   (`abs(mod(t,wavint)) < 0.001*dt`), against the stops of the clock; the row
   by row iteration of `wave_stationary` and `wave_directions`, which all
   processes must leave together.
2. The rest of `wave_bc`: `ts_1`, `ts_2`, `params`, spectra with the
   non-hydrostatic module.
3. Avalanching alongshore and with several fractions at once, which joins
   `Avalanche` and `BedLayers`; `setbathy_update`.
4. Series of tide, wind and discharge: interpolation at the ends, against a
   reference definition. Ship tracks.
5. `readkey` and the dependent checks of `all_input`.

Out of reach: formulas of waves, flow, transport, groundwater and vegetation,
and the file formats. Sources outside the build (`xmpinew.F90`,
`general_mpi_new.F90`, `wave_boundary_*.f90`, `wave_bc_nextgen.f90`,
`demo.F90`) are left aside.
