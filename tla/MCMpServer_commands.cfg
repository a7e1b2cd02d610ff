SPECIFICATION Spec
CONSTANTS
  Players = {p1, p2, p3}
  Nobody = Nobody
  Everybody = Everybody
  Off = Off
INVARIANTS OnePlayer KnowsPlayer HandlerNeverWaits KillNotOwnEnd
PROPERTIES EndReported CommandEnds
