SPECIFICATION FairSpec
CONSTANTS
  Vessels = {v1, v2}
  Windows = {w1}
  None = None
  End = 1
  MaxReqs = 1
INVARIANT TypeOK OnlyWhatWasAsked PlaysSelection PlayingMoves OverlayFresh
PROPERTY LoadingEnds PlaybackEnds
