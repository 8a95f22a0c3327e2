CONSTANTS
  RendererChoices <- MCRenderers
  EventsFor <- MCEventsFor
  Symbols <- MCSymbols
  Numerals <- MCNumerals
SPECIFICATION Spec
INVARIANTS PatternExpands AnsiOnlyColours JsonRoundTrip
