SPECIFICATION Spec
CONSTANTS
  Kernels <- MCKernels
  TextEnd <- MCTextEnd
  Boot <- MCBoot
  BootEnd <- MCBootEnd
  PvSite <- MCPvSite
  Guarded <- MCGuarded
  Calls <- MCCalls
  Targets <- MCTargets
  Printer <- MCPrinter
  Entries <- MCEntries
  RingEntries = 2
  Fuel = 90
  Chars = 2
  Busy = 2
INVARIANT TypeOK
INVARIANT StubsApart
INVARIANT WorkKept
INVARIANT NullHandled
INVARIANT NeverHangs
INVARIANT ConsolePrints
