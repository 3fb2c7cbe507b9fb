CONSTANTS
  Visits <- MCVisits
  Disturbed <- MCDisturbed
  RestrictOrganizationCreation = FALSE
SPECIFICATION Spec
INVARIANTS PagesAreRouted ErrorMeansUnchanged UsersLand GuardedOffersWork
CHECK_DEADLOCK FALSE
